------------------------- MODULE RaftLeaders_proofs -------------------------
(***************************************************************************)
(* What is proved of the Raft nodes, however many, as long as none has     *)
(* restarted, none has strayed and no request is torn: a term has one      *)
(* leader, and two logs that have an entry in common are the same up to it. *)
(***************************************************************************)
EXTENDS Raft_proofs

\* The provers get more time than by default; a step that is left to Zenon says so.
USE SMTT(20), ZenonT(20)

----------------------------------------------------------------------------
(* One leader for a term *)

\* n has become the leader of term t.
Won(n, t) == [node |-> n, term |-> t] \in elections

\* p has voted for n in term t, as far as a response on its way or a candidate shows.
Voted(p, n, t) ==
    \/ \E m \in msgs : /\ m.type = "voteResponse" /\ m.granted
                       /\ m.from = p /\ m.to = n /\ m.term = t
    \/ state[n] = "candidate" /\ currentTerm[n] = t /\ (p = n \/ p \in votesReceived[n])

\* p gives its vote of term t to n or to no one.
Loyal(p, n, t) ==
    /\ currentTerm[p] >= t
    /\ currentTerm[p] = t => votedFor[p] = n
    /\ \A c \in Node : Voted(p, c, t) => c = n

Quorum(Q) == Q \in SUBSET Node /\ 2 * Cardinality(Q) > Cardinality(Node)

\* The types of what an election changes; no node sends to itself or counts itself.
VotesOK ==
    /\ votedFor \in [Node -> Node \cup {Nil}]
    /\ votesReceived \in [Node -> SUBSET Node]
    /\ elections \subseteq [node : Node, term : Nat]
    /\ \A n \in Node : n \notin votesReceived[n]
    /\ \A m \in msgs : m.from # m.to

\* A vote binds the voter: in its own term it has not voted for another, unless the term
\* has a leader already, whose requests make it forget.  A leader has a majority of
\* voters bound to it for good.
VotesTaken == \A p, n \in Node, t \in Nat : Voted(p, n, t) => currentTerm[p] >= t
VotesBind == \A p, n \in Node, t \in Nat :
                 Voted(p, n, t) => Loyal(p, n, t) \/ \E c \in Node : Won(c, t)
LeadersWon == \A n \in Node : state[n] = "leader" => Won(n, currentTerm[n])
WinnersLead == \A n \in Node, t \in Nat :
                   Won(n, t) => currentTerm[n] >= t /\ (currentTerm[n] = t => state[n] = "leader")
Backed == \A n \in Node, t \in Nat :
              Won(n, t) => \E Q : Quorum(Q) /\ \A p \in Q : Loyal(p, n, t)
OneWinner == \A n, p \in Node, t \in Nat : Won(n, t) /\ Won(p, t) => n = p
RequestsFromLeaders == \A m \in msgs : m.type = "append" => Won(m.from, m.term)

VoteInv == VotesTaken /\ VotesBind /\ LeadersWon /\ WinnersLead /\ Backed /\ OneWinner
ElectInv == restarts = 0 /\ ~strayed => VoteInv /\ RequestsFromLeaders

\* What binds a voter lasts: a later vote of it in the same term is for the same node,
\* unless it is given to the leader.
Newly(p, n, t) == /\ currentTerm'[p] = t /\ votedFor'[p] = n
                  /\ currentTerm[p] < t \/ (currentTerm[p] = t /\ votedFor[p] \in {Nil, n})

\* A step that elects no one.
Steady ==
    /\ elections' = elections
    /\ \A p \in Node :
          /\ currentTerm'[p] >= currentTerm[p]
          /\ currentTerm'[p] > currentTerm[p] => state'[p] # "leader"
          /\ currentTerm'[p] = currentTerm[p] =>
                /\ state'[p] = state[p]
                /\ \/ votedFor'[p] = votedFor[p] \/ votedFor[p] = Nil
                   \/ votedFor'[p] \in Node /\ Won(votedFor'[p], currentTerm[p])
    /\ \A p, n \in Node, t \in Nat : Voted(p, n, t)' => Voted(p, n, t) \/ Newly(p, n, t)

\* Such a step leaves a node loyal to the only winner of a term.
LEMMA LoyalKept ==
    ASSUME NodesOK, NodesOK', VotesOK, VoteInv, Steady, NEW p \in Node, NEW n \in Node, NEW t \in Nat,
           Loyal(p, n, t), \A c \in Node : Won(c, t) => c = n
    PROVE  Loyal(p, n, t)'
<1>1. currentTerm[p] \in Nat /\ currentTerm'[p] \in Nat /\ currentTerm[p] >= t
  BY Zenon DEF NodesOK, Loyal
<1>2. currentTerm'[p] >= t
  BY <1>1 DEF Steady
<1>3. ASSUME currentTerm'[p] = t PROVE votedFor'[p] = n
  <2>1. currentTerm[p] = t
    BY <1>1, <1>3 DEF Steady
  <2>2. votedFor[p] = n /\ n # Nil
    BY Zenon, <2>1, RaftAssumption DEF Loyal
  <2> QED
    BY Zenon, <1>3, <2>1, <2>2 DEF Steady
<1>4. ASSUME NEW c \in Node, Voted(p, c, t)' PROVE c = n
  <2>1. CASE Voted(p, c, t)
    BY Zenon, <2>1 DEF Loyal
  <2>2. CASE Newly(p, c, t)
    <3>1. currentTerm[p] = t /\ votedFor[p] \in {Nil, c}
      BY <1>1, <2>2 DEF Newly
    <3>2. votedFor[p] = n /\ n # Nil
      BY Zenon, <3>1, RaftAssumption DEF Loyal
    <3> QED
      BY Zenon, <3>1, <3>2
  <2> QED
    BY Zenon, <1>4, <2>1, <2>2 DEF Steady
<1> QED
  BY Zenon, <1>2, <1>3, <1>4 DEF Loyal

\* Such a step leaves what is known of votes and winners as it is.
LEMMA SteadyKeeps ==
    ASSUME NodesOK, NodesOK', VotesOK, VoteInv, Steady
    PROVE  VoteInv'
<1> USE DEF VoteInv
<1>1. \A n \in Node, t \in Nat : Won(n, t)' <=> Won(n, t)
  BY Zenon DEF Steady, Won
<1>2. \A n \in Node : currentTerm[n] \in Nat /\ currentTerm'[n] \in Nat /\ currentTerm'[n] >= currentTerm[n]
  BY Zenon DEF NodesOK, Steady
<1>3. VotesTaken'
  <2> SUFFICES ASSUME NEW p \in Node, NEW n \in Node, NEW t \in Nat, Voted(p, n, t)'
               PROVE  currentTerm'[p] >= t
    BY Zenon DEF VotesTaken
  <2>1. CASE Voted(p, n, t)
    BY <1>2, <2>1 DEF VotesTaken
  <2>2. CASE Newly(p, n, t)
    BY <1>2, <2>2 DEF Newly
  <2> QED
    BY Zenon, <2>1, <2>2 DEF Steady
<1>4. VotesBind'
  <2> SUFFICES ASSUME NEW p \in Node, NEW n \in Node, NEW t \in Nat, Voted(p, n, t)',
                      \A c \in Node : ~Won(c, t)
               PROVE  Loyal(p, n, t)'
    BY Zenon, <1>1 DEF VotesBind
  <2>1. CASE Voted(p, n, t)
    <3>1. Loyal(p, n, t)
      BY Zenon, <2>1 DEF VotesBind
    <3> QED
      BY Zenon, <3>1, LoyalKept
  <2>2. CASE Newly(p, n, t)
    <3>1. ASSUME NEW c \in Node, Voted(p, c, t)' PROVE c = n
      <4>1. CASE Voted(p, c, t)
        <5>1. Loyal(p, c, t)
          BY Zenon, <4>1 DEF VotesBind
        <5>2. currentTerm[p] = t /\ votedFor[p] = c /\ c # Nil
          BY <1>2, <2>2, <5>1, RaftAssumption DEF Loyal, Newly
        <5> QED
          BY <2>2, <5>2 DEF Newly
      <4>2. CASE Newly(p, c, t)
        BY Zenon, <2>2, <4>2 DEF Newly
      <4> QED
        BY Zenon, <3>1, <4>1, <4>2 DEF Steady
    <3> QED
      BY <1>2, <2>2, <3>1 DEF Newly, Loyal
  <2> QED
    BY Zenon, <2>1, <2>2 DEF Steady
<1>5. LeadersWon'
  <2> SUFFICES ASSUME NEW n \in Node, state'[n] = "leader" PROVE Won(n, currentTerm[n])'
    BY Zenon DEF LeadersWon
  <2>1. PICK t \in Nat : t = currentTerm[n] /\ t = currentTerm'[n] /\ state[n] = "leader"
    BY <1>2 DEF Steady
  <2>2. Won(n, t)
    BY Zenon, <2>1 DEF LeadersWon
  <2> QED
    BY Zenon, <2>1, <2>2 DEF Won, Steady
<1>6. WinnersLead'
  <2> SUFFICES ASSUME NEW n \in Node, NEW t \in Nat, Won(n, t)
               PROVE  currentTerm'[n] >= t /\ (currentTerm'[n] = t => state'[n] = "leader")
    BY Zenon, <1>1 DEF WinnersLead
  <2>1. currentTerm[n] >= t /\ (currentTerm[n] = t => state[n] = "leader")
    BY Zenon DEF WinnersLead
  <2> QED
    BY <1>2, <2>1 DEF Steady
<1>7. Backed'
  <2> SUFFICES ASSUME NEW n \in Node, NEW t \in Nat, Won(n, t)
               PROVE  \E Q : Quorum(Q)' /\ \A p \in Q : Loyal(p, n, t)'
    BY Zenon, <1>1 DEF Backed
  <2>1. PICK Q : Quorum(Q) /\ \A p \in Q : Loyal(p, n, t)
    BY Zenon DEF Backed
  <2>2. \A c \in Node : Won(c, t) => c = n
    BY Zenon DEF OneWinner
  <2>3. \A p \in Q : Loyal(p, n, t)'
    BY Zenon, <2>1, <2>2, LoyalKept DEF Quorum
  <2>4. Quorum(Q)'
    BY Zenon, <2>1 DEF Quorum
  <2> QED
    BY Zenon, <2>3, <2>4
<1>8. OneWinner'
  BY Zenon, <1>1 DEF OneWinner
<1> QED
  BY Zenon, <1>3, <1>4, <1>5, <1>6, <1>7, <1>8

\* What a handler of a message does to an election: nothing but to its receiver.
LEMMA BecomesOK ==
    ASSUME NodesOK, VotesOK, NEW m \in msgs, NEW st, NEW vote \in Node \cup {Nil},
           NEW votes \in SUBSET (Node \ {m.to}), Becomes(m, st, vote, votes)
    PROVE  /\ votedFor' \in [Node -> Node \cup {Nil}]
           /\ votesReceived' \in [Node -> SUBSET Node]
           /\ elections' \subseteq [node : Node, term : Nat]
           /\ \A n \in Node : n \notin votesReceived'[n]
<1>1. m.to \in Node /\ TermNow(m) \in Nat
  BY Zenon, NowTypes
<1>2. votedFor' = [votedFor EXCEPT ![m.to] = vote] /\ votesReceived' = [votesReceived EXCEPT ![m.to] = votes]
  BY Zenon DEF Becomes
<1>3. elections' \subseteq elections \cup {[node |-> m.to, term |-> TermNow(m)]}
  BY Zenon DEF Becomes
<1>4. [node |-> m.to, term |-> TermNow(m)] \in [node : Node, term : Nat]
  BY Zenon, <1>1
<1>5. elections' \subseteq [node : Node, term : Nat]
  BY Zenon, <1>3, <1>4 DEF VotesOK
<1> QED
  BY Zenon, <1>1, <1>2, <1>5 DEF VotesOK

\* The vote and the votes of the receiver of a message when its handler begins.
LEMMA VoteNowTypes ==
    ASSUME NodesOK, VotesOK, NEW m \in msgs
    PROVE  /\ VoteNow(m) \in Node \cup {Nil} /\ VotesNow(m) \in SUBSET (Node \ {m.to})
           /\ m.from \in Node /\ m.to \in Node /\ m.from # m.to
BY Zenon, NowTypes DEF VotesOK, VoteNow, VotesNow

\* Nobody sends to itself.
LEMMA SendToOthers ==
    ASSUME VotesOK, NEW done, NEW new, Send(done, new), \A m \in new : m.from # m.to
    PROVE  \A m \in msgs' : m.from # m.to
BY Zenon DEF Send, VotesOK

\* Every step keeps the types of what an election changes.
LEMMA VotesStep == NodesOK /\ BuildsOK /\ VotesOK /\ [RaftNext]_rvars => VotesOK'
<1> SUFFICES ASSUME NodesOK, BuildsOK, VotesOK, [RaftNext]_rvars PROVE VotesOK'
  BY Zenon
<1> USE DEF electionVars, leaderVars, logVars, applyVars, proposeVars, taskVars, pastVars
<1>1. ASSUME NEW n \in Node, onElectionTimeout(n) PROVE VotesOK'
  <2>1. /\ votedFor' = [votedFor EXCEPT ![n] = n] /\ votesReceived' = [votesReceived EXCEPT ![n] = {}]
        /\ UNCHANGED elections
    BY Zenon, <1>1 DEF onElectionTimeout
  <2>2. PICK new : Send({}, new) /\ \A m \in new : m.from = n /\ m.to \in Peers(n)
    BY <1>1 DEF onElectionTimeout
  <2>3. \A m \in msgs' : m.from # m.to
    BY Zenon, <2>2, SendToOthers DEF Peers
  <2> QED
    BY Zenon, <2>1, <2>3 DEF VotesOK
<1>2. ASSUME NEW n \in Node, \/ HeartbeatCheck(n) \/ ProposeCheck(n) \/ ProposeLog(n) \/ ProposePersist(n)
                             \/ ApplyCommitted(n) \/ ProposePrev(n) \/ ProposeEntries(n)
                             \/ \E p \in Node : ProposeNext(n, p)
      PROVE  VotesOK'
  <2>1. UNCHANGED <<votedFor, votesReceived, elections, msgs>>
    BY Zenon, <1>2 DEF HeartbeatCheck, ProposeCheck, ProposeLog, ProposePersist, ApplyCommitted, ProposeNext,
                ProposePrev, ProposeEntries
  <2> QED
    BY Zenon, <2>1 DEF VotesOK
<1>3. ASSUME NEW n \in Node, HeartbeatSend(n) PROVE VotesOK'
  <2>1. UNCHANGED <<votedFor, votesReceived, elections>>
    BY Zenon, <1>3 DEF HeartbeatSend
  <2>2. PICK new : Send({}, new) /\ \A m \in new : m.from = n /\ m.to \in Peers(n)
    BY <1>3 DEF HeartbeatSend, AppendMsg
  <2>3. \A m \in msgs' : m.from # m.to
    BY Zenon, <2>2, SendToOthers DEF Peers
  <2> QED
    BY Zenon, <2>1, <2>3 DEF VotesOK
<1>5. ASSUME NEW n \in Node, ProposeSend(n) PROVE VotesOK'
  <2>1. PICK p \in Peers(n) : p = request[n].to
    BY Zenon, <1>5 DEF ProposeSend, BuildsOK
  <2>2. UNCHANGED <<votedFor, votesReceived, elections>>
    BY Zenon, <1>5 DEF ProposeSend
  <2>3. PICK m : Send({}, {m}) /\ m.from = n /\ m.to = p
    <3>1. \E prev, prevTerm, es : Send({}, {AppendMsg(n, p, prev, prevTerm, es)})
      BY Zenon, <1>5, <2>1 DEF ProposeSend
    <3>2. \A prev, prevTerm, es : /\ AppendMsg(n, p, prev, prevTerm, es).from = n
                                  /\ AppendMsg(n, p, prev, prevTerm, es).to = p
      BY Zenon DEF AppendMsg
    <3> QED
      BY Zenon, <3>1, <3>2
  <2>4. \A q \in msgs' : q.from # q.to
    BY Zenon, <2>1, <2>3, SendToOthers DEF Peers
  <2> QED
    BY Zenon, <2>2, <2>4 DEF VotesOK
<1>6. ASSUME NEW n \in Node, Restart(n) PROVE VotesOK'
  <2>1. /\ votedFor' = [votedFor EXCEPT ![n] = Nil] /\ votesReceived' = [votesReceived EXCEPT ![n] = {}]
        /\ UNCHANGED <<elections, msgs>>
    BY Zenon, <1>6 DEF Restart
  <2> QED
    BY Zenon, <2>1 DEF VotesOK
<1>7. ASSUME NEW m \in msgs, handleMessage(m) PROVE VotesOK'
  <2>1. /\ VoteNow(m) \in Node \cup {Nil} /\ VotesNow(m) \in SUBSET (Node \ {m.to})
        /\ m.from \in Node /\ m.to \in Node /\ m.from # m.to
    BY Zenon, VoteNowTypes
  <2>2. PICK vote \in Node \cup {Nil}, votes \in SUBSET (Node \ {m.to}) :
            \E st : Becomes(m, st, vote, votes)
    <3>1. CASE handleVoteRequest(m)
      <4>1. \/ Becomes(m, StateNow(m), m.from, VotesNow(m))
            \/ Becomes(m, StateNow(m), VoteNow(m), VotesNow(m))
        BY Zenon, <3>1 DEF handleVoteRequest
      <4> QED
        BY Zenon, <2>1, <4>1
    <3>2. CASE handleVoteResponse(m)
      <4>1. \E s : \/ Becomes(m, s, VoteNow(m), VotesNow(m))
                   \/ Becomes(m, s, VoteNow(m), VotesNow(m) \cup {m.from})
        BY Zenon, <3>2 DEF handleVoteResponse
      <4>2. VotesNow(m) \cup {m.from} \in SUBSET (Node \ {m.to})
        BY Zenon, <2>1
      <4> QED
        BY Zenon, <2>1, <4>1, <4>2
    <3>3. CASE handleAppendEntries(m)
      <4>1. \/ Becomes(m, StateNow(m), m.from, VotesNow(m))
            \/ Becomes(m, StateNow(m), VoteNow(m), VotesNow(m))
        BY Zenon, <3>3 DEF handleAppendEntries
      <4> QED
        BY Zenon, <2>1, <4>1
    <3>4. CASE handleAppendEntriesResponse(m)
      <4>1. Becomes(m, StateNow(m), VoteNow(m), VotesNow(m))
        BY Zenon, <3>4 DEF handleAppendEntriesResponse, Stays
      <4> QED
        BY Zenon, <2>1, <4>1
    <3> QED
      BY Zenon, <1>7, <3>1, <3>2, <3>3, <3>4 DEF handleMessage
  <2>4. \A q \in msgs' : q.from # q.to
    <3>1. CASE msgs' = msgs \ {m}
      BY Zenon, <3>1 DEF VotesOK
    <3>2. CASE \E r : Send({m}, {r}) /\ r.from = m.to /\ r.to = m.from
      BY <2>1, <3>2, SendToOthers
    <3>3. CASE handleVoteRequest(m)
      <4>1. PICK r : Send({m}, {r}) /\ \E g : r = [type |-> "voteResponse", from |-> m.to,
                             to |-> m.from, term |-> TermNow(m), granted |-> g]
        BY Zenon, <3>3 DEF handleVoteRequest, Reply
      <4>2. r.from = m.to /\ r.to = m.from
        BY <4>1
      <4> QED
        BY Zenon, <3>2, <4>1, <4>2
    <3>4. CASE handleAppendEntries(m)
      <4>1. PICK r : Send({m}, {r}) /\ \E g, i : r = [type |-> "appendResponse", from |-> m.to,
                             to |-> m.from, term |-> TermNow(m), success |-> g, index |-> i]
        BY Zenon, <3>4 DEF handleAppendEntries, Reply
      <4>2. r.from = m.to /\ r.to = m.from
        BY <4>1
      <4> QED
        BY Zenon, <3>2, <4>1, <4>2
    <3>5. CASE handleVoteResponse(m) \/ handleAppendEntriesResponse(m)
      BY Zenon, <3>1, <3>5 DEF handleVoteResponse, handleAppendEntriesResponse
    <3> QED
      BY Zenon, <1>7, <3>3, <3>4, <3>5 DEF handleMessage
  <2> QED
    BY Zenon, <2>2, <2>4, BecomesOK DEF VotesOK
<1>8. CASE UNCHANGED rvars
  BY Zenon, <1>8 DEF rvars, VotesOK
<1> QED
  BY Zenon, <1>1, <1>2, <1>3, <1>5, <1>6, <1>7, <1>8 DEF RaftNext

\* A step that leaves the elections alone and answers no vote request.
LEMMA QuietSteady ==
    ASSUME NodesOK, UNCHANGED electionVars,
           \A m \in msgs' : m.type = "voteResponse" => m \in msgs
    PROVE  Steady
<1>1. UNCHANGED <<state, currentTerm, votedFor, votesReceived, elections>>
  BY Zenon DEF electionVars
<1>2. \A p \in Node : currentTerm[p] \in Nat
  BY Zenon DEF NodesOK
<1>3. \A p, n \in Node, t \in Nat : Voted(p, n, t)' => Voted(p, n, t)
  BY <1>1 DEF Voted
<1> QED
  BY <1>1, <1>2, <1>3 DEF Steady

\* So does a time-out of the election timer, but for the vote for itself.
LEMMA TimeoutSteady ==
    ASSUME NodesOK, VotesOK, NEW n \in Node, onElectionTimeout(n)
    PROVE  Steady
<1>1. PICK t \in Nat : t = currentTerm[n]
  BY Zenon DEF NodesOK
<1>2. /\ currentTerm'[n] = t + 1 /\ state'[n] = "candidate" /\ votedFor'[n] = n
      /\ votesReceived'[n] = {} /\ elections' = elections
      /\ \A p \in Node \ {n} : /\ currentTerm'[p] = currentTerm[p] /\ state'[p] = state[p]
                               /\ votedFor'[p] = votedFor[p] /\ votesReceived'[p] = votesReceived[p]
  BY <1>1 DEF onElectionTimeout, NodesOK, VotesOK
<1>3. \A p \in Node : currentTerm[p] \in Nat
  BY Zenon DEF NodesOK
<1>4. ASSUME NEW m \in msgs', m.type = "voteResponse" PROVE m \in msgs
  <2>1. PICK new : Send({}, new) /\ \A r \in new : r.type = "voteRequest"
    BY DEF onElectionTimeout
  <2> QED
    BY Zenon, <1>4, <2>1 DEF Send
<1>5. ASSUME NEW p \in Node, NEW c \in Node, NEW s \in Nat, Voted(p, c, s)'
      PROVE  Voted(p, c, s) \/ Newly(p, c, s)
  <2>1. CASE \E m \in msgs' : /\ m.type = "voteResponse" /\ m.granted
                              /\ m.from = p /\ m.to = c /\ m.term = s
    BY Zenon, <1>4, <2>1 DEF Voted
  <2>2. CASE state'[c] = "candidate" /\ currentTerm'[c] = s /\ (p = c \/ p \in votesReceived'[c])
    <3>1. CASE c = n
      <4>1. p = n /\ s = t + 1
        BY Zenon, <1>2, <2>2, <3>1
      <4> QED
        BY <1>1, <1>2, <3>1, <4>1 DEF Newly
    <3>2. CASE c # n
      BY Zenon, <1>2, <2>2, <3>2 DEF Voted
    <3> QED
      BY Zenon, <3>1, <3>2
  <2> QED
    BY Zenon, <1>5, <2>1, <2>2 DEF Voted
<1>6. ASSUME NEW p \in Node
      PROVE  /\ currentTerm'[p] >= currentTerm[p]
             /\ currentTerm'[p] > currentTerm[p] => state'[p] # "leader"
             /\ currentTerm'[p] = currentTerm[p] => state'[p] = state[p] /\ votedFor'[p] = votedFor[p]
  BY <1>1, <1>2, <1>3
<1> QED
  BY Zenon, <1>2, <1>5, <1>6 DEF Steady

\* So does the handler of a message, unless the receiver becomes the leader.
LEMMA HandlerSteady ==
    ASSUME NodesOK, VotesOK, VoteInv, NEW m \in msgs, NEW vote \in Node \cup {Nil}, NEW votes,
           Becomes(m, StateNow(m), vote, votes),
           \/ vote = VoteNow(m) \/ VoteNow(m) = Nil
           \/ vote \in Node /\ Won(vote, TermNow(m)),
           StateNow(m) = "candidate" => \A p \in votes \cap Node : Voted(p, m.to, TermNow(m)),
           \A r \in msgs' : r.type = "voteResponse" /\ r.granted =>
               \/ r \in msgs
               \/ /\ r.from = m.to /\ r.term = TermNow(m) /\ r.to = vote
                  /\ VoteNow(m) \in {Nil, vote}
    PROVE  Steady
<1>1. PICK n \in Node, t \in Nat : n = m.to /\ t = TermNow(m) /\ t >= currentTerm[n]
  BY Zenon, NowTypes
<1>2. /\ currentTerm'[n] = t /\ state'[n] = StateNow(m) /\ votedFor'[n] = vote /\ votesReceived'[n] = votes
      /\ \A p \in Node \ {n} : /\ currentTerm'[p] = currentTerm[p] /\ state'[p] = state[p]
                               /\ votedFor'[p] = votedFor[p] /\ votesReceived'[p] = votesReceived[p]
  BY <1>1 DEF Becomes, NodesOK, VotesOK
<1>3. \A p \in Node : currentTerm[p] \in Nat
  BY Zenon DEF NodesOK
<1>4. \/ t > currentTerm[n] /\ StateNow(m) = "follower"
      \/ t = currentTerm[n] /\ StateNow(m) = state[n] /\ VoteNow(m) = votedFor[n]
  BY Zenon, <1>1, <1>3 DEF TermNow, StateNow, VoteNow, Newer, NodesOK, MessageOK
<1>5. elections' = elections
  <2>1. CASE StateNow(m) = "leader"
    <3>1. Won(n, t)
      BY Zenon, <1>4, <2>1 DEF VoteInv, LeadersWon
    <3> QED
      BY Zenon, <1>1, <3>1 DEF Becomes, Won
  <2>2. CASE StateNow(m) # "leader"
    BY Zenon, <2>2 DEF Becomes
  <2> QED
    BY Zenon, <2>1, <2>2
<1>6. ASSUME NEW p \in Node
      PROVE  /\ currentTerm'[p] >= currentTerm[p]
             /\ currentTerm'[p] > currentTerm[p] => state'[p] # "leader"
             /\ currentTerm'[p] = currentTerm[p] =>
                  /\ state'[p] = state[p]
                  /\ \/ votedFor'[p] = votedFor[p] \/ votedFor[p] = Nil
                     \/ votedFor'[p] \in Node /\ Won(votedFor'[p], currentTerm[p])
  <2>1. CASE p # n
    BY <1>2, <1>3, <2>1
  <2>2. CASE p = n
    <3>1. CASE t > currentTerm[n] /\ StateNow(m) = "follower"
      BY <1>2, <1>3, <2>2, <3>1
    <3>2. CASE t = currentTerm[n] /\ StateNow(m) = state[n] /\ VoteNow(m) = votedFor[n]
      BY <1>1, <1>2, <1>3, <2>2, <3>2
    <3> QED
      BY Zenon, <1>4, <3>1, <3>2
  <2> QED
    BY Zenon, <2>1, <2>2
<1>7. ASSUME NEW p \in Node, NEW c \in Node, NEW s \in Nat, Voted(p, c, s)'
      PROVE  Voted(p, c, s) \/ Newly(p, c, s)
  <2>1. CASE \E r \in msgs' : /\ r.type = "voteResponse" /\ r.granted
                              /\ r.from = p /\ r.to = c /\ r.term = s
    <3>1. PICK r \in msgs' : /\ r.type = "voteResponse" /\ r.granted
                             /\ r.from = p /\ r.to = c /\ r.term = s
      BY Zenon, <2>1
    <3>2. CASE r \in msgs
      BY Zenon, <3>1, <3>2 DEF Voted
    <3>3. CASE p = n /\ s = t /\ c = vote /\ VoteNow(m) \in {Nil, vote}
      <4>1. currentTerm[n] < t \/ (currentTerm[n] = t /\ votedFor[n] \in {Nil, c})
        BY Zenon, <1>3, <1>4, <3>3
      <4> QED
        BY Zenon, <1>2, <3>3, <4>1 DEF Newly
    <3> QED
      BY Zenon, <1>1, <3>1, <3>2, <3>3
  <2>2. CASE state'[c] = "candidate" /\ currentTerm'[c] = s /\ (p = c \/ p \in votesReceived'[c])
    <3>1. CASE c = n
      <4>1. StateNow(m) = "candidate" /\ state[n] = "candidate" /\ s = t /\ t = currentTerm[n]
        BY Zenon, <1>2, <1>4, <2>2, <3>1
      <4>2. CASE p = n
        BY Zenon, <3>1, <4>1, <4>2 DEF Voted
      <4>3. CASE p \in votes
        BY Zenon, <1>1, <3>1, <4>1, <4>3
      <4> QED
        BY Zenon, <1>2, <2>2, <3>1, <4>2, <4>3
    <3>2. CASE c # n
      BY Zenon, <1>2, <2>2, <3>2 DEF Voted
    <3> QED
      BY Zenon, <3>1, <3>2
  <2> QED
    BY Zenon, <1>7, <2>1, <2>2 DEF Voted
<1> QED
  BY Zenon, <1>5, <1>6, <1>7 DEF Steady

\* No restart and no late vote or request is forgotten.
LEMMA StrayedStays ==
    ASSUME NodesOK, RaftNext, restarts' = 0, ~strayed'
    PROVE  restarts = 0 /\ ~strayed
<1> USE DEF electionVars, leaderVars, logVars, applyVars, proposeVars, taskVars, pastVars
<1>1. ASSUME NEW n \in Node, \/ onElectionTimeout(n) \/ HeartbeatCheck(n) \/ ProposeCheck(n)
                             \/ ProposePersist(n) \/ \E p \in Node : ProposeNext(n, p)
                             \/ ProposePrev(n) \/ ProposeEntries(n) \/ ApplyCommitted(n)
      PROVE  UNCHANGED <<restarts, strayed>>
  BY Zenon, <1>1 DEF onElectionTimeout, HeartbeatCheck, ProposeCheck, ProposePersist, ProposeNext, ProposePrev,
              ProposeEntries, ApplyCommitted
<1>2. ASSUME NEW n \in Node, HeartbeatSend(n) \/ ProposeLog(n) \/ ProposeSend(n)
      PROVE  restarts' = restarts /\ (strayed => strayed')
  BY Zenon, <1>2 DEF HeartbeatSend, ProposeLog, ProposeSend, Strays
<1>3. ASSUME NEW n \in Node, Restart(n) PROVE FALSE
  BY <1>3 DEF Restart, NodesOK
<1>4. ASSUME NEW m \in msgs, handleMessage(m)
      PROVE  restarts' = restarts /\ (strayed => strayed')
  <2>1. CASE handleVoteRequest(m) \/ handleAppendEntries(m) \/ handleAppendEntriesResponse(m)
    BY <2>1 DEF handleVoteRequest, handleAppendEntries, handleAppendEntriesResponse
  <2>2. CASE handleVoteResponse(m)
    BY Zenon, <2>2 DEF handleVoteResponse
  <2> QED
    BY ZenonT(30), <1>4, <2>1, <2>2 DEF handleMessage
<1> QED
  BY Zenon, <1>1, <1>2, <1>3, <1>4 DEF RaftNext

----------------------------------------------------------------------------
(* One log behind an entry *)

\* The term of the entry before place i, and the links between two terms that a log,
\* the entries of a request and those of one being built show.
TermBefore(l, i) == IF i = 1 THEN 0 ELSE l[i - 1].term
LogLink(l, i, t, b) == i \in DOMAIN l /\ t = l[i].term /\ b = TermBefore(l, i)
EntryLink(es, prev, prevTerm, i, t, b) ==
    \E k \in DOMAIN es : /\ i = prev + k /\ t = es[k].term
                         /\ b = IF k = 1 THEN prevTerm ELSE es[k - 1].term
RequestLink(m, i, t, b) == m.type = "append" /\ EntryLink(m.entries, m.prevIndex, m.prevTerm, i, t, b)
BuildLink(r, i, t, b) == r.stage = "entries" /\ EntryLink(r.entries, r.next - 1, r.prevTerm, i, t, b)
Link(i, t, b) == \/ \E n \in Node : LogLink(logEntries[n], i, t, b) \/ BuildLink(request[n], i, t, b)
                 \/ \E m \in msgs : RequestLink(m, i, t, b)

\* An entry has one predecessor wherever it is; it comes from a leader of its term, whose
\* log holds it as long as it leads.
OneLink == \A i, t, b, c \in Nat : Link(i, t, b) /\ Link(i, t, c) => b = c
LinksLed == \A i, t, b \in Nat : Link(i, t, b) => \E c \in Node : Won(c, t)
LeaderHas == \A i, t, b \in Nat, n \in Node :
                 Link(i, t, b) /\ state[n] = "leader" /\ currentTerm[n] = t => i <= Len(logEntries[n])
FirstTermZero ==
    /\ \A m \in msgs : m.type = "append" /\ m.prevIndex = 0 => m.prevTerm = 0
    /\ \A n \in Node : request[n].stage = "entries" /\ request[n].next - 1 = 0 => request[n].prevTerm = 0

LinkInv == OneLink /\ LinksLed /\ LeaderHas /\ FirstTermZero
MatchInv == restarts = 0 /\ ~strayed /\ ~torn => LinkInv

\* What appendEntry does to an ordered log.
LEMMA AppendEntryCases ==
    ASSUME NEW l \in Seq(Entry), NEW e \in Entry, Ordered(l), e.index <= Len(l) + 1
    PROVE  LET next == appendEntry(l, e) IN
           \/ next = l
           \/ /\ Len(next) = e.index /\ next[e.index] = e
              /\ \A i \in 1..(e.index - 1) : i \in DOMAIN l /\ next[i] = l[i]
<1>1. PICK x \in Nat \ {0} : x = e.index
  BY Zenon DEF Entry
<1>2. PICK next : next = appendEntry(l, e)
  BY Zenon
<1>3. CASE Places(l, x) = {}
  <2>1. x = Len(l) + 1
    <3>1. x \notin DOMAIN l
      BY Zenon, <1>3 DEF Places, Ordered
    <3> QED
      BY <1>1, <3>1
  <2>2. next = Append(l, e)
    BY Zenon, <1>1, <1>2, <1>3 DEF appendEntry
  <2> QED
    BY <1>1, <1>2, <2>1, <2>2
<1>4. CASE Places(l, x) # {}
  <2>1. PICK i : i = First(Places(l, x))
    BY Zenon
  <2>2. i \in Places(l, x)
    BY Zenon, <1>4, <2>1, FirstPlace
  <2>3. i = x /\ x \in DOMAIN l
    BY Zenon, <2>2 DEF Places, Ordered
  <2>4. next = Append(SubSeq(l, 1, x - 1), e) \/ next = l
    BY Zenon, <1>1, <1>2, <1>4, <2>1, <2>3 DEF appendEntry
  <2>5. PICK s : s = SubSeq(l, 1, x - 1)
    BY Zenon
  <2>6. s \in Seq(Entry) /\ Len(s) = x - 1 /\ \A j \in 1..(x - 1) : s[j] = l[j]
    BY <1>1, <2>3, <2>5
  <2>7. CASE next = Append(s, e)
    <3>1. Len(next) = x /\ next[x] = e /\ \A j \in 1..(x - 1) : next[j] = s[j]
      BY <1>1, <2>6, <2>7
    <3> QED
      BY <1>1, <1>2, <2>3, <2>6, <3>1
  <2> QED
    BY Zenon, <1>2, <2>4, <2>5, <2>7
<1> QED
  BY Zenon, <1>3, <1>4

\* The log that handleAppendEntries leaves has no link but those of the log before and of
\* the request.
LEMMA AppendAllLinks ==
    ASSUME NEW l \in Seq(Entry), NEW es \in Seq(Entry), NEW prev \in Nat, NEW prevTerm \in Nat,
           NEW t \in Nat, Ordered(l), UpToTerm(l, t), Follow(es, prev, prevTerm, t),
           prev = 0 \/ hasLogEntry(l, prev, prevTerm), prev = 0 => prevTerm = 0
    PROVE  \A i, s, b \in Nat : LogLink(AppendAll(l, es).log, i, s, b) =>
               LogLink(l, i, s, b) \/ EntryLink(es, prev, prevTerm, i, s, b)
<1>1. PICK f : /\ f[0] = [log |-> l, new |-> <<>>]
               /\ \A i \in 1..Len(es) : f[i] = AppendNext(f[i - 1], es[i])
               /\ AppendAll(l, es) = f[Len(es)]
  BY Zenon, AppendAllRounds
<1> DEFINE TermOf(k) == IF k = 0 THEN prevTerm ELSE es[k].term
           Linked(log) == \A i, s, b \in Nat : LogLink(log, i, s, b) =>
                              LogLink(l, i, s, b) \/ EntryLink(es, prev, prevTerm, i, s, b)
           Holds(log, k) == /\ log \in Seq(Entry) /\ Ordered(log) /\ UpToTerm(log, t)
                            /\ prev + k <= Len(log)
                            /\ prev + k > 0 => log[prev + k].term = TermOf(k)
           S == {k \in Nat : k <= Len(es) => Holds(f[k].log, k) /\ Linked(f[k].log)}
<1>2. 0 \in S
  <2>1. f[0].log = l
    BY <1>1
  <2>2. prev > 0 => prev <= Len(l) /\ l[prev].term = prevTerm
    BY DEF hasLogEntry, Ordered
  <2>3. Holds(l, 0)
    BY <2>2
  <2>4. Linked(l)
    BY Zenon
  <2> QED
    BY Zenon, <2>1, <2>3, <2>4
<1>3. ASSUME NEW k \in Nat, k \in S PROVE k + 1 \in S
  <2> SUFFICES ASSUME k + 1 <= Len(es) PROVE Holds(f[k + 1].log, k + 1) /\ Linked(f[k + 1].log)
    OBVIOUS
  <2>1. PICK log : log = f[k].log
    BY Zenon
  <2>2. PICK e \in Entry : e = es[k + 1]
    OBVIOUS
  <2>3. f[k + 1].log = appendEntry(log, e)
    <3>1. k + 1 \in 1..Len(es) /\ (k + 1) - 1 = k
      OBVIOUS
    <3>2. f[k + 1] = AppendNext(f[k], e)
      BY Zenon, <1>1, <2>2, <3>1
    <3> QED
      BY <2>1, <3>2 DEF AppendNext
  <2>4. Holds(log, k) /\ Linked(log)
    BY <1>3, <2>1
  <2>. log \in Seq(Entry) /\ Ordered(log) /\ UpToTerm(log, t)
    BY Zenon, <2>4
  <2>5. e.index = prev + k + 1 /\ prevTerm <= e.term /\ e.term <= t
    <3>1. k + 1 \in DOMAIN es
      OBVIOUS
    <3> QED
      BY <2>2, <3>1 DEF Follow
  <2>6. TermOf(k) <= e.term
    <3>1. CASE k = 0
      BY Zenon, <2>5, <3>1
    <3>2. CASE k # 0
      <4>1. k \in DOMAIN es /\ k + 1 \in DOMAIN es /\ k <= k + 1
        BY <3>2
      <4> QED
        BY Zenon, <2>2, <3>2, <4>1 DEF Follow
    <3> QED
      BY Zenon, <3>1, <3>2
  <2>7. e.index <= Len(log) + 1 /\ (e.index > 1 => log[e.index - 1].term <= e.term)
    BY <2>4, <2>5, <2>6
  <2>8. PICK next : next = appendEntry(log, e)
    BY Zenon
  <2>9. Ordered(next) /\ UpToTerm(next, t) /\ e.index <= Len(next) /\ next[e.index].term = e.term
    BY Zenon, <2>5, <2>7, <2>8, AppendEntryOrdered
  <2>10. next \in Seq(Entry)
    BY Zenon, <2>4, <2>8, AppendEntryRange
  <2>11. Holds(next, k + 1)
    BY <2>2, <2>5, <2>9, <2>10
  <2>12. \/ next = log
         \/ /\ Len(next) = e.index /\ next[e.index] = e
            /\ \A j \in 1..(e.index - 1) : j \in DOMAIN log /\ next[j] = log[j]
    BY <2>7, <2>8, AppendEntryCases
  <2>13. Linked(next)
    <3> SUFFICES ASSUME NEW i \in Nat, NEW s \in Nat, NEW b \in Nat, LogLink(next, i, s, b), next # log
                 PROVE  LogLink(log, i, s, b) \/ EntryLink(es, prev, prevTerm, i, s, b)
      BY Zenon, <2>4
    <3>1. PICK x \in Nat \ {0} : x = e.index /\ x = prev + k + 1
      BY <2>5
    <3>2. Len(next) = x /\ next[x] = e /\ \A j \in 1..(x - 1) : j \in DOMAIN log /\ next[j] = log[j]
      BY Zenon, <2>12, <3>1
    <3>3. i \in 1..x /\ s = next[i].term /\ b = TermBefore(next, i)
      BY <2>10, <3>2 DEF LogLink
    <3>4. CASE i < x
      <4>1. i \in 1..(x - 1) /\ (i # 1 => i - 1 \in 1..(x - 1))
        BY <3>3, <3>4
      <4>2. TermBefore(next, i) = TermBefore(log, i)
        BY Zenon, <3>2, <4>1 DEF TermBefore
      <4> QED
        BY Zenon, <3>2, <3>3, <4>1, <4>2 DEF LogLink
    <3>5. CASE i = x
      <4>1. s = es[k + 1].term
        BY Zenon, <2>2, <3>2, <3>3, <3>5
      <4>2. b = TermOf(k)
        <5>1. CASE x = 1
          BY <3>1, <3>3, <3>5, <5>1 DEF TermBefore
        <5>2. CASE x # 1
          <6>1. x - 1 \in 1..(x - 1) /\ prev + k = x - 1 /\ prev + k > 0
            BY <3>1, <5>2
          <6>2. b = log[x - 1].term
            BY Zenon, <3>2, <3>3, <3>5, <5>2, <6>1 DEF TermBefore
          <6> QED
            BY Zenon, <2>4, <6>1, <6>2
        <5> QED
          BY Zenon, <5>1, <5>2
      <4>3. k + 1 \in DOMAIN es /\ i = prev + (k + 1)
        BY <3>1, <3>5
      <4>4. b = IF k + 1 = 1 THEN prevTerm ELSE es[(k + 1) - 1].term
        BY <4>2
      <4> QED
        BY Zenon, <4>1, <4>3, <4>4 DEF EntryLink
    <3> QED
      BY <3>3, <3>4, <3>5
  <2> QED
    BY Zenon, <2>3, <2>8, <2>11, <2>13
<1>4. Len(es) \in S
  <2> HIDE DEF S
  <2> QED
    BY <1>2, <1>3, NaturalInduction
<1> QED
  BY <1>1, <1>4

\* The entries that sendAppendEntriesToAll collects are linked as in the log.
LEMMA RequestLinks ==
    ASSUME NEW l \in Seq(Entry), NEW next \in Nat \ {0}, NEW last \in Nat, Ordered(l)
    PROVE  /\ \A i, s, b \in Nat :
                 EntryLink(EntriesBetween(l, next, last), next - 1, TermAt(l, next - 1), i, s, b) =>
                     LogLink(l, i, s, b)
           /\ next - 1 = 0 => TermAt(l, next - 1) = 0
<1>1. PICK es : es = EntriesBetween(l, next, last)
  BY Zenon
<1>2. \A j \in DOMAIN es : next + j - 1 \in DOMAIN l /\ es[j] = l[next + j - 1]
  BY <1>1, EntriesBetweenOrdered
<1>3. es \in Seq(Entry)
  BY Zenon, <1>1, EntriesBetweenType
<1>4. PICK prevTerm : prevTerm = TermAt(l, next - 1)
  BY Zenon
<1>5. next = 1 => prevTerm = 0
  <2>1. Places(l, 0) = {}
    BY DEF Places, Ordered
  <2> QED
    BY <1>4, <2>1 DEF TermAt
<1>6. next - 1 \in DOMAIN l => prevTerm = l[next - 1].term
  <2> SUFFICES ASSUME next - 1 \in DOMAIN l PROVE prevTerm = l[next - 1].term
    BY Zenon
  <2>1. next - 1 \in Places(l, next - 1)
    BY Zenon DEF Places, Ordered
  <2>2. PICK i : i = First(Places(l, next - 1))
    BY Zenon
  <2>3. i \in Places(l, next - 1)
    BY Zenon, <2>1, <2>2, FirstPlace
  <2>4. i = next - 1
    BY Zenon, <2>3 DEF Places, Ordered
  <2> QED
    BY Zenon, <1>4, <2>1, <2>2, <2>4 DEF TermAt
<1>7. ASSUME NEW i \in Nat, NEW s \in Nat, NEW b \in Nat, EntryLink(es, next - 1, prevTerm, i, s, b)
      PROVE  LogLink(l, i, s, b)
  <2>1. PICK k \in DOMAIN es : /\ i = next - 1 + k /\ s = es[k].term
                               /\ b = IF k = 1 THEN prevTerm ELSE es[k - 1].term
    BY Zenon, <1>7 DEF EntryLink
  <2>2. k \in Nat /\ k >= 1 /\ k <= Len(es)
    BY <1>3
  <2>3. i = next + k - 1 /\ i \in DOMAIN l /\ s = l[i].term
    BY <1>2, <2>1, <2>2
  <2>4. b = TermBefore(l, i)
    <3>1. CASE k = 1 /\ next = 1
      BY <1>5, <2>1, <2>3, <3>1 DEF TermBefore
    <3>2. CASE k = 1 /\ next # 1
      <4>1. i = next /\ next - 1 \in DOMAIN l
        BY <2>3, <3>2
      <4> QED
        BY Zenon, <1>6, <2>1, <3>2, <4>1 DEF TermBefore
    <3>3. CASE k # 1
      <4>1. k - 1 \in DOMAIN es /\ next + (k - 1) - 1 = i - 1 /\ i # 1
        BY <1>3, <2>2, <2>3, <3>3
      <4>2. es[k - 1] = l[i - 1]
        BY Zenon, <1>2, <4>1
      <4> QED
        BY Zenon, <2>1, <3>3, <4>1, <4>2 DEF TermBefore
    <3> QED
      BY Zenon, <3>1, <3>2, <3>3
  <2> QED
    BY Zenon, <2>3, <2>4 DEF LogLink
<1> QED
  BY <1>1, <1>4, <1>5, <1>7

\* A node that leads a term of which there is an entry has led it before.
LEMMA LedBefore ==
    ASSUME NodesOK, NodesOK', VoteInv, VoteInv', elections \subseteq elections', NEW n \in Node, NEW t \in Nat,
           currentTerm[n] <= currentTerm'[n], state'[n] = "leader", currentTerm'[n] = t, \E c \in Node : Won(c, t)
    PROVE  state[n] = "leader" /\ currentTerm[n] = t
<1>1. Won(n, t)'
  BY Zenon DEF VoteInv, LeadersWon
<1>2. PICK c \in Node : Won(c, t)
  BY Zenon
<1>3. Won(c, t)'
  BY Zenon, <1>2 DEF Won
<1>4. c = n
  BY Zenon, <1>1, <1>3 DEF VoteInv, OneWinner
<1>5. currentTerm[n] >= t /\ (currentTerm[n] = t => state[n] = "leader")
  BY Zenon, <1>2, <1>4 DEF VoteInv, WinnersLead
<1>6. currentTerm[n] \in Nat
  BY Zenon DEF NodesOK
<1> QED
  BY <1>5, <1>6

\* A step that makes no new link and shortens no leader's log.
LEMMA LinksKept ==
    ASSUME NodesOK, NodesOK', VoteInv, VoteInv', LinkInv, elections \subseteq elections',
           \A n \in Node : currentTerm[n] <= currentTerm'[n],
           \A i, t, b \in Nat : Link(i, t, b)' => Link(i, t, b),
           \A n \in Node : state[n] = "leader" /\ state'[n] = "leader" /\ currentTerm'[n] = currentTerm[n] =>
                               Len(logEntries[n]) <= Len(logEntries'[n])
    PROVE  OneLink' /\ LinksLed' /\ LeaderHas'
<1>1. OneLink'
  BY DEF LinkInv, OneLink
<1>2. \A c \in Node, t \in Nat : Won(c, t) => Won(c, t)'
  BY Zenon DEF Won
<1>3. LinksLed'
  BY Zenon, <1>2 DEF LinkInv, LinksLed
<1>4. ASSUME NEW i \in Nat, NEW t \in Nat, NEW b \in Nat, NEW n \in Node,
             Link(i, t, b)', state'[n] = "leader", currentTerm'[n] = t
      PROVE  i <= Len(logEntries'[n])
  <2>1. Link(i, t, b) /\ \E c \in Node : Won(c, t)
    BY Zenon, <1>4 DEF LinkInv, LinksLed
  <2>2. state[n] = "leader" /\ currentTerm[n] = t
    BY Zenon, <1>4, <2>1, LedBefore
  <2>3. i <= Len(logEntries[n])
    BY Zenon, <2>1, <2>2 DEF LinkInv, LeaderHas
  <2>4. Len(logEntries[n]) <= Len(logEntries'[n])
    BY Zenon, <1>4, <2>2
  <2>5. Len(logEntries[n]) \in Nat /\ Len(logEntries'[n]) \in Nat
    BY DEF NodesOK
  <2> QED
    BY <2>3, <2>4, <2>5
<1>5. LeaderHas'
  BY Zenon, <1>4 DEF LeaderHas
<1> QED
  BY Zenon, <1>1, <1>3, <1>5

\* The step that makes a link: the leader's log has none at its end.
LEMMA ProposedLink ==
    ASSUME NodesOK, NodesOK', VoteInv, VoteInv', LogsOrdered, LinkInv, NEW n \in Node, ProposeLog(n),
           state[n] = "leader", UNCHANGED electionVars
    PROVE  OneLink' /\ LinksLed' /\ LeaderHas'
<1> USE DEF electionVars
<1>1. PICK l \in Seq(Entry), t \in Nat : l = logEntries[n] /\ t = currentTerm[n] /\ Ordered(l)
  BY Zenon DEF NodesOK, LogsOrdered
<1>2. PICK e : e = [term |-> t, index |-> LastIndex(l) + 1] /\ logEntries' = [logEntries EXCEPT ![n] = Append(l, e)]
  BY Zenon, <1>1 DEF ProposeLog
<1>3. PICK x \in Nat : x = Len(l) + 1
  OBVIOUS
<1>4. e.term = t
  BY Zenon, <1>2
<1>5. PICK new : new = Append(l, e)
  BY Zenon
<1>6. Len(new) = x /\ DOMAIN new = 1..x /\ new[x] = e /\ \A i \in 1..(x - 1) : i \in DOMAIN l /\ new[i] = l[i]
  BY <1>3, <1>5
<1>7. logEntries'[n] = new /\ \A p \in Node \ {n} : logEntries'[p] = logEntries[p]
  BY Zenon, <1>2, <1>5 DEF NodesOK
<1>8. \A i, s, b \in Nat : LogLink(new, i, s, b) =>
          LogLink(l, i, s, b) \/ (i = x /\ s = t /\ b = TermBefore(new, x))
  <2> SUFFICES ASSUME NEW i \in Nat, NEW s \in Nat, NEW b \in Nat, LogLink(new, i, s, b)
               PROVE  LogLink(l, i, s, b) \/ (i = x /\ s = t /\ b = TermBefore(new, x))
    BY Zenon
  <2>1. i \in 1..x /\ s = new[i].term /\ b = TermBefore(new, i)
    BY Zenon, <1>6 DEF LogLink
  <2>2. CASE i = x
    BY Zenon, <1>4, <1>6, <2>1, <2>2
  <2>3. CASE i # x
    <3>1. i \in 1..(x - 1) /\ (i # 1 => i - 1 \in 1..(x - 1))
      BY <2>1, <2>3
    <3>2. TermBefore(new, i) = TermBefore(l, i)
      BY Zenon, <1>6, <3>1 DEF TermBefore
    <3> QED
      BY Zenon, <1>6, <2>1, <3>1, <3>2 DEF LogLink
  <2> QED
    BY Zenon, <2>2, <2>3
<1>9. UNCHANGED <<msgs, state, currentTerm, elections, request>>
  BY Zenon DEF ProposeLog, proposeVars
<1>10. \A i, s, b \in Nat : Link(i, s, b)' => Link(i, s, b) \/ (i = x /\ s = t /\ b = TermBefore(new, x))
  BY Zenon, <1>1, <1>7, <1>8, <1>9 DEF Link
<1>11. \A b \in Nat : ~Link(x, t, b)
  <2> SUFFICES ASSUME NEW b \in Nat, Link(x, t, b) PROVE FALSE
    BY Zenon
  <2>1. x <= Len(l)
    BY Zenon, <1>1 DEF LinkInv, LeaderHas
  <2> QED
    BY <1>3, <2>1
<1>12. OneLink'
  BY <1>10, <1>11 DEF LinkInv, OneLink
<1>13. Won(n, t)
  BY Zenon, <1>1 DEF VoteInv, LeadersWon
<1>14. LinksLed'
  BY Zenon, <1>9, <1>10, <1>13 DEF LinkInv, LinksLed, Won
<1>15. ASSUME NEW i \in Nat, NEW s \in Nat, NEW b \in Nat, NEW p \in Node,
             Link(i, s, b)', state'[p] = "leader", currentTerm'[p] = s
      PROVE  i <= Len(logEntries'[p])
  <2>1. state[p] = "leader" /\ currentTerm[p] = s /\ Won(p, s)
    BY Zenon, <1>9, <1>15 DEF VoteInv, LeadersWon
  <2>2. CASE Link(i, s, b)
    <3>1. i <= Len(logEntries[p])
      BY Zenon, <2>1, <2>2 DEF LinkInv, LeaderHas
    <3>2. CASE p = n
      BY <1>1, <1>3, <1>6, <1>7, <3>1, <3>2
    <3>3. CASE p # n
      BY Zenon, <1>7, <3>1, <3>3
    <3> QED
      BY Zenon, <3>2, <3>3
  <2>3. CASE i = x /\ s = t
    <3>1. p = n
      BY Zenon, <1>13, <2>1, <2>3 DEF VoteInv, OneWinner
    <3> QED
      BY <1>6, <1>7, <2>3, <3>1
  <2> QED
    BY Zenon, <1>10, <1>15, <2>2, <2>3
<1>16. LeaderHas'
  BY Zenon, <1>15 DEF LeaderHas
<1> QED
  BY Zenon, <1>12, <1>14, <1>16

\* A request makes no new link, and the leader of its term does not take it.
LEMMA AppendedLinks ==
    ASSUME NodesOK, NodesOK', VotesOK, VoteInv, RequestsFromLeaders, LogsOrdered, RequestsOK, LinkInv,
           NEW m \in msgs, handleAppendEntries(m)
    PROVE  /\ \A i, t, b \in Nat, n \in Node :
                 LogLink(logEntries'[n], i, t, b) => LogLink(logEntries[n], i, t, b) \/ RequestLink(m, i, t, b)
           /\ \A n \in Node : state[n] = "leader" /\ currentTerm'[n] = currentTerm[n] =>
                                  logEntries'[n] = logEntries[n]
<1>1. PICK n \in Node, t \in Nat : n = m.to /\ t = TermNow(m) /\ t >= currentTerm[n]
  BY Zenon, NowTypes
<1>2. m.type = "append" /\ MessageOK(m)
  BY Zenon DEF handleAppendEntries, NodesOK
<1>3. currentTerm' = [currentTerm EXCEPT ![n] = t]
  BY Zenon, <1>1 DEF handleAppendEntries, Becomes
<1>4. PICK l \in Seq(Entry) : l = logEntries[n]
  BY Zenon DEF NodesOK
<1>5. PICK es \in Seq(Entry), prev \in Nat, prevTerm \in Nat :
          es = m.entries /\ prev = m.prevIndex /\ prevTerm = m.prevTerm
  BY Zenon, <1>2 DEF MessageOK, RequestsOK, RequestOK
<1>6. \/ logEntries' = logEntries
      \/ /\ m.term >= t /\ (prev = 0 \/ hasLogEntry(l, prev, prevTerm))
         /\ logEntries' = [logEntries EXCEPT ![n] = AppendAll(l, es).log]
  <2>1. CASE m.term >= TermNow(m) /\ (m.prevIndex = 0 \/ hasLogEntry(logEntries[m.to], m.prevIndex, m.prevTerm))
    BY Zenon, <1>1, <1>4, <1>5, <2>1 DEF handleAppendEntries
  <2>2. CASE ~(m.term >= TermNow(m) /\ (m.prevIndex = 0 \/ hasLogEntry(logEntries[m.to], m.prevIndex, m.prevTerm)))
    <3>1. logEntries' = [logEntries EXCEPT ![m.to] = logEntries[m.to]]
      BY Zenon, <2>2 DEF handleAppendEntries
    <3>2. logEntries \in [Node -> Seq(Entry)]
      BY Zenon DEF NodesOK
    <3> QED
      BY Zenon, <3>1, <3>2
  <2> QED
    BY Zenon, <2>1, <2>2
<1>7. CASE logEntries' = logEntries
  BY Zenon, <1>7
<1>8. CASE /\ m.term >= t /\ (prev = 0 \/ hasLogEntry(l, prev, prevTerm))
           /\ logEntries' = [logEntries EXCEPT ![n] = AppendAll(l, es).log]
  <2>1. m.term = t /\ m.term \in Nat
    BY <1>1, <1>8, NowTypes
  <2>2. Ordered(l) /\ UpToTerm(l, t) /\ Follow(es, prev, prevTerm, t)
    <3>1. Ordered(l) /\ UpToTerm(l, currentTerm[n]) /\ Follow(es, prev, prevTerm, t)
      BY Zenon, <1>2, <1>4, <1>5, <2>1 DEF LogsOrdered, RequestsOK, RequestOK
    <3>2. \A i \in DOMAIN l : l[i].term \in Nat
      <4>1. \A i \in DOMAIN l : l[i] \in Entry
        OBVIOUS
      <4> QED
        BY Zenon, <4>1 DEF Entry
    <3>3. currentTerm[n] \in Nat
      BY Zenon DEF NodesOK
    <3> QED
      BY <1>1, <3>1, <3>2, <3>3 DEF UpToTerm
  <2>3. prev = 0 => prevTerm = 0
    BY Zenon, <1>2, <1>5 DEF LinkInv, FirstTermZero
  <2>4. PICK new : new = AppendAll(l, es).log
    BY Zenon
  <2>5. \A i, s, b \in Nat : LogLink(new, i, s, b) =>
            LogLink(l, i, s, b) \/ EntryLink(es, prev, prevTerm, i, s, b)
    BY Zenon, <1>8, <2>2, <2>3, <2>4, AppendAllLinks
  <2>6. logEntries'[n] = new /\ \A p \in Node \ {n} : logEntries'[p] = logEntries[p]
    BY Zenon, <1>8, <2>4 DEF NodesOK
  <2>7. \A i, s, b \in Nat : EntryLink(es, prev, prevTerm, i, s, b) => RequestLink(m, i, s, b)
    BY Zenon, <1>2, <1>5 DEF RequestLink
  <2>8. ASSUME NEW i \in Nat, NEW s \in Nat, NEW b \in Nat, NEW p \in Node, LogLink(logEntries'[p], i, s, b)
        PROVE  LogLink(logEntries[p], i, s, b) \/ RequestLink(m, i, s, b)
    <3>1. CASE p = n
      BY Zenon, <1>4, <2>5, <2>6, <2>7, <2>8, <3>1
    <3>2. CASE p # n
      BY Zenon, <2>6, <2>8, <3>2
    <3> QED
      BY Zenon, <3>1, <3>2
  <2>9. ASSUME state[n] = "leader", currentTerm'[n] = currentTerm[n] PROVE FALSE
    <3>1. currentTerm[n] = t
      BY Zenon, <1>3, <2>9 DEF NodesOK
    <3>2. Won(n, t) /\ Won(m.from, t) /\ m.from \in Node /\ m.from # n
      BY Zenon, <1>1, <1>2, <2>1, <2>9, <3>1, VoteNowTypes DEF VoteInv, LeadersWon, RequestsFromLeaders
    <3> QED
      BY Zenon, <3>2 DEF VoteInv, OneWinner
  <2> QED
    BY Zenon, <2>6, <2>8, <2>9
<1> QED
  BY Zenon, <1>6, <1>7, <1>8

\* Every step keeps the links.
LEMMA LinkStep ==
    ASSUME NodesOK, NodesOK', BuildsOK, VotesOK, ElectInv, ElectInv', OrderInv, MatchInv, [RaftNext]_rvars
    PROVE  MatchInv'
<1> SUFFICES ASSUME restarts' = 0, ~strayed', ~torn' PROVE LinkInv'
  BY Zenon DEF MatchInv
<1> USE DEF electionVars, leaderVars, logVars, applyVars, proposeVars, taskVars, pastVars
<1>1. CASE UNCHANGED rvars
  <2>1. UNCHANGED <<state, currentTerm, elections, logEntries, msgs, request, restarts, strayed, torn>>
    BY Zenon, <1>1 DEF rvars
  <2>2. LinkInv
    BY Zenon, <2>1 DEF MatchInv
  <2> QED
    BY <2>1, <2>2 DEF LinkInv, OneLink, LinksLed, LeaderHas, FirstTermZero, Link, Won
<1>2. CASE RaftNext
  <2>1. /\ VoteInv /\ RequestsFromLeaders /\ VoteInv' /\ LogsOrdered /\ RequestsOK /\ BuildsFollow /\ LinkInv
        /\ \A n \in Node : currentTerm[n] <= currentTerm'[n]
    <3>1. ~strayed /\ ~torn
      BY Zenon, <1>2, StrayedStays, TornStays
    <3> QED
      BY Zenon, <1>2, <3>1, TermGrows DEF ElectInv, OrderInv, MatchInv
  <2>2. ASSUME elections \subseteq elections', UNCHANGED logEntries,
               \A m \in msgs' : m.type = "append" =>
                   \/ m \in msgs
                   \/ /\ m.prevIndex = 0 => m.prevTerm = 0
                      /\ \A i, t, b \in Nat : RequestLink(m, i, t, b) => Link(i, t, b),
               \A n \in Node :
                   \/ request'[n] = request[n] \/ request'[n].stage # "entries"
                   \/ /\ request'[n].next - 1 = 0 => request'[n].prevTerm = 0
                      /\ \A i, t, b \in Nat : BuildLink(request'[n], i, t, b) => Link(i, t, b)
        PROVE  LinkInv'
    <3>1. ASSUME NEW i \in Nat, NEW t \in Nat, NEW b \in Nat, Link(i, t, b)' PROVE Link(i, t, b)
      <4>1. CASE \E n \in Node : LogLink(logEntries'[n], i, t, b)
        BY Zenon, <2>2, <4>1 DEF Link
      <4>2. CASE \E n \in Node : BuildLink(request'[n], i, t, b)
        BY Zenon, <2>2, <4>2 DEF Link, BuildLink
      <4>3. CASE \E m \in msgs' : RequestLink(m, i, t, b)
        BY Zenon, <2>2, <4>3 DEF Link, RequestLink
      <4> QED
        BY Zenon, <3>1, <4>1, <4>2, <4>3 DEF Link
    <3>2. FirstTermZero'
      BY Zenon, <2>1, <2>2 DEF LinkInv, FirstTermZero
    <3>3. \A n \in Node : Len(logEntries[n]) <= Len(logEntries'[n])
      BY <2>2 DEF NodesOK
    <3> QED
      BY Zenon, <2>1, <2>2, <3>1, <3>2, <3>3, LinksKept DEF LinkInv
  <2>3. ASSUME NEW n \in Node, onElectionTimeout(n) PROVE LinkInv'
    <3>1. PICK new : Send({}, new) /\ \A m \in new : m.type = "voteRequest"
      BY <2>3 DEF onElectionTimeout
    <3>2. \A m \in msgs' : m.type = "append" => m \in msgs
      BY Zenon, <3>1 DEF Send
    <3>3. UNCHANGED <<elections, logEntries, request>>
      BY Zenon, <2>3 DEF onElectionTimeout
    <3> QED
      BY Zenon, <2>2, <3>2, <3>3
  <2>4. ASSUME NEW n \in Node, HeartbeatCheck(n) \/ ProposeCheck(n) \/ ProposePersist(n) \/ ApplyCommitted(n)
        PROVE  LinkInv'
    <3>1. UNCHANGED <<elections, logEntries, msgs, request>>
      BY Zenon, <2>4 DEF HeartbeatCheck, ProposeCheck, ProposePersist, ApplyCommitted
    <3> QED
      BY Zenon, <2>2, <3>1
  <2>5. ASSUME NEW n \in Node, HeartbeatSend(n) PROVE LinkInv'
    <3>1. PICK l \in Seq(Entry) : l = logEntries[n] /\ Ordered(l)
      BY Zenon, <2>1 DEF NodesOK, LogsOrdered
    <3>2. PICK new : /\ new = {AppendMsg(n, p, LastIndex(l), LastTerm(l), <<>>) : p \in Peers(n)}
                     /\ Send({}, new)
      BY Zenon, <2>5, <3>1 DEF HeartbeatSend
    <3>3. \A m \in msgs' : m \in msgs \/ m \in new
      BY Zenon, <3>2 DEF Send
    <3>4. ASSUME NEW m \in new
          PROVE  /\ m.prevIndex = 0 => m.prevTerm = 0
                 /\ \A i, t, b \in Nat : ~RequestLink(m, i, t, b)
      <4>1. m.entries = <<>> /\ m.prevIndex = LastIndex(l) /\ m.prevTerm = LastTerm(l)
        BY <3>2 DEF AppendMsg
      <4>2. DOMAIN m.entries = {}
        BY <4>1
      <4>3. LastIndex(l) = 0 => l = <<>>
        BY <3>1, OrderedLast
      <4>4. m.prevIndex = 0 => m.prevTerm = 0
        BY Zenon, <4>1, <4>3 DEF LastTerm
      <4> QED
        BY ZenonT(30), <4>2, <4>4 DEF RequestLink, EntryLink
    <3>5. UNCHANGED <<elections, logEntries, request>>
      BY Zenon, <2>5 DEF HeartbeatSend
    <3> QED
      BY Zenon, <2>2, <3>3, <3>4, <3>5
  <2>6. ASSUME NEW n \in Node, ProposeLog(n) PROVE LinkInv'
    <3>1. state[n] = "leader" /\ UNCHANGED <<electionVars, msgs, request>>
      BY Zenon, <2>6 DEF ProposeLog, Strays
    <3>2. FirstTermZero'
      BY Zenon, <2>1, <3>1 DEF LinkInv, FirstTermZero
    <3> QED
      BY Zenon, <2>1, <2>6, <3>1, <3>2, ProposedLink DEF LinkInv
  <2>7. ASSUME NEW n \in Node, ProposeSend(n) PROVE LinkInv'
    <3>1. PICK r \in Request : r = request[n] /\ r.stage = "entries"
      BY Zenon, <2>7 DEF ProposeSend, BuildsOK
    <3>2. PICK m : /\ Send({}, {m}) /\ m = AppendMsg(n, r.to, r.next - 1, r.prevTerm, r.entries)
      BY Zenon, <2>7, <3>1 DEF ProposeSend
    <3>3. m.prevIndex = r.next - 1 /\ m.prevTerm = r.prevTerm /\ m.entries = r.entries
      BY Zenon, <3>2 DEF AppendMsg
    <3>4. \A q \in msgs' : q \in msgs \/ q = m
      BY Zenon, <3>2 DEF Send
    <3>5. m.prevIndex = 0 => m.prevTerm = 0
      BY Zenon, <2>1, <3>1, <3>3 DEF LinkInv, FirstTermZero
    <3>6. ASSUME NEW i \in Nat, NEW t \in Nat, NEW b \in Nat, RequestLink(m, i, t, b) PROVE Link(i, t, b)
      BY Zenon, <3>1, <3>3, <3>6 DEF RequestLink, BuildLink, Link
    <3>7. UNCHANGED <<elections, logEntries>> /\ request' = [request EXCEPT ![n] = NoRequest]
      BY Zenon, <2>7 DEF ProposeSend
    <3>8. \A q \in Node : request'[q] = request[q] \/ request'[q].stage # "entries"
      BY Zenon, <3>7, NoRequestType DEF BuildsOK
    <3> QED
      BY Zenon, <2>2, <3>4, <3>5, <3>6, <3>7, <3>8
  <2>12. ASSUME NEW n \in Node, ProposePrev(n) \/ \E p \in Node : ProposeNext(n, p) PROVE LinkInv'
    <3>1. UNCHANGED <<elections, logEntries, msgs>>
      BY Zenon, <2>12 DEF ProposePrev, ProposeNext
    <3>2. /\ request'[n].stage # "entries"
          /\ \A q \in Node \ {n} : request'[q] = request[q]
      <4>1. request \in [Node -> Request]
        BY Zenon DEF BuildsOK
      <4>2. CASE ProposePrev(n)
        BY <4>1, <4>2 DEF ProposePrev, Request
      <4>3. ASSUME NEW p \in Node, ProposeNext(n, p)
            PROVE  /\ request'[n].stage # "entries"
                   /\ \A q \in Node \ {n} : request'[q] = request[q]
        BY <4>1, <4>3 DEF ProposeNext
      <4> QED
        BY Zenon, <2>12, <4>2, <4>3
    <3> QED
      BY Zenon, <2>2, <3>1, <3>2
  <2>13. ASSUME NEW n \in Node, ProposeEntries(n) PROVE LinkInv'
    <3>1. PICK r \in Request, l \in Seq(Entry), last \in Nat :
              /\ r = request[n] /\ r.stage = "prev" /\ r.next >= 1
              /\ l = logEntries[n] /\ last = sendLast[n] /\ Ordered(l)
      BY Zenon, <2>1, <2>13 DEF ProposeEntries, BuildsOK, BuildsFollow, BuildOK, NodesOK, LogsOrdered
    <3>2. PICK next \in Nat \ {0} : next = r.next
      BY <3>1 DEF Request
    <3>3. PICK es : es = EntriesBetween(l, next, last)
      BY Zenon
    <3>4. TermAt(l, next - 1) = r.prevTerm
      BY Zenon, <2>13, <3>1, <3>2 DEF ProposeEntries
    <3>5. /\ request' = [request EXCEPT ![n].stage = "entries", ![n].entries = es]
          /\ UNCHANGED <<elections, logEntries, msgs>>
      BY Zenon, <2>13, <3>1, <3>2, <3>3 DEF ProposeEntries
    <3>6. /\ request'[n].next = next /\ request'[n].prevTerm = r.prevTerm /\ request'[n].entries = es
          /\ \A q \in Node \ {n} : request'[q] = request[q]
      BY <3>1, <3>2, <3>5 DEF Request, BuildsOK
    <3>7. request'[n].next - 1 = 0 => request'[n].prevTerm = 0
      BY Zenon, <3>1, <3>4, <3>6, RequestLinks
    <3>8. ASSUME NEW i \in Nat, NEW t \in Nat, NEW b \in Nat, BuildLink(request'[n], i, t, b) PROVE Link(i, t, b)
      <4>1. EntryLink(EntriesBetween(l, next, last), next - 1, TermAt(l, next - 1), i, t, b)
        BY Zenon, <3>3, <3>4, <3>6, <3>8 DEF BuildLink
      <4>2. LogLink(l, i, t, b)
        BY Zenon, <3>1, <4>1, RequestLinks
      <4> QED
        BY Zenon, <3>1, <4>2 DEF Link
    <3> QED
      BY Zenon, <2>2, <3>5, <3>6, <3>7, <3>8
  <2>8. ASSUME NEW n \in Node, Restart(n) PROVE FALSE
    BY <2>8 DEF Restart, NodesOK
  <2>9. ASSUME NEW m \in msgs, handleVoteRequest(m) PROVE LinkInv'
    <3>1. PICK r : Send({m}, {r}) /\ \E g : r = [type |-> "voteResponse", from |-> m.to,
                           to |-> m.from, term |-> TermNow(m), granted |-> g]
      BY Zenon, <2>9 DEF handleVoteRequest, Reply
    <3>2. r.type = "voteResponse"
      BY <3>1
    <3>3. \A q \in msgs' : q.type = "append" => q \in msgs
      BY Zenon, <3>1, <3>2 DEF Send
    <3>4. elections \subseteq elections' /\ UNCHANGED <<logEntries, request>>
      BY Zenon, <2>9 DEF handleVoteRequest, Becomes
    <3> QED
      BY Zenon, <2>2, <3>3, <3>4
  <2>10. ASSUME NEW m \in msgs, handleVoteResponse(m) \/ handleAppendEntriesResponse(m) PROVE LinkInv'
    <3>1. msgs' = msgs \ {m} /\ elections \subseteq elections' /\ UNCHANGED <<logEntries, request>>
      BY Zenon, <2>10 DEF handleVoteResponse, handleAppendEntriesResponse, Stays, Becomes
    <3> QED
      BY Zenon, <2>2, <3>1
  <2>11. ASSUME NEW m \in msgs, handleAppendEntries(m) PROVE LinkInv'
    <3>1. PICK r : Send({m}, {r}) /\ \E g, i : r = [type |-> "appendResponse", from |-> m.to,
                             to |-> m.from, term |-> TermNow(m), success |-> g, index |-> i]
      BY Zenon, <2>11 DEF handleAppendEntries, Reply
    <3>2. r.type = "appendResponse"
      BY <3>1
    <3>3. \A q \in msgs' : q.type = "append" => q \in msgs
      BY Zenon, <3>1, <3>2 DEF Send
    <3>4. elections \subseteq elections' /\ UNCHANGED request
      BY Zenon, <2>11 DEF handleAppendEntries, Becomes
    <3>5. /\ \A i, t, b \in Nat, n \in Node :
                 LogLink(logEntries'[n], i, t, b) => LogLink(logEntries[n], i, t, b) \/ RequestLink(m, i, t, b)
          /\ \A n \in Node : state[n] = "leader" /\ currentTerm'[n] = currentTerm[n] =>
                                  logEntries'[n] = logEntries[n]
      BY Zenon, <2>1, <2>11, AppendedLinks
    <3>6. \A i, t, b \in Nat : Link(i, t, b)' => Link(i, t, b)
      BY Zenon, <3>3, <3>4, <3>5 DEF Link, RequestLink
    <3>7. \A n \in Node : state[n] = "leader" /\ state'[n] = "leader" /\ currentTerm'[n] = currentTerm[n] =>
                               Len(logEntries[n]) <= Len(logEntries'[n])
      <4>1. \A n \in Node : Len(logEntries[n]) \in Nat
        BY DEF NodesOK
      <4> QED
        BY <3>5, <4>1
    <3>8. FirstTermZero'
      BY Zenon, <2>1, <3>3, <3>4 DEF LinkInv, FirstTermZero
    <3> QED
      BY Zenon, <2>1, <3>4, <3>6, <3>7, <3>8, LinksKept DEF LinkInv
  <2> QED
    BY Zenon, <1>2, <2>3, <2>4, <2>5, <2>6, <2>7, <2>8, <2>9, <2>10, <2>11, <2>12, <2>13 DEF RaftNext, handleMessage
<1> QED
  BY Zenon, <1>1, <1>2

\* Two logs with one link for each entry are the same before a common entry.
LEMMA LinksMatch ==
    ASSUME NodesOK, LogsOrdered, OneLink, NEW n \in Node, NEW p \in Node,
           NEW i \in DOMAIN logEntries[n] \cap DOMAIN logEntries[p], logEntries[n][i] = logEntries[p][i],
           NEW j \in 1..i
    PROVE  logEntries[n][j] = logEntries[p][j]
<1>1. PICK l \in Seq(Entry), q \in Seq(Entry) : /\ l = logEntries[n] /\ q = logEntries[p]
                                                /\ Ordered(l) /\ Ordered(q)
  BY Zenon DEF NodesOK, LogsOrdered
<1>2. i \in 1..Len(l) /\ i \in 1..Len(q) /\ i \in Nat /\ j \in Nat
  BY <1>1
<1>3. \A k \in 1..i : l[k] \in Entry /\ q[k] \in Entry /\ k \in DOMAIN l /\ k \in DOMAIN q
  BY <1>2
<1> DEFINE S == {d \in Nat : d < i => l[i - d].term = q[i - d].term}
<1>4. 0 \in S
  BY <1>1, <1>2
<1>5. ASSUME NEW d \in Nat, d \in S PROVE d + 1 \in S
  <2> SUFFICES ASSUME d + 1 < i PROVE l[i - (d + 1)].term = q[i - (d + 1)].term
    OBVIOUS
  <2>1. PICK k \in Nat : k = i - d /\ k \in 1..i /\ k - 1 \in 1..i /\ k # 1 /\ k - 1 = i - (d + 1)
    BY <1>2
  <2>2. l[k].term = q[k].term
    BY <1>2, <1>5, <2>1
  <2>3. PICK t \in Nat : t = l[k].term /\ t = q[k].term
    BY Zenon, <1>3, <2>1, <2>2 DEF Entry
  <2>4. PICK b \in Nat, c \in Nat : b = l[k - 1].term /\ c = q[k - 1].term
    BY Zenon, <1>3, <2>1 DEF Entry
  <2>5. LogLink(l, k, t, b) /\ LogLink(q, k, t, c)
    BY Zenon, <1>3, <2>1, <2>3, <2>4 DEF LogLink, TermBefore
  <2>6. Link(k, t, b) /\ Link(k, t, c)
    BY Zenon, <1>1, <2>5 DEF Link
  <2>7. b = c
    BY Zenon, <2>6 DEF OneLink
  <2> QED
    BY Zenon, <2>1, <2>4, <2>7
<1>6. i - j \in S
  <2> HIDE DEF S
  <2>1. Nat \subseteq S
    BY Zenon, <1>4, <1>5, NaturalInduction
  <2>2. i - j \in Nat
    BY <1>2
  <2> QED
    BY Zenon, <2>1, <2>2
<1>7. l[j].term = q[j].term
  <2>1. i - j < i /\ i - (i - j) = j
    BY <1>2
  <2> QED
    BY Zenon, <1>6, <2>1
<1>8. l[j] \in Entry /\ q[j] \in Entry /\ l[j].index = j /\ q[j].index = j
  <2>1. j \in 1..i
    BY Zenon
  <2> QED
    BY Zenon, <1>1, <1>3, <2>1 DEF Ordered
<1>9. \A a, b \in Entry : a.term = b.term /\ a.index = b.index => a = b
  <2>1. \A a \in Entry : a = [term |-> a.term, index |-> a.index]
    BY DEF Entry
  <2> QED
    BY Zenon, <2>1
<1>10. l[j] = q[j]
  BY Zenon, <1>7, <1>8, <1>9
<1> QED
  BY Zenon, <1>1, <1>10

----------------------------------------------------------------------------
(* Majorities, and how a leader is elected *)

FS == INSTANCE FiniteSetTheorems

\* The library's theorems are about the same finite sets and the same cardinality.
LEMMA SameSize ==
    /\ \A S : FS!IsFiniteSet(S) <=> IsFiniteSet(S)
    /\ \A S : FS!Cardinality(S) = Cardinality(S)
<1>1. \A S : FS!IsFiniteSet(S) <=> IsFiniteSet(S)
  BY Zenon DEF IsFiniteSet, FS!IsFiniteSet
<1>2. \A S : FS!Cardinality(S) = Cardinality(S)
  BY Zenon DEF Cardinality, FS!Cardinality, IsFiniteSet, FS!IsFiniteSet
<1> QED
  BY Zenon, <1>1, <1>2


\* Two majorities share a node.
LEMMA QuorumsMeet ==
    ASSUME NEW P, NEW Q, Quorum(P), Quorum(Q)
    PROVE  \E p \in P : p \in Q
<1> SUFFICES ASSUME P \cap Q = {} PROVE FALSE
  BY Zenon
<1>1. IsFiniteSet(Node) /\ P \subseteq Node /\ Q \subseteq Node
  BY Zenon, RaftAssumption DEF Quorum
<1>2. IsFiniteSet(P) /\ IsFiniteSet(Q) /\ IsFiniteSet(P \cup Q)
  BY Zenon, <1>1, SameSize, FS!FS_Subset, FS!FS_Union
<1>3. Cardinality(P \cup Q) = Cardinality(P) + Cardinality(Q)
  <2>1. Cardinality(P \cap Q) = 0
    BY Zenon, SameSize, FS!FS_EmptySet
  <2>2. Cardinality(P \cup Q) = Cardinality(P) + Cardinality(Q) - Cardinality(P \cap Q)
    BY Zenon, <1>2, SameSize, FS!FS_Union
  <2>3. Cardinality(P) \in Nat /\ Cardinality(Q) \in Nat
    BY Zenon, <1>2, SameSize, FS!FS_CardinalityType
  <2> QED
    BY <2>1, <2>2, <2>3
<1>4. Cardinality(P \cup Q) <= Cardinality(Node)
  BY Zenon, <1>1, SameSize, FS!FS_Subset
<1>5. Cardinality(P) \in Nat /\ Cardinality(Q) \in Nat /\ Cardinality(Node) \in Nat
  BY Zenon, <1>1, <1>2, SameSize, FS!FS_CardinalityType
<1> QED
  BY <1>3, <1>4, <1>5 DEF Quorum

\* The candidate and those who voted for it are a majority.
LEMMA WinningQuorum ==
    ASSUME NEW votes \in SUBSET Node, NEW n \in Node, n \notin votes, Majority(votes)
    PROVE  Quorum(votes \cup {n})
<1>1. IsFiniteSet(Node) /\ IsFiniteSet(votes)
  BY Zenon, RaftAssumption, SameSize, FS!FS_Subset
<1>2. Cardinality(votes \cup {n}) = Cardinality(votes) + 1
  BY Zenon, <1>1, SameSize, FS!FS_AddElement
<1>3. Cardinality(votes) \in Nat /\ Cardinality(Node) \in Nat
  BY Zenon, <1>1, SameSize, FS!FS_CardinalityType
<1>4. \A a, b \in Nat : a > b \div 2 => 2 * a > b
  OBVIOUS
<1>5. Cardinality(votes) + 1 > Cardinality(Node) \div 2
  BY Zenon DEF Majority
<1>6. 2 * (Cardinality(votes) + 1) > Cardinality(Node)
  BY <1>3, <1>4, <1>5
<1> QED
  BY Zenon, <1>2, <1>6 DEF Quorum

\* The step that elects a node: those who voted for it are a majority, bound to it
\* because no other majority can have been.
LEMMA ElectedKeeps ==
    ASSUME NodesOK, VotesOK, VoteInv, NEW m \in msgs, NEW n \in Node, NEW t \in Nat, NEW votes \in SUBSET Node,
           m.type = "voteResponse", m.granted, m.to = n, m.term = t, t = currentTerm[n],
           state[n] = "candidate", votes = votesReceived[n] \cup {m.from}, n \notin votes, Majority(votes),
           state' = [state EXCEPT ![n] = "leader"], currentTerm' = currentTerm, votedFor' = votedFor,
           votesReceived' = [votesReceived EXCEPT ![n] = votes],
           elections' = elections \cup {[node |-> n, term |-> t]}, msgs' \subseteq msgs
    PROVE  VoteInv'
<1>0. /\ \A p \in Node : currentTerm[p] \in Nat
      /\ state'[n] = "leader" /\ \A p \in Node \ {n} : state'[p] = state[p] /\ votesReceived'[p] = votesReceived[p]
  BY Zenon DEF NodesOK, VotesOK
<1>1. \A p, c \in Node, s \in Nat : Voted(p, c, s)' => Voted(p, c, s)
  <2> SUFFICES ASSUME NEW p \in Node, NEW c \in Node, NEW s \in Nat, Voted(p, c, s)'
               PROVE  Voted(p, c, s)
    BY Zenon
  <2>1. CASE c = n
    BY Zenon, <1>0, <2>1 DEF Voted
  <2>2. CASE c # n
    BY Zenon, <1>0, <2>2 DEF Voted
  <2> QED
    BY Zenon, <2>1, <2>2
<1>2. \A c \in Node, s \in Nat : Won(c, s)' <=> Won(c, s) \/ (c = n /\ s = t)
  BY Zenon DEF Won
<1>3. \A p, c \in Node, s \in Nat : Loyal(p, c, s) => Loyal(p, c, s)'
  BY Zenon, <1>1 DEF Loyal
<1>4. PICK Q : Quorum(Q) /\ \A p \in Q : Voted(p, n, t)
  <2>1. Quorum(votes \cup {n})
    BY Zenon, WinningQuorum
  <2>2. \A p \in votes \cup {n} : Voted(p, n, t)
    BY Zenon DEF Voted
  <2> QED
    BY Zenon, <2>1, <2>2
<1>5. Q \subseteq Node
  BY Zenon, <1>4 DEF Quorum
<1>6. \A c \in Node : ~Won(c, t)
  <2> SUFFICES ASSUME NEW c \in Node, Won(c, t) PROVE FALSE
    BY Zenon
  <2>1. PICK P : Quorum(P) /\ \A p \in P : Loyal(p, c, t)
    BY Zenon DEF VoteInv, Backed
  <2>2. PICK p \in P : p \in Q
    BY Zenon, <1>4, <2>1, QuorumsMeet
  <2>3. c = n
    BY Zenon, <1>4, <2>1, <2>2 DEF Loyal
  <2> QED
    BY Zenon, <2>3 DEF VoteInv, WinnersLead
<1>7. \A p \in Q : Loyal(p, n, t)
  BY Zenon, <1>4, <1>5, <1>6 DEF VoteInv, VotesBind
<1>8. VotesTaken'
  BY Zenon, <1>1 DEF VoteInv, VotesTaken
<1>9. VotesBind'
  BY Zenon, <1>1, <1>2, <1>3 DEF VoteInv, VotesBind
<1>10. LeadersWon'
  BY ZenonT(30), <1>0, <1>2 DEF VoteInv, LeadersWon
<1>11. WinnersLead'
  BY <1>0, <1>2 DEF VoteInv, WinnersLead
<1>12. Backed'
  <2> SUFFICES ASSUME NEW c \in Node, NEW s \in Nat, Won(c, s)'
               PROVE  \E P : Quorum(P) /\ \A p \in P : Loyal(p, c, s)'
    BY Zenon DEF Backed, Quorum
  <2>1. CASE Won(c, s)
    <3>1. PICK P : Quorum(P) /\ \A p \in P : Loyal(p, c, s)
      BY Zenon, <2>1 DEF VoteInv, Backed
    <3> QED
      BY Zenon, <1>3, <3>1 DEF Quorum
  <2>2. CASE c = n /\ s = t
    BY ZenonT(30), <1>3, <1>4, <1>5, <1>7, <2>2
  <2> QED
    BY Zenon, <1>2, <2>1, <2>2
<1>13. OneWinner'
  BY <1>2, <1>6 DEF VoteInv, OneWinner
<1> QED
  BY Zenon, <1>8, <1>9, <1>10, <1>11, <1>12, <1>13 DEF VoteInv

\* A vote that arrives is counted in the term it was given in, unless it is late.
LEMMA VoteResponseKeeps ==
    ASSUME NodesOK, NodesOK', VotesOK, VoteInv, NEW m \in msgs, handleVoteResponse(m), ~strayed'
    PROVE  VoteInv'
<1>1. PICK n \in Node, t \in Nat : n = m.to /\ t = TermNow(m)
  BY Zenon, NowTypes
<1>2. /\ VoteNow(m) \in Node \cup {Nil} /\ VotesNow(m) \in SUBSET (Node \ {m.to})
      /\ m.from \in Node /\ m.to \in Node /\ m.from # m.to
  BY Zenon, VoteNowTypes
<1>3. m.type = "voteResponse" /\ msgs' = msgs \ {m}
  BY Zenon DEF handleVoteResponse
<1>4. CASE StateNow(m) = "candidate" /\ m.granted
  <2>1. PICK votes : votes = VotesNow(m) \cup {m.from}
    BY Zenon
  <2>2. /\ ~Newer(m) /\ m.term = t /\ t = currentTerm[n] /\ state[n] = "candidate"
        /\ VoteNow(m) = votedFor[n] /\ VotesNow(m) = votesReceived[n]
    <3>1. m.term = TermNow(m)
      BY Zenon, <1>4 DEF handleVoteResponse
    <3>2. ~Newer(m)
      BY Zenon, <1>4 DEF StateNow
    <3> QED
      BY Zenon, <1>1, <1>4, <3>1, <3>2 DEF StateNow, TermNow, VoteNow, VotesNow
  <2>3. CASE Majority(votes)
    <3>1. Becomes(m, "leader", VoteNow(m), votes)
      BY Zenon, <1>4, <2>1, <2>3 DEF handleVoteResponse
    <3>2. /\ state' = [state EXCEPT ![n] = "leader"]
          /\ votesReceived' = [votesReceived EXCEPT ![n] = votes]
          /\ elections' = elections \cup {[node |-> n, term |-> t]}
      BY Zenon, <1>1, <3>1 DEF Becomes
    <3>3. currentTerm' = currentTerm
      <4>1. currentTerm \in [Node -> Nat]
        BY Zenon DEF NodesOK
      <4>2. currentTerm' = [currentTerm EXCEPT ![n] = t]
        BY Zenon, <1>1, <3>1 DEF Becomes
      <4> QED
        BY Zenon, <2>2, <4>1, <4>2
    <3>4. votedFor' = votedFor
      BY Zenon, <1>1, <2>2, <3>1 DEF Becomes, VotesOK
    <3>5. votes \in SUBSET Node /\ n \notin votes
      BY Zenon, <1>1, <1>2, <2>1
    <3>6. /\ m.type = "voteResponse" /\ m.granted /\ m.to = n /\ m.term = t /\ t = currentTerm[n]
          /\ state[n] = "candidate" /\ votes = votesReceived[n] \cup {m.from} /\ msgs' \subseteq msgs
      BY Zenon, <1>1, <1>3, <1>4, <2>1, <2>2
    <3> QED
      BY ZenonT(30), <2>3, <3>2, <3>3, <3>4, <3>5, <3>6, ElectedKeeps
  <2>4. CASE ~Majority(votes)
    <3>1. Becomes(m, StateNow(m), VoteNow(m), votes)
      BY Zenon, <1>4, <2>1, <2>4 DEF handleVoteResponse
    <3>2. \A p \in votes \cap Node : Voted(p, n, t)
      BY ZenonT(30), <1>1, <1>3, <1>4, <2>1, <2>2 DEF Voted
    <3>3. Steady
      BY <1>1, <1>2, <1>3, <3>1, <3>2, HandlerSteady
    <3> QED
      BY Zenon, <3>3, SteadyKeeps
  <2> QED
    BY Zenon, <2>3, <2>4
<1>5. CASE ~(StateNow(m) = "candidate" /\ m.granted)
  <2>1. Becomes(m, StateNow(m), VoteNow(m), VotesNow(m))
    BY Zenon, <1>5 DEF handleVoteResponse
  <2>2. StateNow(m) = "candidate" => \A p \in VotesNow(m) \cap Node : Voted(p, m.to, TermNow(m))
    BY Zenon DEF StateNow, TermNow, VotesNow, Voted
  <2>3. Steady
    BY ZenonT(30), <1>2, <1>3, <2>1, <2>2, HandlerSteady
  <2> QED
    BY Zenon, <2>3, SteadyKeeps
<1> QED
  BY Zenon, <1>4, <1>5

\* With no late vote and no request of a deposed leader so far, the elections of a step
\* keep to the votes.
LEMMA ElectStep == NodesOK /\ NodesOK' /\ VotesOK /\ ElectInv /\ [RaftNext]_rvars => ElectInv'
<1> SUFFICES ASSUME NodesOK, NodesOK', VotesOK, ElectInv, [RaftNext]_rvars, restarts' = 0, ~strayed'
             PROVE  VoteInv' /\ RequestsFromLeaders'
  BY ZenonT(30) DEF ElectInv
<1> USE DEF electionVars, leaderVars, logVars, applyVars, proposeVars, taskVars, pastVars
<1>1. CASE UNCHANGED rvars
  <2>1. VoteInv /\ RequestsFromLeaders
    BY Zenon, <1>1 DEF rvars, ElectInv
  <2>2. UNCHANGED <<elections, msgs, currentTerm, state, votedFor, votesReceived>>
    BY Zenon, <1>1 DEF rvars
  <2>3. \A p \in Node : currentTerm'[p] >= currentTerm[p] /\ ~(currentTerm'[p] > currentTerm[p])
    BY <2>2 DEF NodesOK
  <2>4. \A p, n \in Node, t \in Nat : Voted(p, n, t)' => Voted(p, n, t)
    BY Zenon, <2>2 DEF Voted
  <2>5. Steady
    BY Zenon, <2>2, <2>3, <2>4 DEF Steady
  <2>6. RequestsFromLeaders'
    BY Zenon, <2>1, <2>2 DEF RequestsFromLeaders, Won
  <2> QED
    BY Zenon, <2>1, <2>5, <2>6, SteadyKeeps
<1>2. ASSUME NEW n \in Node, Restart(n) PROVE FALSE
  BY <1>2 DEF Restart, NodesOK
<1>3. ASSUME RaftNext PROVE VoteInv /\ RequestsFromLeaders
  BY Zenon, <1>3, StrayedStays DEF ElectInv
<1>4. ASSUME VoteInv, RequestsFromLeaders, UNCHANGED electionVars,
             \A m \in msgs' : \/ m \in msgs
                              \/ m.type = "append" /\ m.from \in Node /\ m.term = currentTerm[m.from]
                                 /\ state[m.from] = "leader"
      PROVE  VoteInv' /\ RequestsFromLeaders'
  <2>1. Steady
    BY Zenon, <1>4, QuietSteady
  <2>2. VoteInv'
    BY Zenon, <1>4, <2>1, SteadyKeeps
  <2>3. \A m \in msgs' : m.type = "append" => Won(m.from, m.term)
    BY Zenon, <1>4 DEF RequestsFromLeaders, VoteInv, LeadersWon
  <2>4. elections' = elections
    BY Zenon, <1>4
  <2> QED
    BY Zenon, <2>2, <2>3, <2>4 DEF RequestsFromLeaders, Won
<1>5. ASSUME NEW n \in Node, RaftNext,
             \/ HeartbeatCheck(n) \/ ProposeCheck(n) \/ ProposeLog(n) \/ ProposePersist(n) \/ ApplyCommitted(n)
             \/ ProposePrev(n) \/ ProposeEntries(n) \/ \E p \in Node : ProposeNext(n, p)
      PROVE  VoteInv' /\ RequestsFromLeaders'
  <2>1. UNCHANGED <<electionVars, msgs>>
    BY Zenon, <1>5 DEF HeartbeatCheck, ProposeCheck, ProposeLog, ProposePersist, ApplyCommitted, ProposeNext,
                ProposePrev, ProposeEntries
  <2> QED
    BY Zenon, <1>3, <1>4, <1>5, <2>1
<1>6. ASSUME NEW n \in Node, RaftNext, HeartbeatSend(n) PROVE VoteInv' /\ RequestsFromLeaders'
  <2>1. UNCHANGED electionVars /\ state[n] = "leader"
    BY Zenon, <1>6 DEF HeartbeatSend, Strays
  <2>2. PICK new : Send({}, new) /\ \A m \in new : m.type = "append" /\ m.from = n /\ m.term = currentTerm[n]
    BY <1>6 DEF HeartbeatSend, AppendMsg
  <2>3. \A m \in msgs' : m \in msgs \/ m \in new
    BY ZenonT(30), <2>2 DEF Send
  <2> QED
    BY Zenon, <1>3, <1>4, <1>6, <2>1, <2>2, <2>3
<1>7. ASSUME NEW n \in Node, RaftNext, ProposeSend(n) PROVE VoteInv' /\ RequestsFromLeaders'
  <2>1. UNCHANGED electionVars /\ state[n] = "leader"
    BY Zenon, <1>7 DEF ProposeSend, Strays
  <2>2. PICK m : Send({}, {m}) /\ m.type = "append" /\ m.from = n /\ m.term = currentTerm[n]
    <3>1. \E p, prev, prevTerm, es : Send({}, {AppendMsg(n, p, prev, prevTerm, es)})
      BY Zenon, <1>7 DEF ProposeSend
    <3>2. \A p, prev, prevTerm, es : /\ AppendMsg(n, p, prev, prevTerm, es).type = "append"
                                     /\ AppendMsg(n, p, prev, prevTerm, es).from = n
                                     /\ AppendMsg(n, p, prev, prevTerm, es).term = currentTerm[n]
      BY Zenon DEF AppendMsg
    <3> QED
      BY Zenon, <3>1, <3>2
  <2>3. \A q \in msgs' : q \in msgs \/ q = m
    BY Zenon, <2>2 DEF Send
  <2> QED
    BY <1>3, <1>4, <1>7, <2>1, <2>2, <2>3
<1>8. ASSUME NEW n \in Node, RaftNext, onElectionTimeout(n) PROVE VoteInv' /\ RequestsFromLeaders'
  <2>1. VoteInv'
    BY ZenonT(30), <1>3, <1>8, TimeoutSteady, SteadyKeeps
  <2>2. PICK new : Send({}, new) /\ \A m \in new : m.type = "voteRequest"
    BY <1>8 DEF onElectionTimeout
  <2>3. \A m \in msgs' : m.type = "append" => m \in msgs
    BY Zenon, <2>2 DEF Send
  <2>4. elections' = elections
    BY Zenon, <1>8 DEF onElectionTimeout
  <2> QED
    BY ZenonT(30), <1>3, <1>8, <2>1, <2>3, <2>4 DEF RequestsFromLeaders, Won
<1>9. ASSUME NEW m \in msgs, RaftNext, handleMessage(m) PROVE VoteInv' /\ RequestsFromLeaders'
  <2>1. VoteInv /\ RequestsFromLeaders
    BY Zenon, <1>3, <1>9
  <2>2. elections \subseteq elections'
    BY Zenon, <1>9 DEF handleMessage, handleVoteRequest, handleVoteResponse, handleAppendEntries,
                handleAppendEntriesResponse, Stays, Becomes
  <2>3. ASSUME \A r \in msgs' : r.type = "append" => r \in msgs PROVE RequestsFromLeaders'
    BY Zenon, <2>1, <2>2, <2>3 DEF RequestsFromLeaders, Won
  <2>4. /\ VoteNow(m) \in Node \cup {Nil} /\ VotesNow(m) \in SUBSET (Node \ {m.to})
        /\ m.from \in Node /\ m.to \in Node /\ m.from # m.to
    BY Zenon, VoteNowTypes
  <2>5. StateNow(m) = "candidate" => \A p \in VotesNow(m) \cap Node : Voted(p, m.to, TermNow(m))
    BY Zenon DEF StateNow, TermNow, VotesNow, Voted
  <2>6. ASSUME NEW vote \in Node \cup {Nil}, Becomes(m, StateNow(m), vote, VotesNow(m)),
                \/ vote = VoteNow(m) \/ VoteNow(m) = Nil
                \/ vote \in Node /\ Won(vote, TermNow(m)),
                \A r \in msgs' : r.type = "voteResponse" /\ r.granted =>
                    \/ r \in msgs
                    \/ /\ r.from = m.to /\ r.term = TermNow(m) /\ r.to = vote
                       /\ VoteNow(m) \in {Nil, vote}
         PROVE  VoteInv'
    <3>1. Steady
      BY Zenon, <2>1, <2>5, <2>6, HandlerSteady
    <3> QED
      BY Zenon, <2>1, <3>1, SteadyKeeps
  <2>7. CASE handleVoteRequest(m)
    <3>1. PICK r : Send({m}, {r}) /\ \E g : r = [type |-> "voteResponse", from |-> m.to,
                           to |-> m.from, term |-> TermNow(m), granted |-> g]
                                            /\ \/ /\ g /\ VoteNow(m) \in {Nil, m.from}
                                                  /\ Becomes(m, StateNow(m), m.from, VotesNow(m))
                                               \/ /\ ~g /\ Becomes(m, StateNow(m), VoteNow(m), VotesNow(m))
      BY Zenon, <2>7 DEF handleVoteRequest, Reply
    <3>2. /\ r.type = "voteResponse" /\ r.from = m.to /\ r.to = m.from /\ r.term = TermNow(m)
          /\ \/ /\ r.granted /\ VoteNow(m) \in {Nil, m.from}
                /\ Becomes(m, StateNow(m), m.from, VotesNow(m))
             \/ ~r.granted /\ Becomes(m, StateNow(m), VoteNow(m), VotesNow(m))
      BY <3>1
    <3>3. \A q \in msgs' : q \in msgs \/ q = r
      BY Zenon, <3>1 DEF Send
    <3>4. ASSUME r.granted /\ VoteNow(m) \in {Nil, m.from} /\ Becomes(m, StateNow(m), m.from, VotesNow(m))
          PROVE  VoteInv'
      <4>1. \A q \in msgs' : q.type = "voteResponse" /\ q.granted =>
               \/ q \in msgs
               \/ /\ q.from = m.to /\ q.term = TermNow(m) /\ q.to = m.from
                  /\ VoteNow(m) \in {Nil, m.from}
        BY Zenon, <3>2, <3>3, <3>4
      <4>2. m.from \in Node \cup {Nil} /\ (m.from = VoteNow(m) \/ VoteNow(m) = Nil)
        BY Zenon, <2>4, <3>4
      <4> QED
        BY ZenonT(30), <2>6, <3>4, <4>1, <4>2
    <3>5. ASSUME ~r.granted /\ Becomes(m, StateNow(m), VoteNow(m), VotesNow(m))
          PROVE  VoteInv'
      <4>1. \A q \in msgs' : q.type = "voteResponse" /\ q.granted => q \in msgs
        BY Zenon, <3>3, <3>5
      <4> QED
        BY Zenon, <2>4, <2>6, <3>5, <4>1
    <3>6. VoteInv'
      BY Zenon, <3>2, <3>4, <3>5
    <3> QED
      BY Zenon, <2>3, <3>2, <3>3, <3>6
  <2>8. CASE handleVoteResponse(m)
    <3>1. msgs' = msgs \ {m}
      BY Zenon, <2>8 DEF handleVoteResponse
    <3> QED
      BY <2>1, <2>3, <2>8, <3>1, VoteResponseKeeps
  <2>9. CASE handleAppendEntries(m)
    <3>1. PICK r : Send({m}, {r}) /\ \E g, i : r = [type |-> "appendResponse", from |-> m.to,
                             to |-> m.from, term |-> TermNow(m), success |-> g, index |-> i]
      BY Zenon, <2>9 DEF handleAppendEntries, Reply
    <3>2. r.type = "appendResponse"
      BY <3>1
    <3>3. \A q \in msgs' : q \in msgs \/ q.type = "appendResponse"
      BY Zenon, <3>1, <3>2 DEF Send
    <3>4. \/ m.term >= TermNow(m) /\ Becomes(m, StateNow(m), m.from, VotesNow(m))
          \/ Becomes(m, StateNow(m), VoteNow(m), VotesNow(m))
      BY Zenon, <2>9 DEF handleAppendEntries
    <3>5. ASSUME m.term >= TermNow(m) /\ Becomes(m, StateNow(m), m.from, VotesNow(m))
          PROVE  VoteInv'
      <4>1. m.term = TermNow(m)
        <5>1. m.term \in Nat /\ currentTerm[m.to] \in Nat
          BY Zenon, <2>4 DEF NodesOK, MessageOK
        <5> QED
          BY <3>5, <5>1 DEF TermNow, Newer
      <4>2. Won(m.from, TermNow(m))
        BY Zenon, <2>1, <2>9, <4>1 DEF RequestsFromLeaders, handleAppendEntries
      <4> QED
        BY ZenonT(30), <2>4, <2>6, <3>3, <3>5, <4>2
    <3>6. ASSUME Becomes(m, StateNow(m), VoteNow(m), VotesNow(m))
          PROVE  VoteInv'
      BY Zenon, <2>4, <2>6, <3>3, <3>6
    <3>7. VoteInv'
      BY Zenon, <3>4, <3>5, <3>6
    <3> QED
      BY Zenon, <2>3, <3>3, <3>7
  <2>10. CASE handleAppendEntriesResponse(m)
    <3>1. msgs' = msgs \ {m} /\ Becomes(m, StateNow(m), VoteNow(m), VotesNow(m))
      BY Zenon, <2>10 DEF handleAppendEntriesResponse, Stays
    <3> QED
      BY ZenonT(30), <2>3, <2>4, <2>6, <3>1
  <2> QED
    BY ZenonT(30), <1>9, <2>7, <2>8, <2>9, <2>10 DEF handleMessage
<1> QED
  BY <1>1, <1>2, <1>5, <1>6, <1>7, <1>8, <1>9 DEF RaftNext

\* At first nobody has voted.
LEMMA ElectInit == RaftInit => VotesOK /\ ElectInv
<1> SUFFICES ASSUME RaftInit PROVE VotesOK /\ ElectInv
  BY Zenon
<1>1. \A p, n \in Node, t \in Nat : ~Won(n, t) /\ ~Voted(p, n, t)
  BY Zenon DEF RaftInit, Won, Voted
<1>2. VotesOK
  BY Zenon DEF RaftInit, VotesOK
<1>3. LeadersWon /\ RequestsFromLeaders
  BY Zenon DEF RaftInit, LeadersWon, RequestsFromLeaders
<1> QED
  BY Zenon, <1>1, <1>2, <1>3 DEF ElectInv, VoteInv, VotesTaken, VotesBind, WinnersLead, Backed, OneWinner

\* Without a restart, a late vote or a request of a deposed leader, no two nodes become
\* the leader of one term; and without a request whose parts are of two logs, two logs
\* with an entry in common are the same up to it.
THEOREM RaftLeadersAgree == RaftSpec => []LeadersAgree
<1> DEFINE Inv == NodesOK /\ BuildsOK /\ OrderInv /\ VotesOK /\ ElectInv /\ MatchInv
<1>1. RaftInit => Inv
  <2> SUFFICES ASSUME RaftInit PROVE OrderInv /\ MatchInv
    BY Zenon, NodesInit, BuildsInit, ElectInit
  <2>1. \A n \in Node : DOMAIN logEntries[n] = {}
    BY DEF RaftInit
  <2>2. OrderInv
    BY Zenon, OrderInit
  <2>5. \A n \in Node : request[n].stage # "entries"
    BY Zenon, NoRequestType DEF RaftInit
  <2>3. \A i, t, b \in Nat : ~Link(i, t, b)
    BY Zenon, <2>1, <2>5 DEF RaftInit, Link, LogLink, BuildLink
  <2>4. FirstTermZero
    BY Zenon, <2>5 DEF RaftInit, FirstTermZero
  <2> QED
    BY Zenon, <2>2, <2>3, <2>4 DEF MatchInv, LinkInv, OneLink, LinksLed, LeaderHas
<1>2. Inv /\ [RaftNext]_rvars => Inv'
  <2> SUFFICES ASSUME Inv, [RaftNext]_rvars PROVE Inv'
    BY Zenon
  <2>1. NodesOK' /\ BuildsOK' /\ OrderInv' /\ VotesOK'
    BY Zenon, NodesStep, BuildsStep, OrderStep, VotesStep
  <2>2. ElectInv'
    BY Zenon, <2>1, ElectStep
  <2>3. MatchInv'
    BY Zenon, <2>1, <2>2, LinkStep
  <2> QED
    BY Zenon, <2>1, <2>2, <2>3
<1>3. Inv => LeadersAgree
  <2> SUFFICES ASSUME Inv, restarts = 0, ~strayed
               PROVE  /\ \A a, b \in elections : a.term = b.term => a.node = b.node
                      /\ ~torn => LogMatching
    BY Zenon DEF LeadersAgree
  <2>1. ASSUME NEW a \in elections, NEW b \in elections, a.term = b.term PROVE a.node = b.node
    <3>1. a \in [node : Node, term : Nat] /\ b \in [node : Node, term : Nat]
      BY Zenon DEF VotesOK
    <3>2. Won(a.node, a.term) /\ Won(b.node, a.term)
      BY Zenon, <2>1, <3>1 DEF Won
    <3> QED
      BY Zenon, <3>1, <3>2 DEF ElectInv, VoteInv, OneWinner
  <2>2. ASSUME ~torn PROVE LogMatching
    BY Zenon, <2>2, LinksMatch DEF LogMatching, OrderInv, MatchInv, LinkInv
  <2> QED
    BY Zenon, <2>1, <2>2
<1> QED
  BY <1>1, <1>2, <1>3, PTL DEF RaftSpec
=============================================================================
