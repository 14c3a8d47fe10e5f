---------------------------- MODULE Coordinator ----------------------------
(***************************************************************************)
(* The cluster coordinator of one node (cluster/coordinator.go): the run   *)
(* loop that serves cluster events, commands and SWIM events, the monitor  *)
(* of Raft's leadership, the apply goroutine's callbacks, and clients of   *)
(* Propose and ReloadConfig whose contexts may end.                        *)
(*                                                                         *)
(* The run loop is the only reader of eventCh and of commandCh, and itself *)
(* sends on both.  handleMetadataMessage and handleHealthBroadcast have no *)
(* caller, and SWIM sends no update event.                                 *)
(***************************************************************************)
EXTENDS Naturals, Sequences

CONSTANTS
    Peer,         \* other members
    Client,       \* callers of Propose
    Self,         \* the run loop as the owner of a command
    EventCap,     \* capacity of eventCh (100)
    CommandCap,   \* capacity of commandCh (100)
    MaxSwim,      \* bound: SWIM events
    MaxFlips,     \* bound: changes of Raft's leader
    MaxApplied    \* bound: entries whose callback sends an event

ASSUME CoordAssumption ==
    /\ Self \notin Client
    /\ {EventCap, CommandCap} \subseteq Nat \ {0}
    /\ {MaxSwim, MaxFlips, MaxApplied} \subseteq Nat

VARIABLES
    raftLeader,   \* raftNode.IsLeader()
    isLeader,     \* what the monitor saw last
    members,      \* state of each member
    swimCh, eventCh, commandCh,
    lock,         \* the run loop holds c.mu
    run,          \* the run loop: [pc, and the command or event at hand]
    monitor,      \* "poll", "seen" (a change) or "send"
    callback,     \* an apply callback: "no" or "send"
    client,       \* each client: where it is
    stopping,     \* stopCh is closed
    said,         \* history: SWIM's last word on each peer
    counts        \* events, flips and callbacks so far, for the bounds

coordVars == <<raftLeader, isLeader, members, swimCh, eventCh, commandCh, lock, run, monitor,
               callback, client, stopping, said, counts>>

Idle == [pc |-> "select"]

CoordInit ==
    /\ raftLeader = FALSE /\ isLeader = FALSE
    /\ members = [p \in Peer |-> "none"] /\ said = [p \in Peer |-> "none"]
    /\ swimCh = <<>> /\ eventCh = <<>> /\ commandCh = <<>>
    /\ lock = FALSE /\ run = Idle /\ monitor = "poll" /\ callback = "no"
    /\ client = [c \in Client |-> "idle"]
    /\ stopping = FALSE
    /\ counts = [swim |-> 0, flips |-> 0, applied |-> 0]

----------------------------------------------------------------------------
(* The world around the coordinator *)

\* SWIM reports that a peer joined, or that one it knows has left.
SwimEvent(p, type) ==
    /\ counts.swim < MaxSwim
    /\ type = IF said[p] = "none" THEN "join" ELSE "leave"
    /\ said' = [said EXCEPT ![p] = type]
    /\ swimCh' = Append(swimCh, [type |-> type, peer |-> p])
    /\ counts' = [counts EXCEPT !.swim = @ + 1]
    /\ UNCHANGED <<raftLeader, isLeader, members, eventCh, commandCh, lock, run, monitor, callback,
                   client, stopping>>

RaftFlip ==
    /\ counts.flips < MaxFlips
    /\ raftLeader' = ~raftLeader
    /\ counts' = [counts EXCEPT !.flips = @ + 1]
    /\ UNCHANGED <<isLeader, members, swimCh, eventCh, commandCh, lock, run, monitor, callback,
                   client, stopping, said>>

\* The callbacks onPoolConfigUpdate, onUserChange and onBackendChange: sent by the
\* apply goroutine, which waits while the channel is full.
ApplyCallback ==
    /\ \/ /\ callback = "no" /\ counts.applied < MaxApplied
          /\ callback' = "send"
          /\ counts' = [counts EXCEPT !.applied = @ + 1]
          /\ UNCHANGED eventCh
       \/ /\ callback = "send" /\ Len(eventCh) < EventCap
          /\ callback' = "no"
          /\ eventCh' = Append(eventCh, "config")
          /\ UNCHANGED counts
    /\ UNCHANGED <<raftLeader, isLeader, members, swimCh, commandCh, lock, run, monitor, client,
                   stopping, said>>

\* ReloadConfig asks IsLeader first, under the read lock; UpdatePoolConfig does not.
ClientCall(c) ==
    /\ client[c] = "idle"
    /\ \/ client' = [client EXCEPT ![c] = "update"]
       \/ isLeader /\ ~lock /\ client' = [client EXCEPT ![c] = "reload"]
    /\ UNCHANGED <<raftLeader, isLeader, members, swimCh, eventCh, commandCh, lock, run, monitor,
                   callback, stopping, said, counts>>

\* Propose puts the command in the channel ...
Propose(c) ==
    /\ client[c] \in {"update", "reload"} /\ Len(commandCh) < CommandCap
    /\ commandCh' = Append(commandCh, [owner |-> c, type |-> client[c]])
    /\ client' = [client EXCEPT ![c] = "waiting"]
    /\ UNCHANGED <<raftLeader, isLeader, members, swimCh, eventCh, lock, run, monitor, callback,
                   stopping, said, counts>>

\* ... and gives up when its context ends, before or after.
ContextDone(c) ==
    /\ client[c] \in {"update", "reload", "waiting"}
    /\ client' = [client EXCEPT ![c] = "done"]
    /\ UNCHANGED <<raftLeader, isLeader, members, swimCh, eventCh, commandCh, lock, run, monitor,
                   callback, stopping, said, counts>>

\* Mutant: a leadership that was lost is not noted.
MonitorGains ==
    /\ \/ /\ monitor = "poll" /\ ~stopping /\ raftLeader /\ ~isLeader /\ ~lock
          /\ isLeader' = TRUE /\ monitor' = "send"
          /\ UNCHANGED eventCh
       \/ /\ monitor = "send" /\ Len(eventCh) < EventCap
          /\ eventCh' = Append(eventCh, "leader")
          /\ monitor' = "poll"
          /\ UNCHANGED isLeader
    /\ UNCHANGED <<raftLeader, members, swimCh, commandCh, lock, run, callback, client, stopping,
                   said, counts>>

\* monitorLeader: sees that the leadership has changed, notes it under the lock, and
\* announces a new one without the lock.
MonitorLeader ==
    /\ \/ /\ monitor = "poll" /\ ~stopping /\ isLeader # raftLeader
          /\ monitor' = "seen"
          /\ UNCHANGED <<isLeader, eventCh>>
       \/ /\ monitor = "seen" /\ ~lock
          /\ isLeader' = ~isLeader
          /\ monitor' = IF isLeader THEN "poll" ELSE "send"
          /\ UNCHANGED eventCh
       \/ /\ monitor = "send" /\ Len(eventCh) < EventCap
          /\ eventCh' = Append(eventCh, "leader")
          /\ monitor' = "poll"
          /\ UNCHANGED isLeader
    /\ UNCHANGED <<raftLeader, members, swimCh, commandCh, lock, run, callback, client, stopping,
                   said, counts>>

Stop ==
    /\ ~stopping
    /\ stopping' = TRUE
    /\ UNCHANGED <<raftLeader, isLeader, members, swimCh, eventCh, commandCh, lock, run, monitor,
                   callback, client, said, counts>>

----------------------------------------------------------------------------
(* The run loop *)

\* handleEvent: only a failure does something, and changes nothing of the state.
HandleEvent ==
    /\ run.pc = "select" /\ eventCh # <<>>
    /\ eventCh' = Tail(eventCh)
    /\ UNCHANGED <<raftLeader, isLeader, members, swimCh, commandCh, lock, run, monitor, callback,
                   client, stopping, said, counts>>

\* Mutant: a failure is not noted.
HandleSWIMEventJoined ==
    LET e == Head(swimCh)
    IN /\ run.pc = "select" /\ swimCh # <<>>
       /\ swimCh' = Tail(swimCh)
       /\ members' = [members EXCEPT ![e.peer] = IF e.type = "join" THEN "alive" ELSE @]
       /\ lock' = TRUE
       /\ run' = [pc |-> "send", event |-> e.type]
       /\ UNCHANGED <<raftLeader, isLeader, eventCh, commandCh, monitor, callback, client, stopping,
                      said, counts>>

\* handleSWIMEvent: handleMemberJoined and handleMemberFailed note the member and
\* then send, with the lock.
HandleSWIMEvent ==
    LET e == Head(swimCh)
    IN /\ run.pc = "select" /\ swimCh # <<>>
       /\ swimCh' = Tail(swimCh)
       /\ members' = [members EXCEPT ![e.peer] =
                         IF e.type = "join" THEN "alive" ELSE IF @ = "none" THEN @ ELSE "dead"]
       /\ lock' = TRUE
       /\ run' = [pc |-> "send", event |-> e.type]
       /\ UNCHANGED <<raftLeader, isLeader, eventCh, commandCh, monitor, callback, client, stopping,
                      said, counts>>

\* cmd.RespCh <- resp never waits; a client that has gone does not read it.
Answer(owner) ==
    IF owner \in Client /\ client[owner] = "waiting"
    THEN [client EXCEPT ![owner] = "done"] ELSE client

\* The send that a handler ends with.
RunSend ==
    /\ run.pc \in {"send", "reload"} /\ Len(eventCh) < EventCap
    /\ eventCh' = Append(eventCh, IF run.pc = "send" THEN run.event ELSE "config")
    /\ client' = IF run.pc = "reload" THEN Answer(run.owner) ELSE client
    /\ lock' = FALSE
    /\ run' = Idle
    /\ UNCHANGED <<raftLeader, isLeader, members, swimCh, commandCh, monitor, callback, stopping,
                   said, counts>>

TakeCommand ==
    /\ run.pc = "select" /\ commandCh # <<>>
    /\ run' = [pc |-> "command", cmd |-> Head(commandCh)]
    /\ commandCh' = Tail(commandCh)
    /\ UNCHANGED <<raftLeader, isLeader, members, swimCh, eventCh, lock, monitor, callback, client,
                   stopping, said, counts>>

\* Mutant: a command that fails is not answered.
HandleCommandLeader ==
    /\ run.pc = "command"
    /\ run' = Idle
    /\ client' = IF raftLeader THEN Answer(run.cmd.owner) ELSE client
    /\ UNCHANGED <<raftLeader, isLeader, members, swimCh, eventCh, commandCh, lock, monitor, callback,
                   stopping, said, counts>>

\* handleCommand.  proposeToRaft answers with an index or an error.  A reload is an
\* event when the node leads as the monitor saw it last; else forwardToLeader asks
\* Raft who leads: when it is this node by now, the loop puts the command in its own
\* channel, if it has room, and waits for the answer.
HandleCommand ==
    LET owner == run.cmd.owner
        reload == run.cmd.type = "reload"
        toSelf == reload /\ ~isLeader /\ raftLeader /\ Len(commandCh) < CommandCap
    IN /\ run.pc = "command"
       /\ \/ /\ reload /\ isLeader
             /\ run' = [pc |-> "reload", owner |-> owner]
             /\ UNCHANGED <<client, commandCh>>
          \/ /\ toSelf
             /\ run' = [pc |-> "await", owner |-> owner]
             /\ commandCh' = Append(commandCh, [owner |-> Self, type |-> "reload"])
             /\ UNCHANGED client
          \/ /\ ~(reload /\ isLeader) /\ ~toSelf
             /\ run' = Idle
             /\ client' = Answer(owner)
             /\ UNCHANGED commandCh
       /\ UNCHANGED <<raftLeader, isLeader, members, swimCh, eventCh, lock, monitor, callback,
                      stopping, said, counts>>

RunStops ==
    /\ run.pc = "select" /\ stopping
    /\ run' = [pc |-> "stopped"]
    /\ UNCHANGED <<raftLeader, isLeader, members, swimCh, eventCh, commandCh, lock, monitor,
                   callback, client, stopping, said, counts>>

CoordNext ==
    \/ \E p \in Peer, type \in {"join", "leave"} : SwimEvent(p, type)
    \/ RaftFlip \/ ApplyCallback \/ MonitorLeader \/ Stop
    \/ \E c \in Client : ClientCall(c) \/ Propose(c) \/ ContextDone(c)
    \/ HandleEvent \/ HandleSWIMEvent \/ RunSend \/ TakeCommand \/ HandleCommand
    \/ RunStops

\* Go's select picks any case that is ready, each in the long run; the monitor has a
\* timer; a goroutine that can send does.
CoordFairness ==
    /\ WF_coordVars(MonitorLeader) /\ WF_coordVars(RunSend) /\ WF_coordVars(HandleCommand)
    /\ SF_coordVars(HandleEvent) /\ SF_coordVars(HandleSWIMEvent) /\ SF_coordVars(TakeCommand)

CoordSpec == CoordInit /\ [][CoordNext]_coordVars /\ CoordFairness

----------------------------------------------------------------------------
(* Properties *)

\* The run loop waits for what only the run loop could do.
SelfWait ==
    \/ run.pc = "await"
    \/ run.pc \in {"send", "reload"} /\ Len(eventCh) = EventCap

\* Type invariant, with the bounds of the channels.
CoordTypeOK ==
    /\ members \in [Peer -> {"none", "alive", "dead"}]
    /\ lock = (run.pc = "send")
    /\ Len(eventCh) <= EventCap /\ Len(commandCh) <= CommandCap

\* Whenever the run loop is between two cases of its select, a member is what SWIM
\* said last of it, unless that word is still in the channel.
MembersFollow ==
    run.pc = "select" =>
        \A p \in Peer :
            \/ \E i \in DOMAIN swimCh : swimCh[i].peer = p
            \/ members[p] = CASE said[p] = "none" -> "none"
                              [] said[p] = "join" -> "alive"
                              [] said[p] = "leave" -> "dead"

\* A client that waits for its command is answered, or its context ends, unless the
\* loop waits for itself or is stopped: a stream of other events does not starve it.
CommandsServed ==
    \A c \in Client : client[c] = "waiting" ~> client[c] # "waiting" \/ SelfWait \/ stopping

\* A leadership that lasts is noticed, although the monitor needs the lock and room
\* in the channel, with the same exceptions.
LeadershipNoticed ==
    []<>(raftLeader = isLeader \/ SelfWait \/ stopping)

\* "We are the leader, propose directly": the loop can go on after forwardToLeader.  Not
\* so when the node has become the leader since the monitor looked.
NoSelfForward == run.pc # "await"
=============================================================================
