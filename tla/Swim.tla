-------------------------------- MODULE Swim --------------------------------
(***************************************************************************)
(* The SWIM membership of internal/swim: every node's view of the others,  *)
(* the probe, suspicion and gossip loops, and UDP messages that are lost,  *)
(* overtaken or come late.  Nodes crash and come back with an empty view.  *)
(*                                                                         *)
(* Incarnation numbers are left out: no code raises one, so that each is 0 *)
(* and each comparison of two succeeds.  MsgPingReq and MsgAlive are never *)
(* sent.  handleSync does not read the members that a message carries.     *)
(***************************************************************************)
EXTENDS Naturals, FiniteSets

CONSTANTS
    Member,
    Seeds,         \* the seeds a node joins through
    Prober,        \* bound: nodes whose probe and gossip loops run
    MaxInFlight,   \* bound: messages on their way; a further one is lost
    MaxCrashes     \* bound: crashes

ASSUME SwimAssumption ==
    /\ Seeds \in [Member -> SUBSET Member]
    /\ Prober \subseteq Member
    /\ MaxInFlight \in Nat /\ MaxCrashes \in Nat

VARIABLES
    up,        \* nodes that run
    crashes,
    view,      \* node -> other node -> state of its member
    knownAddr, \* node -> members whose address it knows
    probes,    \* node -> members with a pending probe timer
    acked,     \* history: node -> members that acknowledged since the probe
    expired,   \* node -> suspects that checkSuspects has collected
    net,       \* messages on their way
    timedOut   \* history: members a probe of which has timed out at some node

swimVars == <<up, crashes, view, knownAddr, probes, acked, expired, net, timedOut>>

MemberState == {"none", "alive", "suspect", "dead"}

\* A message; target is the node that suspect and dead are about.
Msg(type, src, dst, target) == [type |-> type, src |-> src, dst |-> dst, target |-> target]

\* sendMessage, to some nodes whose address is known: each message may be lost.
SendAll(old, msgs) ==
    \E lost \in SUBSET msgs :
        /\ Cardinality(old \cup (msgs \ lost)) <= MaxInFlight
        /\ net' = old \cup (msgs \ lost)

Empty(value) == [n \in Member |-> value]

\* NewProtocol on every node.
SwimInit ==
    /\ up = Member
    /\ crashes = 0
    /\ view = [n \in Member |-> Empty("none")]
    /\ knownAddr = Empty({}) /\ probes = Empty({}) /\ acked = Empty({}) /\ expired = Empty({})
    /\ net = {}
    /\ timedOut = {}

\* broadcast goes to the members that are alive in the node's view v.
Receivers(n, v) == {m \in Member \ {n} : v[m] = "alive" /\ m \in knownAddr[n]}

----------------------------------------------------------------------------
\* Join: a sync message with the node's address, to a seed.
Join(n) ==
    /\ n \in up /\ view[n] = Empty("none")
    /\ \E seed \in Seeds[n] \ {n} : SendAll(net, {Msg("join", n, seed, n)})
    /\ UNCHANGED <<up, crashes, view, knownAddr, probes, acked, expired, timedOut>>

\* updateMember(source, address, alive): a new or a known member.
UpdateMember(n, m) == view' = [view EXCEPT ![n][m] = "alive"]

\* handlePing: the source is alive, at the address the packet came from; ack.
HandlePing(x) ==
    /\ x.type = "ping"
    /\ UpdateMember(x.dst, x.src)
    /\ knownAddr' = [knownAddr EXCEPT ![x.dst] = @ \cup {x.src}]
    /\ SendAll(net \ {x}, {Msg("ack", x.dst, x.src, x.dst)})
    /\ UNCHANGED acked

\* handleAck: a known member is alive.
HandleAck(x) ==
    /\ x.type = "ack"
    /\ IF view[x.dst][x.src] = "none" THEN UNCHANGED view ELSE UpdateMember(x.dst, x.src)
    /\ acked' = [acked EXCEPT ![x.dst] = @ \cup ({x.src} \cap probes[x.dst])]
    /\ net' = net \ {x}
    /\ UNCHANGED knownAddr

\* Mutant: the state is given to the node that sent the message.
HandleSuspectSource(x) ==
    /\ x.type = "suspect"
    /\ view' = [view EXCEPT ![x.dst][x.src] = IF @ = "none" THEN @ ELSE "suspect"]
    /\ net' = net \ {x}
    /\ UNCHANGED <<knownAddr, acked>>

\* handleSuspect and handleDead: a known member gets the state.
HandleSuspect(x) ==
    /\ x.type = "suspect"
    /\ view' = [view EXCEPT ![x.dst][x.target] = IF @ = "none" THEN @ ELSE "suspect"]
    /\ net' = net \ {x}
    /\ UNCHANGED <<knownAddr, acked>>

HandleDead(x) ==
    /\ x.type = "dead"
    /\ view' = [view EXCEPT ![x.dst][x.target] = IF @ = "none" THEN @ ELSE "dead"]
    /\ net' = net \ {x}
    /\ UNCHANGED <<knownAddr, acked>>

\* handleSync: the source is alive.  A join carries its address, to which the node
\* answers; an answer, and gossip, carry none, so that a new member has no address.
HandleSync(x) ==
    /\ x.type \in {"join", "sync"}
    /\ UpdateMember(x.dst, x.src)
    /\ \/ /\ x.type = "join"
          /\ knownAddr' = [knownAddr EXCEPT ![x.dst] = @ \cup {x.src}]
          /\ SendAll(net \ {x}, {Msg("sync", x.dst, x.src, x.dst)})
       \/ /\ x.type = "sync"
          /\ net' = net \ {x}
          /\ UNCHANGED knownAddr
    /\ UNCHANGED acked

\* receiveLoop and handleMessage.
Receive(x) ==
    /\ x \in net /\ x.dst \in up
    /\ HandlePing(x) \/ HandleAck(x) \/ HandleSuspect(x) \/ HandleDead(x) \/ HandleSync(x)
    /\ UNCHANGED <<up, crashes, probes, expired, timedOut>>

\* A message to a node that is down, or any other, is lost.
Lose(x) ==
    /\ x \in net
    /\ net' = net \ {x}
    /\ UNCHANGED <<up, crashes, view, knownAddr, probes, acked, expired, timedOut>>

----------------------------------------------------------------------------
\* probeRandomMember: a member that is alive; a pending probe of it is cancelled.
Probe(n, m) ==
    /\ n \in up \cap Prober /\ view[n][m] = "alive" /\ m # n
    /\ probes' = [probes EXCEPT ![n] = @ \cup {m}]
    /\ acked' = [acked EXCEPT ![n] = @ \ {m}]
    /\ IF m \in knownAddr[n] THEN SendAll(net, {Msg("ping", n, m, m)}) ELSE UNCHANGED net
    /\ UNCHANGED <<up, crashes, view, knownAddr, expired, timedOut>>

\* Mutant: nothing follows the time-out.
ProbeTimeoutNothing(n, m) ==
    /\ n \in up /\ m \in probes[n]
    /\ probes' = [probes EXCEPT ![n] = @ \ {m}]
    /\ acked' = [acked EXCEPT ![n] = @ \ {m}]
    /\ UNCHANGED <<up, crashes, view, knownAddr, expired, net, timedOut>>

\* The probe's timer: LastProbe is compared with itself, so that the member is
\* suspected (suspectMember) whether or not it has acknowledged.
ProbeTimeout(n, m) ==
    LET v == [view[n] EXCEPT ![m] = "suspect"]
    IN /\ n \in up /\ m \in probes[n]
       /\ probes' = [probes EXCEPT ![n] = @ \ {m}]
       /\ acked' = [acked EXCEPT ![n] = @ \ {m}]
       /\ timedOut' = timedOut \cup {m}
       /\ IF view[n][m] # "alive" THEN UNCHANGED <<view, net>>
          ELSE /\ view' = [view EXCEPT ![n] = v]
               /\ SendAll(net, {Msg("suspect", n, r, m) : r \in Receivers(n, v)})
       /\ UNCHANGED <<up, crashes, knownAddr, expired>>

\* checkSuspects collects the suspects whose time is over, under the lock ...
CheckSuspects(n) ==
    /\ n \in up /\ expired[n] = {}
    /\ \E due \in SUBSET {m \in Member : view[n][m] = "suspect"} \ {{}} :
          expired' = [expired EXCEPT ![n] = due]
    /\ UNCHANGED <<up, crashes, view, knownAddr, probes, acked, net, timedOut>>

\* ... and marks them dead after it, whatever they are by then.
MarkDead(n, m) ==
    LET v == [view[n] EXCEPT ![m] = "dead"]
    IN /\ n \in up /\ m \in expired[n]
       /\ expired' = [expired EXCEPT ![n] = @ \ {m}]
       /\ view' = [view EXCEPT ![n] = v]
       /\ SendAll(net, {Msg("dead", n, r, m) : r \in Receivers(n, v)})
       /\ UNCHANGED <<up, crashes, knownAddr, probes, acked, timedOut>>

\* gossip, to a random member that is alive.
Gossip(n, m) ==
    /\ n \in up \cap Prober /\ view[n][m] = "alive" /\ m # n /\ m \in knownAddr[n]
    /\ SendAll(net, {Msg("sync", n, m, n)})
    /\ UNCHANGED <<up, crashes, view, knownAddr, probes, acked, expired, timedOut>>

----------------------------------------------------------------------------
Crash(n) ==
    /\ n \in up /\ crashes < MaxCrashes
    /\ up' = up \ {n}
    /\ crashes' = crashes + 1
    /\ view' = [view EXCEPT ![n] = Empty("none")]
    /\ knownAddr' = [knownAddr EXCEPT ![n] = {}] /\ probes' = [probes EXCEPT ![n] = {}]
    /\ acked' = [acked EXCEPT ![n] = {}] /\ expired' = [expired EXCEPT ![n] = {}]
    /\ UNCHANGED <<net, timedOut>>

RestartNode(n) ==
    /\ n \notin up
    /\ up' = up \cup {n}
    /\ UNCHANGED <<crashes, view, knownAddr, probes, acked, expired, net, timedOut>>

SwimNext ==
    \/ \E n \in Member : Join(n) \/ CheckSuspects(n) \/ Crash(n) \/ RestartNode(n)
    \/ \E n, m \in Member : Probe(n, m) \/ ProbeTimeout(n, m) \/ MarkDead(n, m) \/ Gossip(n, m)
    \/ \E x \in net : Receive(x) \/ Lose(x)

SwimSpec == SwimInit /\ [][SwimNext]_swimVars

\* The loops have timers: members are picked at random for a probe, each again and
\* again; timers expire; a message does not stay on its way for ever.
SwimFairness ==
    /\ \A n \in Prober, m \in Member : m # n => /\ SF_swimVars(Probe(n, m))
                                             /\ WF_swimVars(ProbeTimeout(n, m))
    /\ WF_swimVars(\E x \in net : Receive(x) \/ Lose(x))

SwimFairSpec == SwimSpec /\ SwimFairness

----------------------------------------------------------------------------
(* Properties *)

\* Type invariant; and a timer or a collected suspect is of a member the node knows.
SwimTypeOK ==
    /\ up \subseteq Member /\ crashes \in 0..MaxCrashes
    /\ view \in [Member -> [Member -> MemberState]]
    /\ \A n \in Member :
          /\ acked[n] \subseteq probes[n]
          /\ knownAddr[n] \cup probes[n] \cup expired[n] \subseteq {m \in Member : view[n][m] # "none"}
    /\ timedOut \subseteq Member

\* Accusations are about the right node: whoever is suspect or dead in any view,
\* by its own time-out or by a chain of messages, is a member of which a probe timed
\* out at some node.
AccusedTimedOut ==
    \A n, m \in Member : view[n][m] \in {"suspect", "dead"} => m \in timedOut

\* Completeness: once a node is down for good, no prober keeps it alive in its view,
\* whatever messages of it or about it are still on their way.
CrashNoticed ==
    \A n \in Prober, m \in Member :
        <>[](m \notin up) => <>[](n \in up => view[n][m] # "alive")

\* What the comment on the time-out says, "No ack received, mark as suspect": a
\* member that acknowledged the probe is not suspected when its timer expires.  Not so:
\* the comparison with LastProbe never finds an acknowledgement.
AckClears ==
    [][\A n, m \in Member :
          view[n][m] = "alive" /\ view'[n][m] = "suspect" /\ m \in probes[n] \ probes'[n]
              => m \notin acked[n]]_swimVars
=============================================================================
