# Geryon: a TLA+ verification project

Geryon is a connection pooler and proxy for PostgreSQL, MySQL and SQL Server,
written in Go.  The modules here specify the parts whose correctness depends on
interleavings, failures and long sequences of operations, check them on small
instances with TLC, and prove the central safety properties for every instance
with TLAPS.

## The system and its parts

A listener accepts client connections.  Each becomes a session, which
authenticates its client, takes server connections from a pool as the pooling
strategy says, and relays messages until either side ends.  A pool has backends,
which a health checker watches.  Nodes may form a cluster: SWIM finds the members,
Raft replicates configuration commands, a coordinator ties them together.  A
watcher reloads the configuration.

| Part | Code (under `src/internal` unless noted) | Concurrency | Module |
|---|---|---|---|
| Connection store, memory counter | `pool/pool.go`, `pool/manager.go` | one mutex; compare-and-swap | `ServerConnPool` |
| Wait queue | `pool/pool.go` | a mutex, a channel per waiter, time-outs | `WaitQueue` |
| Pool | `pool/pool.go` | a goroutine per session, the prefetcher, operators | `ConnPool`, `ConnLease` |
| Backends and health | `pool/health.go`, `pool/pool.go` | checker, dials and operators write the same fields | `BackendHealth` |
| Client start-up, session end, limits | `proxy/listener.go`, `auth/auth.go`, `pool/pool.go` | a goroutine per client, shared counters | `Startup` |
| Relay, routing, transaction time-outs | `proxy/listener.go`, `pool/routing.go`, `pool/transaction.go` | two goroutines per session, the time-out loop | `Relay` |
| Strategies, pool sessions | `pool/strategy.go`, `pool/session.go` | sessions over one pool | `Strategy`, `PoolSession` |
| Listener: stop, router | `proxy/listener.go`, `api/rest/server.go` | accept loop, sessions, admin requests, shutdown | `Listener` |
| Result cache | `cache/store.go`, `proxy/listener.go` | fill and invalidate race | `ResultCache` |
| Statement caches | `pool/prepared.go`, `stmt/cache.go` | one mutex each | `PreparedCache`, `StmtCache` |
| Raft node | `raft/raft.go`, `raft/wal.go` | run loop, heartbeats, proposer, applier, network, restarts | `Raft` |
| Raft storage and state machine | `raft/wal.go`, `raft/snapshot.go`, `raft/fsm.go`, `raft/raft.go` | apply goroutine against commits and crashes | `RaftStorage`, `GeryonFSM` |
| SWIM | `swim/swim.go` | probe, suspicion and gossip loops, UDP, crashes | `Swim` |
| Coordinator | `cluster/coordinator.go` | run loop, monitor, clients, bounded channels | `Coordinator` |
| Reload | `config/watcher.go`, `src/cmd/geryon/main.go` | watcher, signals, APIs, no common lock | `Reload` |

`PROJECT.json` lists every part with its files and status, the hazards with the
properties that cover each or the reason none does, and the source lines of every
definition.

## Modules

**`ServerConnPool`** has one action per method of `serverConnPool`.  A connection
is its id; `open` holds the ids whose socket has not been closed; `used` is
`globalMemoryUsed` in connections.  `ResetConnection` is the Boolean argument of
`release`.  Ids are never reused by the code; the model recycles an id when
nothing refers to it.

**`WaitQueue`** keeps the slice with its nil entries (`Hole`) and, in `wconn`,
the connection that `Signal` has stored in a waiter.

**`ConnPool`** extends both and runs any number of clients.  `pc[t]` is a point
between two critical sections: `acquire`, `size`, `alloc`, `select`, `dial`,
`add`, `reacquire`, `enqueue`, `waiting`, `leaving` in Acquire, then `holding` and
`returning`.  A delivered waiter may still take the time-out branch, because Go's
`select` may.  `RemoveBackend` holds `Pool.mu` between two steps, which blocks
selection only.  The prefetch goroutine moves through its own `prefetch` points.
The model assumes of the sessions that each releases what it acquired, once;
`Startup` and `Relay` show when the real ones do not.

**`ConnLease`** is the abstract pool: a connection is idle, unused, or leased to
one client, which has at most one and loses it only by its own step.

**`BackendHealth`** has the selection order, the attempts of `createServerConn`,
the checker's rounds and the operators' commands.  `healthy` is what selection
reads and `status` what the checker compares.  The database behind a backend is
`up`, `down` or `mute` (it accepts connections but does not answer the check).
`AllowProbe` is absent: nothing calls it.

**`Strategy`** is the pool as sessions see it: a connection is handed out, or in
the idle slice, where `Release` may put it twice.  `AcquireToRole` looks at the role
only to choose a backend to dial, so that it may return an idle connection of another.
`Startup`, `Relay` and `PoolSession` extend it.

**`Startup`** takes a session from accept to close.  `Steps` gives the sequence of
each of the six start-ups (three protocols, intercepted or passed through); an
action completes a step or cuts the session off, and the deferred functions of
`Handle` and `handleConnection` follow.  `sconn` is the connection of the pool
session and `pconn` is `ps.serverConn`.

**`Relay`** is what happens inside `Relay.Run` in session mode: `c2s` is where the
client's goroutine is, `hand` the connection it has read from the session and not
used yet, `mon` where the time-out loop is.  `excuse` records, per session, the
events that the properties except.  **`PoolSession`** has `Session.HandleMessage`
with the transaction and statement strategies; nothing but tests calls HandleMessage, so
that this module is about code that a running proxy does not reach.

**`Listener`** has the goroutines of the connections up to and after their
registration, `StopContext`, the closing of the pools, and `RefreshRouter` called
by admin requests while reloads change the backend list.

**`ResultCache`** has the store and, around it, sessions that select, modify,
commit and roll back; the database is a version per table.  **`PreparedCache`**
and **`StmtCache`** have the operations of the two statement caches.

**`Raft`** has one action per message handler.  `Propose` and `sendHeartbeats` run
on goroutines of their own and are split after their test of the state; `Propose`
also after logging, after writing, between peers, with the last index that
`sendAppendEntriesToAll` reads once (`sendLast`), and for each peer where it takes a
lock anew: nextIndex, the term before it, the entries, then term and commit index
(`request` is what it has read so far).  A heartbeat is built in one step; its
previous entry is the last of the log and it carries none, so that no property depends
on when the two are read.  The handlers run on one goroutine and are steps:
what they do between `appendEntry` and `AppendBatch` is not a state of its own, in which
`Propose` could see an entry that is not on disk yet.  A message may be lost or
overtaken, not duplicated.  `Persist` covers failed writes, after which the
buffered writer keeps failing, and failed syncs.  `Restart` keeps the write-ahead
log only, as `NewNode` does.  Three history variables guard no action: `elections` has
every election won, `strayed` is set when a vote for an earlier term is counted or
a node that is no longer the leader logs an entry or sends a request (`Strays`), and
`torn` when the entries of a request are read from a log that no longer has the previous
term read before.  Node ids are taken to be Raft addresses, since responses are dialled
at the sender's id.

**`RaftStorage`** is one node's log file, snapshots, apply channel and state
machine (**`GeryonFSM`**).  Elections are reduced to a term per start of the node and per
new leader, and replication to its effect on the log: an entry is put at the end
(`Propose`), in place of one with its index and all that follow (`Replace`), or, where
the log was loaded from a truncated file and the leader goes back to its first entry, at
the end with the index 1 (`AppendFirst`).  In the file all of these are appended
(`Store`).  A stop of the process (`Crash`) may cut the record or the snapshot that is
being written.  A stop of the machine (`MachineStop`) may also lose or damage what was
not synced: every snapshot, which `Save` never syncs, and the log since it was created or
truncated, until the next append syncs it (`unsynced`; `NewNode` opens the log with
`sync`).  A file that was synced is taken to be durable together with its name.  **`Lists`** is the loop that walks along a slice and
collects some of its elements; the log, the snapshots, the replication of Raft and
the eviction list of the result cache use it.

**`Swim`** has every node's view of the others.  Incarnation numbers are absent
because no code raises one.  **`Coordinator`** has the run loop, the monitor of
leadership, the call-backs of the state machine and the clients' commands, over
channels of bounded length.  **`Reload`** has the file and those who write it, the
watcher from its start, which comes after that of the REST server, any number of
concurrent calls of the reload function, and the changes of pools and users that the
administration interfaces make themselves (`AdminPool`, `AdminUser`).  A pool, or the
users, are of the version they were loaded from, or `ByHand`; `UpdateConfig` sets
the fields that may change and refuses another body or address, which is all that "of a
version" says of a pool that existed before.

The `MC` modules give the constants for TLC.  `MCStores`, `MCControl` and
`MCRelay` put several components in one run; in a behaviour only one of
them moves, as they share no state (in `MCRelay`, one mode of the sessions).

## Runs

| Run | Instance | Shows |
|---|---|---|
| `pool_core` | 3 clients, 4 ids, limit 1, idle slice 2, 2 retries | index, exclusive ownership, overshoot bound, queue membership, order of service, no unaccounted connection |
| `pool_admin` | 2 clients, 2 ids, 2 backends, prefetch, removal, Close | `HandedOpen`, `MemoryExact`, refinement of `ConnLease`, and that every Acquire and Release returns |
| `health` | primary and replica, 1 dialer, 2 events of any kind | records stay sound, status follows the database, dials avoid unusable backends in the end |
| `startup` | 2 sessions, 2 connections, 2 users, 2 addresses, all six start-ups | what a session takes it gives back (client counter, connections), no user is locked out, dedicated connections, sessions end |
| `relay` | 2 sessions, 2 primary connections and 1 replica, 2 messages and 1, 1 transaction; or 3 messages each with the other strategies | a message goes only to a connection the session owns, a transaction to one connection, none is lost; the other strategies hold a connection in a transaction and none outside |
| `stores` | result cache: 2 sessions, 2 tables; statement caches: 3 names, room for 2; storage: 4 entries, snapshot every 3, 2 restarts or new leaders; listener: 2 connections, 2 admin requests, 3 changes of the list | consistency of maps, lists and counters; stale answers only from the named races; convergence and recoverability; what a stop closes; the router follows the backend list |
| `raft` | 3 nodes, 2 terms, proposals at one index, 1 message, 1 heartbeat round | one leader for a term, and logs that match, until a late vote counts, a deposed leader goes on or a request is torn |
| `raft_restart` | 2 nodes, 3 terms, 2 indices, 1 restart, 1 faulty disk, no heartbeats | logs contiguous, terms ordered until a request is torn; nothing but a failed or pending write is missing on disk |
| `swim` | 3 nodes, 1 prober, 1 packet, 1 crash | accusations are of members a probe of which timed out; a crash is noticed |
| `control` | coordinator: 1 peer, 2 clients, channels of 1; reload: 4 versions, 2 pools, 2 writes or changes by hand, the watcher and a signal | members follow SWIM, commands are answered, leadership is noticed; settled state is of one configuration, the file is applied |
| `pool_leak` (violation) | 2 clients | a connection delivered to a waiter that times out stays active without an owner |
| `raft_leaders` (violation) | 3 nodes, 2 messages | a late vote counts in the wrong term: two leaders in one term |

The type invariants (`TypeOK`, `HealthTypeOK`, `RaftTypeOK`, ...) hold on the same
instances; the runs leave them out, and those that matter to a proof are proved.

Each violation contradicts a comment or document quoted in `PROJECT.json`.

Many properties name exceptions: `DedicatedUnlessCut`, `WriteOwned`, `TxnOneConn`,
`NothingLost`, `CachedFresh`, `Converged`, `Recoverable`, `SettledMatches`,
`FileApplied`, `StopCloses`, `RouterCurrent`, `CommandsServed`, `LeadershipNoticed`,
`PoolConnsHeld`, `PinnedInTxn`, `NeverLockedOut`, `SessionsEnd`, `LogOrdered`, `LeadersAgree`.
Each exception is a race or failure that does break the promise in the code; the
property says that nothing else of what is modelled does.  A property does not cover a
hazard that is its exception: `PROJECT.json` says so in the note of each.  History variables (`cut`, `excuse`, `raced`,
`reused`, `putAgain`, `late`, `stale`, `overlap`, `mixed`, `alone`, `own`, `reloaded`, `strayed`, `torn`) record them and guard no
action.

### Bounds

Three clients on a pool of one let two wait while one holds, so that hand-off,
time-out and order of service interact; the idle slice of two exceeds the limit
because overshoot can fill it.  Two clients suffice with operators, as each
hazard there is between one client and one operator.  The health counters
saturate at the larger threshold, which no comparison can see.  The health run
has one dialer; with two dialers the four properties hold as well (7.8 million
states, 22 minutes).  In `startup` each session needs two connections and the pool
has two, so that sessions wait for each other.  In `relay` the first session sends
two messages, which is a transaction with a statement in it, while the other takes
the connections it gives up; a behaviour ends when every session has an excuse
(`Unexcused`), as excuses are never taken back.  The caches hold one entry fewer than there are keys,
so that eviction happens at every fill.  In `stores` a snapshot is taken after three entries of four,
each of which may be one that replaces others; the commands set and delete one user and
set another twice, so that a lost, a repeated and a misplaced one show.  The storage stops
at the first excuse, as excuses are never taken back, but for a start after a cut.  2^64 is 16 (`Word`), which the unsigned difference of `maybeSnapshot` needs to wrap.  In `control`
a behaviour of the reload ends when nothing more can be said of it (`Over`).  Three Raft nodes let two candidates share a voter and a new leader replace
an entry of a deposed one.  With one index log matching says little there; with two
indices and no heartbeats (14.9 million states, 9 minutes), and with two heartbeat rounds
(5.1 million), `LeadersAgree` holds as well, and the theorem is about any log.  `raft_restart` sends
no heartbeats, which carry no entries; with a round of them its two invariants and
`LeadersAgree` hold as well (13.1 million states).  One message
on its way still arrives arbitrarily late; messages overtaking each other need
two, which only `raft_leaders` has.  In `swim` a further packet is lost, as any
may be.  A channel of one place in `control` makes the loop meet a full one.

`MaxTerm`, `MaxLog`, `MaxMsgs`, `MaxBeats`, `MaxRestarts`, `MaxFaults`, `MaxEvents`,
`MaxSent`, `MaxTxn`, `MaxHandled`, `MaxVersion`, `MaxList`, `MaxLists`,
`MaxEntries`, `MaxTerms`, `MaxInFlight`, `MaxCrashes`, `Prober`, `MaxSwim`, `MaxFlips`,
`MaxApplied`, `MaxChanges` and `MaxCalls` are bounds of the models and not of the
code.

Deadlock checking is off where a bound on terms, messages, writes or restarts ends
the behaviour, or all sessions have closed: in all runs but the pool's and `health`.

### Fairness

- `ConnPool`: a call in progress keeps moving, because goroutines are scheduled
  and dials and waits have time-outs; a reader of `Pool.mu` gets in between
  writers (strong fairness of selection), as `sync.RWMutex` ensures.  Nothing is
  assumed of sessions giving connections back.
- `BackendHealth`: the checker's ticker fires, checks and dials end.  Nothing is
  assumed of when dials begin or of operators.
- `Startup`: goroutines are scheduled, reads from the client end at the deadline of
  its socket and Acquire at its time-out.  Nothing is assumed of backends, whose
  sockets have no deadline: neither the start-up's dialogue with one nor the relay need
  end (`AwaitsBackend`), no fairness is stated of these steps, and `SessionsEnd` excepts a
  session that is in one.
- `Swim`: a prober picks every alive member again and again (it picks at random),
  timers expire, a packet arrives or is lost.
- `Coordinator`: Go's `select` picks each case that is ready again and again
  (strong fairness), the monitor has a ticker, a goroutine that can go on does.
- `Reload`: main goes on to start the watcher, its ticker fires, a mark expires, a call
  or a handler that began goes on.  Nothing is assumed of writers, signals and changes by
  hand.

The other specifications have safety properties only.

## Proofs

Eight modules hold theorems.  They are about any sets of clients, sessions,
connections, backends, queries, nodes and requests and any limits, under the named
assumptions of the modules: types of the constants, distinctness of the markers, and
finiteness where something is counted (clients, sessions, connections, Raft nodes,
queries of the prepared cache; that the result cache and the statement cache hold
finitely many entries is part of their invariants).

| Theorem | Module | Statement |
|---|---|---|
| `StoreCorrect` | `ConnPool_proofs` | slice, index and active map agree; all stored connections are open |
| `PoolTypeOK`, `PoolExclusive`, `PoolIndexOK`, `PoolWaiterQueued`, `PoolLongestWaiting` | `ConnPool_proofs` | `TypeOK`, `ExclusiveOwnership`, `IndexOK`, `WaiterQueued` and the action property `LongestWaiting` |
| `PoolHandedOpen`, `PoolOvershoot`, `PoolMemoryExact`, `PoolOpenAccounted` | `ConnPool_proofs` | `HandedOpen`, `OvershootBound`, `MemoryExact`; `OpenAccounted` if nothing is prefetched (`Prefetch = 0`) |
| `PoolImplementsLease` | `ConnPool_proofs` | `ConnPool` implements `ConnLease` |
| `StartupNothingLeaked`, `StartupNeverLockedOut`, `StartupDedicated` | `Server_proofs` | `NothingLeaked`, `NeverLockedOut`, `DedicatedUnlessCut` |
| `RelayNothingLost`, `RelayWriteOwned`, `RelayTxnOneConn` | `Sessions_proofs` | `NothingLost`, `WriteOwned`, `TxnOneConn` |
| `SessionPinned`, `SessionConnsHeld` | `Sessions_proofs` | `PinnedInTxn`, `PoolConnsHeld` |
| `ListenerStopCloses`, `ListenerRouterShared`, `ListenerRouterCurrent` | `Server_proofs` | `StopCloses`, `RouterShared`, `RouterCurrent` |
| `HealthStatusSound` | `Shared_proofs` | `StatusSound` |
| `ReloadSettled` | `Server_proofs` | `SettledMatches` |
| `ResultStoreConsistent`, `ResultFresh` | `Shared_proofs` | `StoreConsistent`, `CachedFresh` |
| `PreparedCorrect` | `Sessions_proofs` | `ByIDSound`, `ByIDComplete`, `PreparedBounded` |
| `StmtCacheBounded` | `Shared_proofs` | `StmtBounded` |
| `StorageInvariant`, `StorageConverged`, `StorageRecoverable` | `Storage_proofs` | `StorageInv`, `Converged`, `Recoverable` |
| `RaftDurable`, `RaftLogOrdered` | `Raft_proofs` | `Durable`, `LogOrdered` |
| `RaftLeadersAgree` | `RaftLeaders_proofs` | `LeadersAgree`: election safety and log matching |
| `SwimAccused` | `Server_proofs` | `AccusedTimedOut` |
| `CoordinatorFollows` | `Server_proofs` | `MembersFollow` |
| `NaturalInduction`, `OnlyWindow`, `OnlyMembers`, `OnlyListed`, `OnlyOrder` | `Lists_proofs` | induction over the natural numbers; what the collecting loop returns, and in which order |

**Pool.**  The theorems rest on the modelling assumption that a session releases
what it acquired, once.  `ExclusiveOwnership` is not inductive.  `Inv` adds where a
client may have a connection (`PointOK`), that a queued waiter is in Wait, unserved
and queued once (`QueueOK`), and that no two references are to one connection
(`Private`): Signal overwrites the connection of the waiter it finds, so without
`QueueOK` one could be lost or shared.  `WaiterQueued` adds to it that an unserved
waiter is found in the queue (`Queued`), which Signal and the clean-up of another
waiter keep because they cut off or blank other entries only; `LongestWaiting`
follows from `Inv` in one step, as Signal serves the first entry that is not nil.
`HInv` adds which references are open and active.  The overshoot bound is
inductive once the clients past the capacity check are counted with the pool
(`SizeInv`); the memory balance likewise counts reservations.  The refinement proof
maps every step to Take, Pass, GiveUp, CloseIdle or a stutter.

**Start-up.**  What the six sequences have in common is enough (`GoodSteps`): a
connection is taken and the user counted at most once, after the name was read.
`StartupInv` says where a session may have connections (`PlaceOK`), that what is
handed out somebody has (`OutHeld`) and, until a session was cut off between its two
acquisitions, has alone (`HeldAlone`).  Of what a step does to connections the proof
needs only that it takes one, gives one back, or neither (`ConnStep`).

**Relay and pool sessions.**  A session *owns* its connection while it will still
release it: not while it acquires another one, nor after Run has forgotten it.
`RelayInv` says that each connection handed out is owned (`Answered`), that owned
connections are exclusive (`Owned`), that the connection in a goroutine's hand is the
session's (`InHand`), and what the session knows of a transaction with statements
behind it (`OneConn`): its connection is of the primary, which is the role every further
statement asks for.  That is why a BEGIN that was given a connection of another role is
an exception.  Each part holds until one of its own excuses, so that
`NothingLost` needs fewer exceptions than `WriteOwned`.  `PSInv` is the like of it for
the transaction and statement strategies.

**Listener.**  `ListenerInv` adds that the map and the phases of the sessions agree
(`Registration`), that after a wait in time only late or closed sessions are counted
(`Drained`), and that until two requests overlap one at most is in progress, with
the list as it is (`Refreshing`).

**Result cache.**  `FreshInv` adds to `CachedFresh` that an answer still to be stored
is up to date and met no write (`AnswerFresh`), and that a write under way that names
its table has left no entry of it (`EntryClear`).  For `StoreConsistent` the list has
no repetition and its members are the keys of the map (`Agree`); what the loop of Set
evicts is found as the least number of evictions that leaves room, or all; that the
counter is then the sum of what remains needs sums over finite sets, which are
unfolded by induction (`SumUnfold`, `SumAdd`, `SumMinus`).

**Statement caches.**  `ByIDSound` is inductive with the types of the maps: an id
that leads to a statement is its ID, so that what deletes the statement deletes the
mapping.  `ByIDComplete` needs that until an id is reused no two statements have one,
as deleting the first would delete the mapping of the second.  `StmtBounded` is
inductive with the types, and with the finiteness of what is cached.

**Log, snapshots, state machine.**  Entries are queued from `lastApplied`, which
moves only when they have been applied, so that batches overlap, the state machine
goes back and forth, and a snapshot may be taken of a state in which some items are
further on than `lastApplied` says.  The invariant is therefore about each part of a
state by itself: `Reached(x, a, cs)` says that every pool and every user of state x is
what it was after some prefix of the commands cs, of at least a commands.  Such a
state, with the entries after a applied to it in turn, ends as all commands leave it
(`ReachedReplay`), because a command overwrites the one item it names and touches no
other (`ApplyParts`).  `StorageInv` says, until one of the exceptions: the state
machine is reached from `Base`, and each snapshot from its own index (`FsmInv`,
`SnapInv`); what is queued begins at most one after what is applied and leaves no gap
up to the commit index (`Chain`, `QueueInv`); the log in memory is consecutive and
agrees with what was committed (`LogInv`).  Of the file (`FileInv`): for some index f, up
to which there is a snapshot, it has exactly the entries of the log above f, in the order
of the log (`Kept`, `Ordered`), and between them records of replaced entries, which are of
former terms (`Stamped`).  A truncation moves f, and removes such records with the others;
a replacement turns entries of the log into such records.  Where none is left
(`~Superseded`), the file is the end of the log without a gap (`FileWhole`), and
`Recoverable` follows, since the snapshot with the highest index and the file then overlap
or touch.  Nothing is assumed of
how the size of the channel and the interval of the snapshots compare.

**Raft.**  `Durable` is kept by what each step adds to a log: what appendEntry
changes is among the entries it reports as new (`AppendAllRange`), and those are
written, or lost to a failed write, in the same step.  For `LogOrdered` the requests
in flight must be ordered, contiguous and of terms the sender knew (`RequestsOK`), and
nextIndex at most one past the log (`NextKnown`); so must those that a `Propose` is
putting together (`BuildsOK`), whose parts follow each other until `torn` (`BuildsFollow`): an entry then either extends the
log, is there, or replaces what follows it by something of a higher term
(`AppendAllOrdered`).  The theorem is about any number of nodes and terms, before
the first restart and the first torn request, which is also what the run checks.

`LeadersAgree` has three exceptions, each of which breaks it in the code: term and vote
are not kept across a restart; a vote for an earlier candidacy counts; and a deposed
leader whose `Propose` or `sendHeartbeats` goes on does so in the new leader's term.
That logs match has `torn` for a fourth; that a term has one leader has not.
The usual argument, two majorities share a voter and a voter votes once in a term, does
not apply as it stands, since `handleAppendEntries` stores the sender as the node voted
for: a follower of the leader may forget its vote.  `VoteInv` therefore says that a
vote seen anywhere, in a response on its way or counted by a candidate, binds its voter
(`Loyal`) or is of a term that has a leader already (`VotesBind`), and that behind every
leader there has ever been stands a majority that is bound to it for good (`Backed`),
the requests of that leader included (`RequestsFromLeaders`).  A candidate that wins
shares a voter with any such majority, so that no term has a second winner.  For the
logs, a *link* is an entry together with the term of the one before it, wherever it is:
in a log or in a request (`Link`).  An index and a term have one link (`OneLink`), made
by the winner of the term (`LinksLed`), whose own log is at least that long as long as
it leads (`LeaderHas`), so that its next entry is a new one.  What handleAppendEntries
does to a log makes no link that the log and the request did not have
(`AppendAllLinks`), and two logs whose links agree are the same up to a common entry, by
induction from there downwards (`LinksMatch`).

**Health.**  `StatusSound` needs only that the count of failures never falls but to
zero, where the status changes with it, and that no circuit is ever half open
(`RecordTypeOK`): from half open a single failure would open the circuit.

**SWIM.**  Accusations travel: the invariant adds that the packets and the collected
suspects accuse only members that timed out (`AccusationsTimedOut`).

**Coordinator.**  `MembersInv`: of the events of a peer that wait, the last is SWIM's
last word (`LastWord`), and an unknown peer's first one is its joining (`JoinsFirst`),
so that handleMemberFailed never meets a peer it does not know.

**Reload.**  `LoadInv` follows a call that nobody disturbs through its four phases
(`Alone`, `Progress`): what it has done is of its own configuration, the rest is in its
list, whatever it started from.  Unless pools and users are mixed, every call is alone,
and all is of one configuration until it changes something (`Unmixed`).  The end of a call
that was alone makes what was mixed `Unmixed` again.

Induction over data is used in the form that the provers can take, about a set of
numbers (`NaturalInduction`).  For that the loops of the code over logs, requests and
lists are recursive functions of the number of rounds (`AppendAll`, `ApplyAll`, and
`Only` for every loop that collects), with one operator for the round.

Only model-checked:

- liveness (`AcquireReturns`, `StatusFollows`, `Avoided`, `SessionsEnd`,
  `CrashNoticed`, `CommandsServed`, `LeadershipNoticed`, `FileApplied`), which is out
  of the prover's reach;
- `HealthTypeOK`, which says that a filtered list has no address twice.

## Known limits of the code, as the models show them

These statements are in the modules, each with the comment or document it comes
from.  They do not hold; adding one as INVARIANT or PROPERTY to the run named here
gives the behaviour.

| Statement | Run | What happens |
|---|---|---|
| `HandoffClean` (`ConnPool`) | `pool_core` | a connection that Signal passes to a waiter has not been reset |
| `BackendRecovers` (`BackendHealth`) | `health` | a late dial failure clears `Healthy`; the checker, whose own status has not changed, never sets it again |
| `CircuitReopens` (`BackendHealth`) | `health` | an open circuit never becomes half open: nothing calls `AllowProbe` |
| `DedicatedConn` (`Startup`) | `startup` | a session that gives up between its two `OnClientConnect` releases one connection twice, and two sessions get it |
| `AckClears` (`Swim`) | `swim` | a member that acknowledged is suspected when the probe's timer expires |
| `NoSelfForward` (`Coordinator`) | `control` | a node that became the leader since the monitor looked forwards a reload to itself, and its loop waits for ever |
| `StartsAgain` (`RaftStorage`) | `stores` | a torn last record makes `NewNode` fail |

Also visible in the models:

- A client that enqueues between Release's Signal and its return of the connection
  is not woken by it; it waits for another Release or its time-out.
- With the prefetcher, `OpenAccounted` fails: its connections are in no list.
- Connections released or dialled after `Close` stay open in the closed pool; the
  properties about open connections and memory are stated until `Close`.
- The length of the wait queue counts entries of waiters that left.
- The user counter may fall below zero, after which a limit is too generous.
- With applyCh full, entries are dropped and older ones applied again, and
  `lastApplied` goes back.  Without a full channel, too, batches collected while the
  applier is behind take `lastApplied` back, and snapshots are then taken at falling
  indices.  Rotation keeps the youngest files by modification time, so it can delete
  the snapshot with the highest index, up to which the log was already truncated: the
  commands in between are then on disk nowhere (the exception `rotated` of
  `Recoverable`, which the run reaches).  After a restart with a truncated log, `Propose` numbers
  entries from 1 again (`renumbered`), and a leader's first entry is put at the end of
  such a log.  A torn snapshot hides older good ones.
- The records of replaced entries stay in the file until a truncation, and `NewNode`
  loads them with the others: the restarted node has several entries with one index in
  its log, and applies the commands of the replaced ones as well (`superseded`).
- Snapshots are never synced, and neither is the file that `Truncate` writes before it
  renames it over the old one: a stop of the machine may leave neither (`unsynced`).
- A committed entry may be replaced (`overruled`): two leaders in a term, or a vote given
  twice, allow it.
- A node deposed while it builds a request may send entries of its new log behind a term
  of its old one (`torn`), and the terms of the receiver's log may then fall.
- A BEGIN may be given an idle connection of a replica; the next statement of the
  transaction then exchanges it for another one, on which there is no transaction.
- Term and vote are not persisted: a restarted node can vote twice in a term.
- Two reloads that overlap leave a mixture, and so do pools and users changed through the
  administration interfaces, until a reload runs alone; a reload that fails half-way is not
  undone, and the watcher does not try it again.  The watcher takes what is in the file
  when it starts for loaded, though main has read the file before; and of what the
  interfaces write to the file `FileApplied` says nothing, since marked writes are meant
  not to be loaded.  A pool that a reload adds has no
  listener, and one that it removes keeps its own.
- A modification that has no FROM (INSERT, UPDATE) invalidates no cached result.

## Not modelled

- Protocol codecs and the SQL tokenizer: functions on bytes and strings, with no
  state between messages.  What they find out is an input of the models.
- Cryptography (SCRAM, NTLM, certificates, TLS, HMAC): accepted or not.
- Parsing and validation of the configuration: sequential functions.
- The dashboard, gRPC and MCP servers and most REST handlers: they read, or call
  operations that are modelled; they keep no state of their own.
- Metrics, query log, tracing: nothing depends on them.
- The legacy cluster (`cluster/cluster.go`) and code without a caller
  (`handleInstallSnapshot`'s sender, `AllowProbe`, `handleMetadataMessage`,
  `handleHealthBroadcast`, `MsgPingReq`, `MsgAlive`).
- Locks inside one critical section: the recursive read locks at `raft.go:935` and in
  `getMemberInfos` of `swim.go` can block with a writer between them, but a step of
  the models is a whole critical section.
- Two narrow races: the heartbeat goroutine reading a ticker that `stopHeartbeat`
  clears (`raft.go:732`), and `updateMember` unlocking to send its event
  (`swim.go:684`).
- Times: a time-out may expire whenever its timer runs.
