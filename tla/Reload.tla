------------------------------- MODULE Reload -------------------------------
(***************************************************************************)
(* Hot reload: the configuration file and those who write it, the watcher  *)
(* (config/watcher.go), and the reload function of main.go that the        *)
(* watcher, the signal handler and the admin APIs call, in any number at   *)
(* once, on the pool manager and the user database; and the admin APIs'    *)
(* own changes of pools and users.                                         *)
(*                                                                         *)
(* A configuration is a version: what it says of a pool is the version     *)
(* itself.  The manager's operations are atomic, under its lock.  The      *)
(* process is modelled from when main has started the REST server; the     *)
(* watcher is created and started later.                                   *)
(***************************************************************************)
EXTENDS Naturals, Sequences, Functions

CONSTANTS
    Version,      \* configurations the file may hold
    First,        \* the one the process starts with
    Pool,         \* pool names
    None,         \* no such pool
    ByHand,       \* what an admin API has made of a pool, or of the users
    PoolsOf,      \* version -> its pools, in order
    Invalid,      \* versions that Load or Validate refuses
    Unsafe,       \* pairs of versions that IsSafeReload refuses
    Refused,      \* pairs of pool and version that UpdateConfig or NewPool refuses
    Caller,       \* those who call the reload function besides the watcher
    MaxChanges,   \* bound: writes of the file, and changes by the admin APIs
    MaxCalls      \* bound: calls of the reload function besides the watcher's

ASSUME ReloadAssumption ==
    /\ First \in Version \ Invalid /\ None \notin Version /\ ByHand \notin Version \cup {None}
    /\ PoolsOf \in [Version -> Seq(Pool)]
    /\ Invalid \subseteq Version /\ Unsafe \subseteq Version \X Version
    /\ Refused \subseteq Pool \X Version
    /\ "watcher" \notin Caller /\ "nobody" \notin Caller
    /\ MaxChanges \in Nat /\ MaxCalls \in Nat

VARIABLES
    file,         \* the version in the file
    marked,       \* MarkWrite was called less than an interval ago
    writing,      \* an API has written the file; what is left of its handler:
                  \* "mark" MarkWrite, "user" AddUser or RemoveUser
    lastHash,     \* the version whose hash the watcher has
    watch,        \* the watcher: "off", "tick", "changed", "reload" or "reloading"
    hashed,         \* the version whose hash it has computed
    call,         \* each call of the reload function: [pc, v, todo, known]
    pools,        \* the manager: pool -> version of its configuration
    users,        \* the version the users are of
    holder,       \* cfgHolder
    changes, calls,
    own,          \* history: the file is as an admin API has written it
    excuse,       \* history, since the file was written last: "overlap" two calls at
                  \* once, "partial" one failed half-way, "missed" the watcher takes the
                  \* file for loaded, and it is not
    alone,        \* history: the call during which no other ran and no admin API
                  \* changed a pool or the users
    mixed         \* history: something but a call alone has changed pools or users,
                  \* or a call has failed half-way, and no call alone has ended since

fileVars == <<file, own>>
watchVars == <<lastHash, watch, hashed>>
stateVars == <<pools, users, holder>>
pastVars == <<excuse, alone, mixed>>
reloadVars == <<fileVars, marked, writing, watchVars, call, stateVars, changes, calls, pastVars>>

Watcher == "watcher"
Nobody == "nobody"
NoCall == [pc |-> "idle"]
PoolsIn(v) == Range(PoolsOf[v])
Present == {p \in Pool : pools[p] # None}

\* The start of main: pools and users from the first configuration.
ReloadInit ==
    /\ file = First /\ marked = FALSE /\ writing = {} /\ own = FALSE
    /\ lastHash = First /\ watch = "off" /\ hashed = First
    /\ call = [c \in Caller \cup {Watcher} |-> NoCall]
    /\ pools = [p \in Pool |-> IF p \in PoolsIn(First) THEN First ELSE None]
    /\ users = First /\ holder = First
    /\ changes = 0 /\ calls = 0
    /\ excuse = {} /\ alone = Nobody /\ mixed = FALSE

----------------------------------------------------------------------------
(* The file *)

\* Something else than v is loaded, or will be.
OtherThan(v) == holder # v \/ \E c \in DOMAIN call : call[c].pc # "idle" /\ call[c].v # v

\* Somebody edits the file; or an API writes it: a configuration, after Validate, or
\* the users, which it will add or remove in memory as well.  MarkWrite follows, but
\* for the users of the REST API.
WriteFile(v) ==
    /\ changes < MaxChanges /\ changes' = changes + 1 /\ v # file
    /\ file' = v
    /\ \/ own' = FALSE /\ UNCHANGED writing
       \/ v \notin Invalid /\ own' = TRUE /\ writing' = writing \cup {"mark"}
       \/ own' = TRUE /\ writing' \in {writing \cup {"user"}, writing \cup {"mark", "user"}}
    /\ excuse' = IF watch # "off" /\ v = lastHash /\ OtherThan(v) THEN {"missed"} ELSE {}
    /\ UNCHANGED <<marked, watchVars, call, stateVars, calls, alone, mixed>>

\* Before main has created the watcher there is nobody to tell.
MarkWrite ==
    /\ "mark" \in writing
    /\ writing' = writing \ {"mark"}
    /\ marked' = TRUE \/ (watch = "off" /\ marked' = marked)
    /\ UNCHANGED <<fileVars, watchVars, call, stateVars, changes, calls, pastVars>>

\* Mutant: check does not look at how long ago the write was.
MarkStays ==
    /\ marked /\ marked' = TRUE
    /\ UNCHANGED <<fileVars, writing, watchVars, call, stateVars, changes, calls, pastVars>>

\* An interval has passed since.
MarkExpires ==
    /\ marked /\ marked' = FALSE
    /\ UNCHANGED <<fileVars, writing, watchVars, call, stateVars, changes, calls, pastVars>>

----------------------------------------------------------------------------
(* Changes of pools and users by the admin APIs *)

\* REST: CreatePool or UpdatePoolConfig; or RemovePool.
AdminPool(p) ==
    /\ changes < MaxChanges /\ changes' = changes + 1
    /\ \/ pools' = [pools EXCEPT ![p] = ByHand]
       \/ pools[p] # None /\ pools' = [pools EXCEPT ![p] = None]
    /\ alone' = Nobody /\ mixed' = TRUE
    /\ UNCHANGED <<fileVars, marked, writing, watchVars, call, users, holder, calls, excuse>>

\* AddUser or RemoveUser, after the file is written, or without (the dashboard's
\* deletion); nothing changes when a reload has loaded the file in between.
AdminUser ==
    /\ \/ "user" \in writing /\ writing' = writing \ {"user"} /\ UNCHANGED changes
       \/ changes < MaxChanges /\ changes' = changes + 1 /\ UNCHANGED writing
    /\ \/ users' = ByHand /\ alone' = Nobody /\ mixed' = TRUE
       \/ UNCHANGED <<users, alone, mixed>>
    /\ UNCHANGED <<fileVars, marked, watchVars, call, pools, holder, calls, excuse>>

----------------------------------------------------------------------------
(* The watcher *)

\* Start: what is in the file by now counts as loaded.
WatchStart ==
    /\ watch = "off" /\ watch' = "tick"
    /\ lastHash' = file
    /\ excuse' = IF OtherThan(file) THEN excuse \cup {"missed"} ELSE excuse
    /\ UNCHANGED <<fileVars, marked, writing, hashed, call, stateVars, changes, calls, alone, mixed>>

\* check: the hash of the file differs from the last one ...
WatchCheck ==
    /\ watch = "tick" /\ ~marked /\ file # lastHash
    /\ watch' = "changed" /\ hashed' = file
    /\ UNCHANGED <<fileVars, marked, writing, lastHash, call, stateVars, changes, calls, pastVars>>

\* ... it is read again and validated; then the hash, of the first read, is noted
\* (hashed is a local variable, and gone).
WatchLoad ==
    /\ watch = "changed"
    /\ IF file \in Invalid THEN watch' = "tick" /\ UNCHANGED lastHash
       ELSE watch' = "reload" /\ lastHash' = hashed
    /\ hashed' = First
    /\ UNCHANGED <<fileVars, marked, writing, call, stateVars, changes, calls, pastVars>>

----------------------------------------------------------------------------
(* The reload function *)

\* A caller enters and reads the file; the watcher does so from its callback.
ReloadStart(c) ==
    LET overlaps == \E d \in DOMAIN call : call[d].pc # "idle"
    IN /\ call[c].pc = "idle"
       /\ IF c = Watcher THEN watch = "reload" /\ watch' = "reloading" /\ UNCHANGED calls
          ELSE calls < MaxCalls /\ calls' = calls + 1 /\ UNCHANGED watch
       /\ call' = [call EXCEPT ![c] = [pc |-> "users", v |-> file, todo |-> <<>>, known |-> {}]]
       /\ excuse' = IF overlaps THEN excuse \cup {"overlap"} ELSE excuse
       /\ alone' = IF overlaps THEN Nobody ELSE c
       /\ mixed' = (mixed \/ overlaps)
       /\ UNCHANGED <<fileVars, marked, writing, lastHash, hashed, stateVars, changes>>

\* The call goes on as next; at its end the watcher's tick is over too.
Goes(c, next) ==
    /\ call' = [call EXCEPT ![c] = next]
    /\ watch' = IF c = Watcher /\ next = NoCall THEN "tick" ELSE watch
    /\ UNCHANGED <<fileVars, marked, writing, lastHash, hashed, changes, calls, alone>>

\* Load, Validate and IsSafeReload refuse, or the users are loaded.
ReloadUsers(c) ==
    LET v == call[c].v
        refuses == v \in Invalid \/ <<holder, v>> \in Unsafe
    IN /\ call[c].pc = "users"
       /\ Goes(c, IF refuses THEN NoCall ELSE [call[c] EXCEPT !.pc = "list"])
       /\ users' = IF refuses THEN users ELSE v
       /\ UNCHANGED <<pools, holder, excuse, mixed>>

\* The names of the existing pools are noted.
ReloadList(c) ==
    /\ call[c].pc = "list"
    /\ Goes(c, [call[c] EXCEPT !.pc = "pools", !.known = Present, !.todo = PoolsOf[call[c].v]])
    /\ UNCHANGED <<stateVars, excuse, mixed>>

\* Whether the call's next pool is refused: UpdatePoolConfig is called when its name
\* was noted, CreatePool otherwise.
Refuses(c) == LET p == Head(call[c].todo)
              IN (p \in call[c].known) # (p \in Present) \/ <<p, call[c].v>> \in Refused

\* The next pool is updated or created.
ReloadPool(c) ==
    /\ call[c].pc = "pools" /\ call[c].todo # <<>> /\ ~Refuses(c)
    /\ Goes(c, [call[c] EXCEPT !.todo = Tail(@)])
    /\ pools' = [pools EXCEPT ![Head(call[c].todo)] = call[c].v]
    /\ UNCHANGED <<users, holder, excuse, mixed>>

\* An error ends the call, with what it has changed so far.  A pool made by hand may
\* have another address or body than the configuration says.
ReloadPoolFails(c) ==
    /\ call[c].pc = "pools" /\ call[c].todo # <<>>
    /\ Refuses(c) \/ pools[Head(call[c].todo)] = ByHand
    /\ Goes(c, NoCall)
    /\ excuse' = excuse \cup {"partial"} /\ mixed' = TRUE
    /\ UNCHANGED stateVars

\* Mutant: the pools that were noted before are removed.
ReloadGoneKnown(c) ==
    /\ call[c].pc = "pools" /\ call[c].todo = <<>>
    /\ Goes(c, [call[c] EXCEPT !.pc = "remove", !.known = {}])
    /\ UNCHANGED <<stateVars, excuse, mixed>>

\* The pools that the configuration does not have ...
ReloadGone(c) ==
    /\ call[c].pc = "pools" /\ call[c].todo = <<>>
    /\ Goes(c, [call[c] EXCEPT !.pc = "remove", !.known = Present \ PoolsIn(call[c].v)])
    /\ UNCHANGED <<stateVars, excuse, mixed>>

\* ... are closed and removed, one by one; one that is gone by then is skipped.
ReloadRemove(c) ==
    /\ call[c].pc = "remove"
    /\ \E p \in call[c].known :
          /\ Goes(c, [call[c] EXCEPT !.known = @ \ {p}])
          /\ pools' = [pools EXCEPT ![p] = None]
    /\ UNCHANGED <<users, holder, excuse, mixed>>

\* cfgHolder.Store
ReloadStore(c) ==
    /\ call[c].pc = "remove" /\ call[c].known = {}
    /\ Goes(c, NoCall)
    /\ holder' = call[c].v
    /\ mixed' = (mixed /\ alone # c)
    /\ UNCHANGED <<pools, users, excuse>>

ReloadStep(c) ==
    \/ ReloadUsers(c) \/ ReloadList(c) \/ ReloadPool(c) \/ ReloadPoolFails(c)
    \/ ReloadGone(c) \/ ReloadRemove(c) \/ ReloadStore(c)

ReloadNext ==
    \/ \E v \in Version : WriteFile(v)
    \/ MarkWrite \/ MarkExpires \/ WatchStart \/ WatchCheck \/ WatchLoad
    \/ AdminUser \/ \E p \in Pool : AdminPool(p)
    \/ \E c \in Caller \cup {Watcher} : ReloadStart(c) \/ ReloadStep(c)

\* main goes on, the watcher has a ticker and a mark expires; a call that has begun,
\* or a handler, goes on.
ReloadFairness ==
    /\ WF_reloadVars(MarkWrite) /\ WF_reloadVars(MarkExpires) /\ WF_reloadVars(WatchStart)
    /\ WF_reloadVars(WatchCheck) /\ WF_reloadVars(WatchLoad) /\ WF_reloadVars(ReloadStart(Watcher))
    /\ \A c \in Caller \cup {Watcher} : WF_reloadVars(ReloadStep(c))

ReloadSpec == ReloadInit /\ [][ReloadNext]_reloadVars /\ ReloadFairness

----------------------------------------------------------------------------
(* Properties *)

\* Between calls of the reload function, pools, users and cfgHolder are of one and
\* the same configuration, unless two calls overlapped, one failed half-way, or an
\* admin API changed a pool or the users: and a call during which nothing of this
\* happens puts all of it right again.
SettledMatches ==
    (\A c \in DOMAIN call : call[c].pc = "idle") /\ ~mixed =>
        /\ pools = [p \in Pool |-> IF p \in PoolsIn(holder) THEN holder ELSE None]
        /\ users = holder

\* What somebody else has written to the file for good is applied in the end, however
\* the writes, the process's own and their marks included, fell between the reads of
\* the watcher and of the callers: unless it is refused, or since it was written a
\* call overlapped another or failed half-way, or the watcher had taken it for loaded,
\* having read it last before something else was loaded or when it started.
FileApplied ==
    []<>(holder = file \/ file \in Invalid \/ <<holder, file>> \in Unsafe \/ own \/ excuse # {})
=============================================================================
