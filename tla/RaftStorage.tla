----------------------------- MODULE RaftStorage -----------------------------
(***************************************************************************)
(* What one Raft node keeps across restarts: the write-ahead log, the      *)
(* snapshots and the state machine they rebuild (wal.go, snapshot.go and   *)
(* the apply goroutine of raft.go).                                        *)
(*                                                                         *)
(* Elections and replication are in Raft: here entries are proposed,       *)
(* replaced by those of a new leader, and committed in order; each start   *)
(* of the node and each new leader is a term.  A crash may cut the record  *)
(* or the snapshot file that is being written, and a stop of the machine   *)
(* lose what was not synced: a record is, with the file it is in, but a    *)
(* snapshot and a truncated file are not.  A reader of a log that ends in  *)
(* the middle of a record sees the end of the log if the cut is at the end *)
(* of one of its three fields ("silent"), and an error otherwise ("loud"). *)
(* No node sends a snapshot, so that handleInstallSnapshot has no caller.  *)
(***************************************************************************)
EXTENDS GeryonFSM, Integers, Sequences, FiniteSets, Functions, Lists

CONSTANTS
    Commands,      \* for each new entry in turn, the commands it may be
    SnapEvery,     \* applied entries between two snapshots (1000)
    MaxCount,      \* snapshots kept (3)
    ApplyCap,      \* capacity of applyCh (100)
    Word,          \* 2^64
    MaxEntries,    \* bound: new entries
    MaxTerms       \* bound: restarts and new leaders

ASSUME StorageAssumption ==
    /\ {SnapEvery, MaxCount, ApplyCap, Word, MaxEntries, MaxTerms} \subseteq Nat \ {0}
    /\ DOMAIN Commands = 1..MaxEntries

VARIABLES
    node,          \* "up", "down" or "failed": NewNode returned an error
    wal,           \* the file: entries, and cut records
    unsynced,      \* files the disk may hold in its place, until it is synced
    logEntries,
    commitIndex, lastApplied, lastSnapshotIndex,
    applyCh,
    sending,       \* entries sendCommittedToApply has still to send
    fsm,
    snaps,         \* snapshot files, oldest first: [index, term, state, good]
    taken,         \* the entry the apply goroutine has taken
    pc,            \* the apply goroutine: "take", "apply", "save" or "truncate"
    term,          \* starts of the node and new leaders
    committed,     \* history: the commands committed, in order
    proposals,     \* new entries so far
    excuse         \* history: "cut" a file was cut, "unsynced" one was lost with the
                   \* machine, "renumbered" an index was used again after a restart,
                   \* "superseded" a replaced entry was loaded again, "overruled" a
                   \* committed one was replaced, "dropped" the channel had no room for
                   \* one, "rotated" the snapshot with the highest index was deleted

NoEntry == [index |-> 0]

diskVars == <<wal, unsynced, snaps>>
histVars == <<committed, proposals, excuse>>
memVars == <<logEntries, commitIndex, lastApplied, lastSnapshotIndex, applyCh, sending, taken, fsm, pc>>
storageVars == <<node, diskVars, memVars, term, histVars>>

StorageInit ==
    /\ node = "up"
    /\ wal = <<>> /\ unsynced = {<<>>} /\ snaps = <<>>
    /\ logEntries = <<>> /\ commitIndex = 0 /\ lastApplied = 0 /\ lastSnapshotIndex = 0
    /\ applyCh = <<>> /\ sending = <<>> /\ fsm = InitState /\ taken = NoEntry /\ pc = "take"
    /\ term = 1
    /\ committed = <<>> /\ proposals = 0 /\ excuse = {}

Cut(kind) == [cut |-> kind]
IsCut(r) == "cut" \in DOMAIN r

\* ReadEntries and recover: what readEntry finds up to the end of the file, an
\* error when it meets a cut record that is loud or is not the last one.
Readable(file) ==
    \A i \in DOMAIN file : IsCut(file[i]) => file[i].cut = "silent" /\ i = Len(file)
ReadEntries(file, from) == Only(file, {r \in Range(file) : ~IsCut(r) /\ r.index >= from})

LastIndexOf(l) == IF l = <<>> THEN 0 ELSE l[Len(l)].index

\* The entries of a log above one index and up to another.
Between(l, low, high) == Only(l, {e \in Range(l) : e.index > low /\ e.index <= high})
Cmds(entries) == [i \in DOMAIN entries |-> entries[i].cmd]

----------------------------------------------------------------------------
\* An entry is put behind some of the log, and at the end of the file, which is synced.
Store(log, e) ==
    /\ node = "up" /\ proposals < MaxEntries
    /\ e.cmd \in Commands[proposals + 1]
    /\ proposals' = proposals + 1
    /\ logEntries' = Append(log, e)
    /\ wal' = Append(wal, e) /\ unsynced' = {}
    /\ UNCHANGED <<node, snaps, commitIndex, lastApplied, lastSnapshotIndex, applyCh, sending, taken,
                   fsm, pc, committed>>

\* Propose: the index follows the last one in memory.  So it does in an entry that a
\* leader sends to the end of the log.
Propose(c) ==
    LET e == [index |-> LastIndexOf(logEntries) + 1, term |-> term, cmd |-> c]
    IN /\ Store(logEntries, e)
       /\ excuse' = excuse \cup IF e.index <= lastSnapshotIndex THEN {"renumbered"} ELSE {}
       /\ UNCHANGED term

\* handleAppendEntries with an entry of a new leader: appendEntry puts it in the place k
\* of the first one with its index, and drops what follows.  The file keeps the records
\* of these, before that of the new one.
Replace(k, c) ==
    LET e == [index |-> logEntries[k].index, term |-> term + 1, cmd |-> c]
    IN /\ term <= MaxTerms
       /\ \A j \in 1..(k - 1) : logEntries[j].index # e.index
       /\ Store(SubSeq(logEntries, 1, k - 1), e)
       /\ excuse' = excuse \cup IF e.index <= Len(committed) THEN {"overruled"} ELSE {}
       /\ term' = term + 1

\* The same from a leader that goes back to its first entry, which a log that was loaded
\* from a truncated file does not have: it is put at the end.
AppendFirst(c) ==
    /\ logEntries # <<>> /\ \A j \in DOMAIN logEntries : logEntries[j].index # 1
    /\ Store(logEntries, [index |-> 1, term |-> term, cmd |-> c])
    /\ excuse' = excuse \cup {"renumbered"}
    /\ UNCHANGED term

\* Mutant: the entry after the last applied one is taken to be applied.
DueSkips(c) == Between(logEntries, lastApplied + 1, c)

\* The entries above lastApplied, whether or not they are in the channel already.
Due(c) == Between(logEntries, lastApplied, c)

\* The commit index advances, and sendCommittedToApply collects the entries ...
AdvanceCommit ==
    \E c \in (commitIndex + 1)..LastIndexOf(logEntries) :
        /\ node = "up" /\ sending = <<>>
        /\ commitIndex' = c
        /\ sending' = Due(c)
        /\ committed' = committed \o Cmds(Between(logEntries, Len(committed), c))
        /\ UNCHANGED <<node, diskVars, logEntries, lastApplied, lastSnapshotIndex, applyCh, taken,
                       fsm, pc, term, proposals, excuse>>

\* ... and sends one after the other; for which the channel has no room is dropped.
SendEntry ==
    /\ node = "up" /\ sending # <<>>
    /\ sending' = Tail(sending)
    /\ IF Len(applyCh) < ApplyCap
       THEN applyCh' = Append(applyCh, Head(sending)) /\ UNCHANGED excuse
       ELSE excuse' = excuse \cup {"dropped"} /\ UNCHANGED applyCh
    /\ UNCHANGED <<node, diskVars, logEntries, commitIndex, lastApplied, lastSnapshotIndex, taken,
                   fsm, pc, term, committed, proposals>>

\* ApplyCommitted takes an entry from the channel ...
TakeEntry ==
    /\ node = "up" /\ pc = "take" /\ applyCh # <<>>
    /\ taken' = Head(applyCh)
    /\ applyCh' = Tail(applyCh)
    /\ pc' = "apply"
    /\ UNCHANGED <<node, diskVars, logEntries, commitIndex, lastApplied, lastSnapshotIndex, sending,
                   fsm, term, histVars>>

\* ... and applies it; the test of maybeSnapshot is a difference of unsigned numbers.
ApplyCommitted ==
    /\ node = "up" /\ pc = "apply"
    /\ fsm' = Apply(fsm, taken.cmd)
    /\ lastApplied' = taken.index
    /\ taken' = NoEntry
    /\ pc' = IF (taken.index + Word - lastSnapshotIndex) % Word < SnapEvery THEN "take" ELSE "save"
    /\ UNCHANGED <<node, diskVars, logEntries, commitIndex, lastSnapshotIndex, applyCh,
                   sending, term, histVars>>

\* The term of the first entry with this index, 0 if there is none.
TermOf(index) ==
    LET at == Between(logEntries, index - 1, index)
    IN  IF at = <<>> THEN 0 ELSE at[1].term

\* CreateSnapshot; the file is named after index and term and replaces its namesake.
Written(good) ==
    Append(Only(snaps, {s \in Range(snaps) : s.index # lastApplied \/ s.term # TermOf(lastApplied)}),
           [index |-> lastApplied, term |-> TermOf(lastApplied), state |-> fsm, good |-> good])

\* cleanupOldSnapshots: the oldest by modification time are deleted.
cleanupOldSnapshots(files) ==
    SubSeq(files, IF Len(files) > MaxCount THEN Len(files) - MaxCount + 1 ELSE 1, Len(files))

\* History: of some files the one with the highest index is not kept.
Rotated(files, kept) == \E i \in DOMAIN files : \A j \in DOMAIN kept : files[i].index > kept[j].index

\* maybeSnapshot up to SnapshotStore.Save ...
SaveSnapshot ==
    /\ node = "up" /\ pc = "save"
    /\ snaps' = cleanupOldSnapshots(Written(TRUE))
    /\ excuse' = excuse \cup IF Rotated(Written(TRUE), snaps') THEN {"rotated"} ELSE {}
    /\ lastSnapshotIndex' = lastApplied
    /\ pc' = "truncate"
    /\ UNCHANGED <<node, wal, unsynced, logEntries, commitIndex, lastApplied, applyCh, sending, taken,
                   fsm, term, committed, proposals>>

\* Mutant: one entry more is removed.
TruncateMore ==
    /\ node = "up" /\ pc = "truncate"
    /\ wal' = ReadEntries(wal, lastApplied + 2)
    /\ unsynced' = unsynced \cup {wal}
    /\ pc' = "take"
    /\ UNCHANGED <<node, snaps, logEntries, commitIndex, lastApplied, lastSnapshotIndex, applyCh,
                   sending, taken, fsm, term, histVars>>

\* ... and WAL.Truncate: a new file, that is not synced, is renamed over the old one,
\* unless the old one cannot be read.  The entries in memory are kept.
Truncate ==
    /\ node = "up" /\ pc = "truncate"
    /\ IF Readable(wal)
       THEN wal' = ReadEntries(wal, lastApplied + 1) /\ unsynced' = unsynced \cup {wal}
       ELSE UNCHANGED <<wal, unsynced>>
    /\ pc' = "take"
    /\ UNCHANGED <<node, snaps, logEntries, commitIndex, lastApplied, lastSnapshotIndex, applyCh,
                   sending, taken, fsm, term, histVars>>

----------------------------------------------------------------------------
\* The process stops; a record or a snapshot that is being written may be cut.
Crash ==
    /\ node = "up" /\ term <= MaxTerms
    /\ node' = "down"
    /\ \/ UNCHANGED <<diskVars, excuse>>
       \/ /\ \E kind \in {"silent", "loud"} : wal' = Append(wal, Cut(kind))
          /\ proposals < MaxEntries
          /\ excuse' = excuse \cup {"cut"}
          /\ UNCHANGED <<unsynced, snaps>>
       \/ /\ pc = "save"
          /\ snaps' = Written(FALSE)
          /\ excuse' = excuse \cup {"cut"}
          /\ UNCHANGED <<wal, unsynced>>
    /\ UNCHANGED <<memVars, term, committed, proposals>>

\* What is left of a file that was not synced: all, or a beginning, whether or not the
\* last record is whole, or the file that had its name.
Left(file) ==
    unsynced \cup {SubSeq(file, 1, i) \o end :
                      i \in 0..Len(file), end \in {<<>>, <<Cut("silent")>>, <<Cut("loud")>>}}

\* The machine stops: snapshots, which are never synced, may be missing or damaged, and
\* so may the log since it was created or truncated.
MachineStop ==
    /\ node = "up" /\ term <= MaxTerms
    /\ node' = "down"
    /\ wal' \in IF unsynced = {} THEN {wal} ELSE Left(wal)
    /\ unsynced' = {}
    /\ \E missing, damaged \in SUBSET Range(snaps) :
          LET kept == Only(snaps, Range(snaps) \ missing)
          IN  snaps' = [i \in DOMAIN kept |->
                           [kept[i] EXCEPT !.good = @ /\ kept[i] \notin damaged]]
    /\ excuse' = excuse \cup IF wal' = wal /\ snaps' = snaps THEN {} ELSE {"unsynced"}
    /\ UNCHANGED <<memVars, term, committed, proposals>>

\* The snapshots with the highest index, one of which Load chooses.
Best == {i \in DOMAIN snaps : \A j \in DOMAIN snaps : snaps[j].index <= snaps[i].index}

\* SnapshotStore.Load, and Restore; its errors are ignored.
Restored(s) == IF s.good THEN s.state ELSE InitState

\* The file has a record whose entry was replaced in memory.
Superseded == \E i \in DOMAIN wal : wal[i] \notin Range(logEntries)

\* NewNode: the log from the file, with all its records, and the state machine from the
\* snapshot.
Start ==
    /\ node = "down"
    /\ term' = term + 1
    /\ IF Readable(wal)
       THEN /\ node' = "up"
            /\ logEntries' = ReadEntries(wal, 1)
            /\ IF snaps = <<>> THEN fsm' = InitState /\ lastSnapshotIndex' = 0
               ELSE \E i \in Best :
                       /\ fsm' = Restored(snaps[i])
                       /\ lastSnapshotIndex' = IF snaps[i].good THEN snaps[i].index ELSE 0
       ELSE /\ node' = "failed"
            /\ UNCHANGED <<logEntries, fsm, lastSnapshotIndex>>
    /\ commitIndex' = 0 /\ lastApplied' = 0 /\ applyCh' = <<>> /\ sending' = <<>>
    /\ taken' = NoEntry /\ pc' = "take"
    /\ excuse' = excuse \cup IF Superseded THEN {"superseded"} ELSE {}
    /\ UNCHANGED <<diskVars, committed, proposals>>

StorageNext ==
    \/ \E c \in UNION Range(Commands) :
          Propose(c) \/ AppendFirst(c) \/ \E k \in DOMAIN logEntries : Replace(k, c)
    \/ AdvanceCommit \/ SendEntry \/ TakeEntry \/ ApplyCommitted \/ SaveSnapshot \/ Truncate
    \/ Crash \/ MachineStop \/ Start

StorageSpec == StorageInit /\ [][StorageNext]_storageVars

----------------------------------------------------------------------------
(* Properties *)

\* Type invariant, with the bounds of the channel and of the snapshot directory.
StorageTypeOK ==
    /\ node \in {"up", "down", "failed"} /\ pc \in {"take", "apply", "save", "truncate"}
    /\ Len(applyCh) <= ApplyCap
    /\ pc = "truncate" => Len(snaps) <= MaxCount
    /\ {commitIndex, lastApplied, lastSnapshotIndex} \subseteq 0..MaxEntries

\* Entries are sent again while they wait in the channel, and replayed over a
\* snapshot after a crash: the state machine goes back and forth.  Still, whenever
\* the last applied entry is the last committed one, it holds what the committed
\* commands, each once and in order, make, whatever uncommitted entries were replaced.
\* Excepted: an entry was dropped, a file was cut or lost, an index was used again or a
\* replaced entry loaded after a restart, a committed entry was replaced, or the snapshot
\* with the highest index, up to which the log is truncated, was deleted as the oldest.
Converged ==
    node = "up" /\ excuse = {} /\ lastApplied = Len(committed)
        => Contents(fsm) = Contents(ApplyAll(InitState, committed))

\* Whenever the node crashes, between saving a snapshot and truncating the log or just
\* after one was taken at a lower index than the one before, what is on disk rebuilds
\* the effect of every committed command: the snapshot that will be loaded, and the log
\* on top, once a truncation has removed the records of replaced entries from it.  The
\* exceptions are those of Converged.
Recoverable ==
    excuse = {} /\ ~Superseded =>
        \A s \in IF snaps = <<>> THEN {InitState} ELSE {snaps[i].state : i \in Best} :
            Contents(ApplyAll(s, Cmds(Between(wal, 0, Len(committed)))))
                = Contents(ApplyAll(InitState, committed))

\* "Raft WAL provides crash recovery for cluster state": the node starts again after
\* a crash.  Not so when the last record is torn.
StartsAgain == node # "failed"
=============================================================================
