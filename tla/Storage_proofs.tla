-------------------------- MODULE Storage_proofs ----------------------------
(***************************************************************************)
(* What is proved of the log, the snapshots and the state machine of a     *)
(* node, for every set of items and commands, every size of the queue and  *)
(* every number of snapshots.                                              *)
(***************************************************************************)
EXTENDS RaftStorage, Lists_proofs

\* The provers get more time than by default; a step that is left to Zenon says so.
USE SMTT(20), ZenonT(20)

----------------------------------------------------------------------------
(* The invariant *)

\* The commands, the states they lead to, and the entries and snapshots that hold them.
Cmd == UNION Range(Commands)
Values == {c.value : c \in Cmd} \cup {None}
State == [version : Nat, pools : [Item -> Values], users : [Item -> Values],
          backends : [Item -> {None}]]
LogEntry == [index : Nat \ {0}, term : Nat, cmd : Cmd]
Snapshot == [index : Nat \ {0}, term : Nat, state : State, good : {TRUE}]

\* The state after the first m of some commands.
After(cs, m) == ApplyAll(InitState, SubSeq(cs, 1, m))

\* Each part of a state is what it was after some prefix of the commands, of at least a.
Reached(x, a, cs) ==
    /\ x \in State
    /\ \A n \in Item : \E m \in a..Len(cs) : x.pools[n] = After(cs, m).pools[n]
    /\ \A n \in Item : \E m \in a..Len(cs) : x.users[n] = After(cs, m).users[n]

\* The indexes of a list of entries follow each other.
Consecutive(l) == \A i \in 1..Len(l) : l[i].index = l[1].index + i - 1
\* The committed entries of a list are the committed commands.
Agrees(l, cs) == \A i \in 1..Len(l) : l[i].index <= Len(cs) => l[i].cmd = cs[l[i].index]

\* An entry is in a list, and those of one list are in another.
In(e, l) == \E j \in 1..Len(l) : e = l[j]
Within(w, l) == \A i \in 1..Len(w) : In(w[i], l)

\* The index up to which the state machine is complete.
Base == IF lastApplied = 0 THEN lastSnapshotIndex ELSE lastApplied

\* Entries that may be applied one after the other to a state complete up to a.
Chain(l, a) == \A i \in 1..Len(l) : l[i].index <= 1 + IF i = 1 THEN a ELSE l[i - 1].index
End(l, a) == IF l = <<>> THEN a ELSE l[Len(l)].index

\* Until a file is cut, all records and snapshots are whole.
StorageTypes ==
    /\ wal \in Seq(LogEntry) /\ logEntries \in Seq(LogEntry)
    /\ applyCh \in Seq(LogEntry) /\ sending \in Seq(LogEntry)
    /\ snaps \in Seq(Snapshot) /\ fsm \in State /\ committed \in Seq(Cmd)
    /\ commitIndex \in Nat /\ lastApplied \in Nat /\ lastSnapshotIndex \in Nat
    /\ term \in Nat /\ proposals \in Nat
    /\ pc = "apply" => taken \in LogEntry

\* The log in memory.
LogInv ==
    /\ Consecutive(logEntries) /\ Agrees(logEntries, committed)
    /\ logEntries # <<>> => /\ logEntries[1].index <= Len(committed) + 1
                            /\ Len(committed) <= LastIndexOf(logEntries)
    /\ logEntries = <<>> => committed = <<>> \/ lastSnapshotIndex > 0
    /\ lastApplied > 0 => logEntries # <<>> /\ logEntries[1].index <= lastApplied
    /\ lastApplied = 0 /\ logEntries # <<>> => logEntries[1].index <= lastSnapshotIndex + 1

\* The records of a file that are entries of the log are in its order.
Ordered(w, l) ==
    \A i, j \in 1..Len(w) : i < j /\ In(w[i], l) /\ In(w[j], l) => w[i].index < w[j].index
\* The others are of former terms.
Stamped(w, l, t) == \A i \in 1..Len(w) : w[i].term <= t /\ (In(w[i], l) \/ w[i].term < t)
\* The entries of the log above f are in the file; of n committed ones, the log has these.
Kept(w, l, n, f) ==
    /\ \A k \in 1..Len(l) : l[k].index > f <=> In(l[k], w)
    /\ f < n => l # <<>> /\ l[1].index <= f + 1
\* A snapshot has what is not above f.
Saved(f) == f = 0 \/ \E i \in DOMAIN snaps : f <= snaps[i].index

\* The file: besides the entries of the log, it has those that were replaced.
FileInv ==
    /\ Ordered(wal, logEntries) /\ Stamped(wal, logEntries, term)
    /\ \E f \in 0..Len(committed) : Kept(wal, logEntries, Len(committed), f) /\ Saved(f)

\* The snapshots.
SnapInv ==
    /\ \A i \in DOMAIN snaps : /\ snaps[i].index <= Len(committed)
                               /\ Reached(snaps[i].state, snaps[i].index, committed)
    /\ pc \in {"save", "truncate"} => lastApplied > 0
    /\ pc = "truncate" => \E i \in DOMAIN snaps : lastApplied <= snaps[i].index

\* The state machine.
FsmInv ==
    /\ Base <= Len(committed) /\ Reached(fsm, Base, committed)
    /\ lastApplied <= commitIndex /\ commitIndex <= Len(committed)

\* What is on its way to the state machine.
Queued(e) ==
    /\ logEntries # <<>> /\ logEntries[1].index <= e.index /\ e.index <= commitIndex
    /\ e.cmd = committed[e.index]
Taken == IF pc = "apply" THEN taken.index ELSE Base
QueueInv ==
    /\ pc = "apply" => Queued(taken) /\ taken.index <= Base + 1
    /\ \A i \in DOMAIN applyCh : Queued(applyCh[i])
    /\ \A i \in DOMAIN sending : Queued(sending[i])
    /\ Chain(applyCh, Taken) /\ Chain(sending, End(applyCh, Taken))
    /\ pc = "apply" \/ applyCh # <<>> \/ sending # <<>>
          => End(sending, End(applyCh, Taken)) = commitIndex

\* What holds until one of the exceptions of Converged.
StorageGood == StorageTypes /\ LogInv /\ FileInv /\ SnapInv /\ FsmInv /\ QueueInv
StorageInv == excuse = {} => StorageGood

----------------------------------------------------------------------------
(* The log and the snapshots: what is read, and what is collected to be applied *)

\* The first index and the length of a list without a gap give the last index.
LEMMA LastOf ==
    ASSUME NEW l \in Seq(LogEntry), Consecutive(l), l # <<>>
    PROVE  /\ Len(l) \in Nat \ {0} /\ l[1].index \in Nat \ {0}
           /\ LastIndexOf(l) \in Nat /\ LastIndexOf(l) = l[1].index + Len(l) - 1
<1>1. Len(l) \in Nat \ {0} /\ l[1] \in LogEntry
  OBVIOUS
<1>2. l[1].index \in Nat \ {0}
  BY Zenon, <1>1 DEF LogEntry
<1>3. l[Len(l)].index = l[1].index + Len(l) - 1
  BY <1>1 DEF Consecutive
<1> QED
  BY <1>1, <1>2, <1>3 DEF LastIndexOf

\* The part of a list without a gap above one index and up to another: from a, the first
\* index that is in the list and above low, to z, the last that is and not above high.
Slice(r, l, low, high, a, z) ==
    /\ a = IF low < l[1].index THEN l[1].index ELSE low + 1
    /\ z = IF high < LastIndexOf(l) THEN high ELSE LastIndexOf(l)
    /\ r \in Seq(LogEntry) /\ Len(r) = IF a <= z THEN z - a + 1 ELSE 0
    /\ \A j \in 1..Len(r) : /\ a - l[1].index + j \in 1..Len(l)
                            /\ r[j] = l[a - l[1].index + j] /\ r[j].index = a + j - 1

\* That is what Between takes.
LEMMA BetweenWindow ==
    ASSUME NEW l \in Seq(LogEntry), Consecutive(l), l # <<>>, NEW low \in Nat, NEW high \in Nat
    PROVE  \E a \in Nat, z \in Nat : Slice(Between(l, low, high), l, low, high, a, z)
<1>1. PICK b \in Nat, n \in Nat, y \in Nat : /\ b = l[1].index /\ n = Len(l) /\ n > 0
                                             /\ y = LastIndexOf(l) /\ y = b + n - 1
  BY LastOf
<1>2. PICK a \in Nat, z \in Nat : /\ a = IF low < b THEN b ELSE low + 1
                                  /\ z = IF high < b + n - 1 THEN high ELSE b + n - 1
  BY <1>1
<1>3. PICK T : T = {e \in Range(l) : e.index > low /\ e.index <= high}
  BY Zenon
<1>4. \A i \in 1..n : l[i] \in T <=> b + i - 1 > low /\ b + i - 1 <= high
  <2> SUFFICES ASSUME NEW i \in 1..n PROVE l[i] \in T <=> b + i - 1 > low /\ b + i - 1 <= high
    BY Zenon
  <2>1. l[i].index = b + i - 1
    BY Zenon, <1>1 DEF Consecutive
  <2>2. l[i] \in Range(l)
    BY <1>1 DEF Range
  <2> QED
    BY Zenon, <1>3, <2>1, <2>2
<1>5. PICK o \in Nat, p \in Nat :
              /\ o <= p /\ p <= n /\ p - o = IF a <= z THEN z - a + 1 ELSE 0
              /\ a <= z => o = a - b
              /\ \A i \in 1..n : b + i - 1 > low /\ b + i - 1 <= high <=> o < i /\ i <= p
  <2>1. a >= b /\ z <= b + n - 1
    BY <1>2
  <2>2. CASE a <= z
    <3>1. a - b \in Nat /\ z - b + 1 \in Nat
      BY <2>1, <2>2
    <3>2. PICK o \in Nat, p \in Nat : o = a - b /\ p = z - b + 1
      BY Zenon, <3>1
    <3>3. o <= p /\ p <= n /\ p - o = z - a + 1
      BY <2>1, <2>2, <3>2
    <3>4. \A i \in 1..n : b + i - 1 > low /\ b + i - 1 <= high <=> o < i /\ i <= p
      BY <1>2, <2>2, <3>2
    <3> QED
      BY Zenon, <2>2, <3>2, <3>3, <3>4
  <2>3. CASE ~(a <= z)
    <3>1. \A i \in 1..n : b + i - 1 > low /\ b + i - 1 <= high <=> 0 < i /\ i <= 0
      <4>1. z < a
        BY <2>3
      <4>2. ASSUME NEW i \in 1..n PROVE ~(b + i - 1 > low /\ b + i - 1 <= high)
        <5>1. b + i - 1 > low => b + i - 1 >= a
          BY <1>2
        <5>2. b + i - 1 <= high => b + i - 1 <= z
          BY <1>2
        <5> QED
          BY <4>1, <5>1, <5>2
      <4>3. \A i \in 1..n : ~(0 < i /\ i <= 0)
        OBVIOUS
      <4> QED
        BY Zenon, <4>2, <4>3
    <3> QED
      BY <2>3, <3>1
  <2> QED
    BY Zenon, <2>2, <2>3
<1>6. PICK r : r = Between(l, low, high)
  BY Zenon
<1>7. r = Only(l, T)
  BY Zenon, <1>3, <1>6 DEF Between
<1>8. Window(l, T, o, p)
  BY Zenon, <1>1, <1>4, <1>5 DEF Window
<1>9. o <= p /\ p <= Len(l)
  BY Zenon, <1>1, <1>5
<1>10. r \in Seq(LogEntry) /\ Part(r, l, o, p)
  BY Zenon, <1>7, <1>8, <1>9, OnlyWindow
<1>11. ASSUME NEW j \in 1..Len(r)
       PROVE  a - b + j \in 1..Len(l) /\ r[j] = l[a - b + j] /\ r[j].index = a + j - 1
  <2>1. j \in 1..(p - o)
    BY Zenon, <1>10 DEF Part
  <2>2. o = a - b
    BY <1>5, <2>1
  <2>3. o + j \in 1..n /\ o + j = a - b + j
    BY <1>5, <2>1, <2>2
  <2>4. r[j] = l[o + j]
    BY Zenon, <1>10, <2>1 DEF Part
  <2>5. l[o + j].index = b + (o + j) - 1
    BY Zenon, <1>1, <2>3 DEF Consecutive
  <2>6. b + (o + j) - 1 = a + j - 1
    BY <2>2
  <2> QED
    BY Zenon, <1>1, <2>3, <2>4, <2>5, <2>6
<1>12. Len(r) = IF a <= z THEN z - a + 1 ELSE 0
  BY Zenon, <1>5, <1>10 DEF Part
<1>13. /\ a = IF low < l[1].index THEN l[1].index ELSE low + 1
       /\ z = IF high < LastIndexOf(l) THEN high ELSE LastIndexOf(l)
  BY Zenon, <1>1, <1>2
<1>14. \A j \in 1..Len(r) : /\ a - l[1].index + j \in 1..Len(l)
                            /\ r[j] = l[a - l[1].index + j] /\ r[j].index = a + j - 1
  BY Zenon, <1>1, <1>11
<1> QED
  BY Zenon, <1>6, <1>10, <1>12, <1>13, <1>14 DEF Slice

\* Nothing is taken from an empty list.
LEMMA BetweenEmpty ==
    ASSUME NEW low, NEW high
    PROVE  Between(<<>>, low, high) = <<>>
<1>1. PICK T : T = {e \in Range(<<>>) : e.index > low /\ e.index <= high}
  BY Zenon
<1>2. PICK l : l = <<>>
  BY Zenon
<1>3. l \in Seq(LogEntry) /\ Len(l) = 0
  BY <1>2
<1>4. PICK f : f[0] = <<>> /\ Only(l, T) = f[Len(l)]
  BY Zenon, <1>3, OnlyRounds
<1>5. Only(l, T) = <<>>
  BY Zenon, <1>3, <1>4
<1> QED
  BY Zenon, <1>1, <1>2, <1>5 DEF Between

\* A file without cut records can be read, and reading it from an index on is taking
\* the entries above the one before.
LEMMA ReadWhole ==
    ASSUME NEW l \in Seq(LogEntry), Consecutive(l), NEW from \in Nat
    PROVE  /\ Readable(l)
           /\ ReadEntries(l, from + 1) = Between(l, from, LastIndexOf(l))
<1>1. \A e \in LogEntry : ~IsCut(e)
  BY Zenon DEF LogEntry, IsCut
<1>2. Readable(l)
  BY <1>1 DEF Readable
<1>3. ASSUME NEW e \in Range(l) PROVE ~IsCut(e) /\ e.index >= from + 1 <=> e.index > from /\ e.index <= LastIndexOf(l)
  <2>1. PICK i \in 1..Len(l) : e = l[i]
    BY DEF Range
  <2>2. e \in LogEntry /\ l # <<>>
    BY <2>1
  <2>3. ~IsCut(e)
    BY Zenon, <1>1, <2>2
  <2>4. e.index = l[1].index + i - 1
    BY Zenon, <2>1 DEF Consecutive
  <2>5. l[1].index \in Nat /\ LastIndexOf(l) = l[1].index + Len(l) - 1
    BY Zenon, <2>2, LastOf
  <2> QED
    BY <2>3, <2>4, <2>5
<1>4. {e \in Range(l) : ~IsCut(e) /\ e.index >= from + 1}
        = {e \in Range(l) : e.index > from /\ e.index <= LastIndexOf(l)}
  BY Zenon, <1>3
<1> QED
  BY Zenon, <1>2, <1>4 DEF ReadEntries, Between

----------------------------------------------------------------------------
(* The state machine: what a command changes, and what a list of them computes *)

----------------------------------------------------------------------------
(* The state machine *)

\* A command leaves a state a state.
LEMMA ApplyState ==
    ASSUME NEW c \in Cmd, NEW s \in State
    PROVE  Apply(s, c) \in State
<1>1. c.value \in Values /\ None \in Values
  BY Zenon DEF Values
<1>2. CASE c.type = "pool"
  <2>1. PICK f : f = [s.pools EXCEPT ![c.name] = c.value]
    BY Zenon
  <2>2. f \in [Item -> Values]
    BY Zenon, <1>1, <2>1 DEF State
  <2>3. Apply(s, c) = [version |-> s.version + 1, pools |-> f, users |-> s.users, backends |-> s.backends]
    BY Zenon, <1>2, <2>1 DEF Apply, applyPoolConfigUpdate, State
  <2> QED
    BY <2>2, <2>3 DEF State
<1>3. CASE c.type = "user"
  <2>1. PICK f : f = [s.users EXCEPT ![c.name] = c.value]
    BY Zenon
  <2>2. f \in [Item -> Values]
    BY Zenon, <1>1, <2>1 DEF State
  <2>3. Apply(s, c) = [version |-> s.version + 1, pools |-> s.pools, users |-> f, backends |-> s.backends]
    BY Zenon, <1>3, <2>1 DEF Apply, applyUserUpdate, State
  <2> QED
    BY <2>2, <2>3 DEF State
<1>4. CASE c.type = "userDelete"
  <2>1. PICK f : f = [s.users EXCEPT ![c.name] = None]
    BY Zenon
  <2>2. f \in [Item -> Values]
    BY Zenon, <1>1, <2>1 DEF State
  <2>3. Apply(s, c) = [version |-> s.version + 1, pools |-> s.pools, users |-> f, backends |-> s.backends]
    BY Zenon, <1>4, <2>1 DEF Apply, applyUserDelete, State
  <2> QED
    BY <2>2, <2>3 DEF State
<1>5. CASE c.type = "detach"
  <2>1. PICK f : f = [s.backends EXCEPT ![c.name] = IF @ = None THEN None ELSE "detached"]
    BY Zenon
  <2>2. f \in [Item -> {None}]
    BY Zenon, <1>1, <2>1 DEF State
  <2>3. Apply(s, c) = [version |-> s.version + 1, pools |-> s.pools, users |-> s.users, backends |-> f]
    BY Zenon, <1>5, <2>1 DEF Apply, applyBackendDetach, State
  <2> QED
    BY <2>2, <2>3 DEF State
<1>6. CASE c.type = "attach"
  <2>1. PICK f : f = [s.backends EXCEPT ![c.name] = IF @ = None THEN None ELSE "active"]
    BY Zenon
  <2>2. f \in [Item -> {None}]
    BY Zenon, <1>1, <2>1 DEF State
  <2>3. Apply(s, c) = [version |-> s.version + 1, pools |-> s.pools, users |-> s.users, backends |-> f]
    BY Zenon, <1>6, <2>1 DEF Apply, applyBackendAttach, State
  <2> QED
    BY <2>2, <2>3 DEF State
<1>7. CASE c.type \notin {"pool", "user", "userDelete", "detach", "attach"}
  BY <1>1, <1>7 DEF Apply, State
<1> QED
  BY Zenon, <1>2, <1>3, <1>4, <1>5, <1>6, <1>7

\* A command sets a part of the state to a value, the same in every state, or leaves
\* it alone in every state.
LEMMA ApplyParts ==
    ASSUME NEW c \in Cmd, NEW s \in State, NEW t \in State, NEW n \in Item
    PROVE  /\ \/ Apply(s, c).pools[n] = Apply(t, c).pools[n]
              \/ Apply(s, c).pools[n] = s.pools[n] /\ Apply(t, c).pools[n] = t.pools[n]
           /\ \/ Apply(s, c).users[n] = Apply(t, c).users[n]
              \/ Apply(s, c).users[n] = s.users[n] /\ Apply(t, c).users[n] = t.users[n]
<1>2. CASE c.type = "pool"
  BY Zenon, <1>2 DEF Apply, applyPoolConfigUpdate, State
<1>3. CASE c.type = "user"
  BY Zenon, <1>3 DEF Apply, applyUserUpdate, State
<1>4. CASE c.type = "userDelete"
  BY Zenon, <1>4 DEF Apply, applyUserDelete, State
<1>5. CASE c.type = "detach"
  BY Zenon, <1>5 DEF Apply, applyBackendDetach, State
<1>6. CASE c.type = "attach"
  BY Zenon, <1>6 DEF Apply, applyBackendAttach, State
<1>7. CASE c.type \notin {"pool", "user", "userDelete", "detach", "attach"}
  BY Zenon, <1>7 DEF Apply, State
<1> QED
  BY Zenon, <1>2, <1>3, <1>4, <1>5, <1>6, <1>7

\* The loop over the commands ends, with one state for each round.
LEMMA ApplyRounds ==
    ASSUME NEW s, NEW cs \in Seq(Cmd)
    PROVE  \E f : /\ f[0] = s
                  /\ \A i \in 1..Len(cs) : f[i] = Apply(f[i - 1], cs[i])
                  /\ ApplyAll(s, cs) = f[Len(cs)]
<1> DEFINE Is(f, k) == f = [i \in 0..k |-> IF i = 0 THEN s ELSE Apply(f[i - 1], cs[i])]
           S == {k \in Nat : \E f : Is(f, k)}
<1>1. 0 \in S
  <2>1. Is([i \in 0..0 |-> s], 0)
    OBVIOUS
  <2> QED
    BY Zenon, <2>1
<1>2. ASSUME NEW k \in Nat, k \in S PROVE k + 1 \in S
  <2>1. PICK f : Is(f, k)
    BY Zenon, <1>2
  <2> DEFINE g == [i \in 0..(k + 1) |-> IF i = k + 1 THEN Apply(f[k], cs[k + 1]) ELSE f[i]]
  <2>2. Is(g, k + 1)
    <3> DEFINE h == [i \in 0..(k + 1) |-> IF i = 0 THEN s ELSE Apply(g[i - 1], cs[i])]
    <3>1. ASSUME NEW i \in 0..(k + 1) PROVE g[i] = h[i]
      <4>1. CASE i = 0
        BY <2>1, <4>1
      <4>2. CASE i \in 1..k
        <5>1. g[i] = f[i] /\ g[i - 1] = f[i - 1]
          BY <4>2
        <5>2. f[i] = Apply(f[i - 1], cs[i])
          BY <2>1, <4>2
        <5> QED
          BY <4>2, <5>1, <5>2
      <4>3. CASE i = k + 1
        BY <4>3
      <4> QED
        BY <4>1, <4>2, <4>3
    <3> QED
      BY Zenon, <3>1
  <2> HIDE DEF g
  <2>3. \E x : Is(x, k + 1)
    BY Zenon, <2>2
  <2> HIDE DEF Is
  <2> QED
    BY <2>3
<1>3. Len(cs) \in S
  <2> HIDE DEF S
  <2>1. Nat \subseteq S
    BY Zenon, <1>1, <1>2, NaturalInduction
  <2> QED
    BY <2>1
<1>4. PICK f : f = CHOOSE g : Is(g, Len(cs))
  BY Zenon
<1>5. Is(f, Len(cs))
  BY Zenon, <1>3, <1>4
<1>6. ApplyAll(s, cs) = f[Len(cs)]
  BY Zenon, <1>4 DEF ApplyAll
<1>7. f[0] = s /\ \A i \in 1..Len(cs) : f[i] = Apply(f[i - 1], cs[i])
  BY <1>5
<1> QED
  BY Zenon, <1>6, <1>7

\* The states after each number of commands, in one loop over all of them.
LEMMA ApplySteps ==
    ASSUME NEW s \in State, NEW cs \in Seq(Cmd)
    PROVE  \E f : /\ f[0] = s
                  /\ \A i \in 1..Len(cs) : f[i] = Apply(f[i - 1], cs[i])
                  /\ \A m \in 0..Len(cs) : f[m] \in State /\ f[m] = ApplyAll(s, SubSeq(cs, 1, m))
                  /\ ApplyAll(s, cs) = f[Len(cs)]
<1>1. PICK f : /\ f[0] = s
               /\ \A i \in 1..Len(cs) : f[i] = Apply(f[i - 1], cs[i])
               /\ ApplyAll(s, cs) = f[Len(cs)]
  BY Zenon, ApplyRounds
<1>2. ASSUME NEW m \in 0..Len(cs) PROVE f[m] = ApplyAll(s, SubSeq(cs, 1, m))
  <2>1. PICK ds : ds = SubSeq(cs, 1, m)
    BY Zenon
  <2>2. ds \in Seq(Cmd) /\ Len(ds) = m /\ \A i \in 1..m : ds[i] = cs[i]
    BY <2>1
  <2>3. PICK g : /\ g[0] = s
                 /\ \A i \in 1..Len(ds) : g[i] = Apply(g[i - 1], ds[i])
                 /\ ApplyAll(s, ds) = g[Len(ds)]
    BY Zenon, <2>2, ApplyRounds
  <2> DEFINE K == {k \in Nat : k <= m => f[k] = g[k]}
  <2>4. 0 \in K
    BY Zenon, <1>1, <2>3
  <2>5. ASSUME NEW k \in Nat, k \in K PROVE k + 1 \in K
    <3> SUFFICES ASSUME k + 1 <= m PROVE f[k + 1] = g[k + 1]
      OBVIOUS
    <3>1. k + 1 \in 1..m /\ k + 1 \in 1..Len(cs) /\ (k + 1) - 1 = k
      OBVIOUS
    <3>2. f[k + 1] = Apply(f[k], cs[k + 1])
      BY Zenon, <1>1, <3>1
    <3>3. g[k + 1] = Apply(g[k], ds[k + 1])
      BY Zenon, <2>2, <2>3, <3>1
    <3>4. f[k] = g[k] /\ ds[k + 1] = cs[k + 1]
      BY <2>2, <2>5, <3>1
    <3> QED
      BY Zenon, <3>2, <3>3, <3>4
  <2>6. Nat \subseteq K
    <3> HIDE DEF K
    <3> QED
      BY Zenon, <2>4, <2>5, NaturalInduction
  <2>7. f[m] = g[m]
    BY <2>6
  <2> QED
    BY Zenon, <2>1, <2>2, <2>3, <2>7
<1> DEFINE S == {k \in Nat : k <= Len(cs) => f[k] \in State}
<1>3. 0 \in S
  BY Zenon, <1>1
<1>4. ASSUME NEW k \in Nat, k \in S PROVE k + 1 \in S
  <2> SUFFICES ASSUME k + 1 <= Len(cs) PROVE f[k + 1] \in State
    OBVIOUS
  <2>1. k + 1 \in 1..Len(cs) /\ (k + 1) - 1 = k /\ f[k] \in State /\ cs[k + 1] \in Cmd
    BY <1>4
  <2>2. f[k + 1] = Apply(f[k], cs[k + 1])
    BY Zenon, <1>1, <2>1
  <2> QED
    BY Zenon, <2>1, <2>2, ApplyState
<1>5. Nat \subseteq S
  <2> HIDE DEF S
  <2> QED
    BY Zenon, <1>3, <1>4, NaturalInduction
<1>6. \A m \in 0..Len(cs) : f[m] \in State
  BY <1>5
<1> QED
  BY Zenon, <1>1, <1>2, <1>6

\* The states after the prefixes of some commands, one from the other.
LEMMA AfterSteps ==
    ASSUME NEW cs \in Seq(Cmd)
    PROVE  /\ After(cs, 0) = InitState /\ ApplyAll(InitState, cs) = After(cs, Len(cs))
           /\ \A i \in 1..Len(cs) : After(cs, i) = Apply(After(cs, i - 1), cs[i])
           /\ \A m \in 0..Len(cs) : After(cs, m) \in State
<1>1. InitState \in State
  BY Zenon DEF InitState, State, Values
<1>2. PICK f : /\ f[0] = InitState
               /\ \A i \in 1..Len(cs) : f[i] = Apply(f[i - 1], cs[i])
               /\ \A m \in 0..Len(cs) : f[m] \in State /\ f[m] = ApplyAll(InitState, SubSeq(cs, 1, m))
               /\ ApplyAll(InitState, cs) = f[Len(cs)]
  BY Zenon, <1>1, ApplySteps
<1>3. \A m \in 0..Len(cs) : f[m] = After(cs, m) /\ f[m] \in State
  BY Zenon, <1>2 DEF After
<1>4. 0 \in 0..Len(cs) /\ Len(cs) \in 0..Len(cs) /\ \A i \in 1..Len(cs) : i \in 0..Len(cs) /\ i - 1 \in 0..Len(cs)
  OBVIOUS
<1> QED
  BY Zenon, <1>2, <1>3, <1>4

\* Applying the next command, or one before it, leaves every part of the state as it was
\* after that command or after a later one.
LEMMA ReachedApply ==
    ASSUME NEW cs \in Seq(Cmd), NEW x, NEW a \in Nat, Reached(x, a, cs),
           NEW i \in 1..Len(cs), i <= a + 1
    PROVE  Reached(Apply(x, cs[i]), i, cs)
<1>1. cs[i] \in Cmd /\ x \in State
  BY DEF Reached
<1>2. PICK before, after : before = After(cs, i - 1) /\ after = After(cs, i)
  BY Zenon
<1>3. before \in State /\ after = Apply(before, cs[i])
  <2>1. i \in 0..Len(cs) /\ i - 1 \in 0..Len(cs)
    OBVIOUS
  <2> QED
    BY Zenon, <1>2, <2>1, AfterSteps
<1>4. PICK y : y = Apply(x, cs[i])
  BY Zenon
<1>5. y \in State
  BY Zenon, <1>1, <1>4, ApplyState
<1>6. ASSUME NEW n \in Item PROVE \E m \in i..Len(cs) : y.pools[n] = After(cs, m).pools[n]
  <2>1. PICK m \in a..Len(cs) : x.pools[n] = After(cs, m).pools[n]
    BY Zenon DEF Reached
  <2>2. \/ y.pools[n] = after.pools[n]
        \/ y.pools[n] = x.pools[n] /\ after.pools[n] = before.pools[n]
    BY Zenon, <1>1, <1>3, <1>4, ApplyParts
  <2>3. CASE y.pools[n] = after.pools[n]
    BY <1>2, <2>3
  <2>4. CASE y.pools[n] = x.pools[n] /\ after.pools[n] = before.pools[n]
    <3>1. m >= i \/ m = i - 1
      OBVIOUS
    <3>2. CASE m >= i
      BY <2>1, <2>4, <3>2
    <3>3. CASE m = i - 1
      <4>1. y.pools[n] = after.pools[n]
        BY Zenon, <1>2, <2>1, <2>4, <3>3
      <4> QED
        BY <1>2, <4>1
    <3> QED
      BY Zenon, <3>1, <3>2, <3>3
  <2> QED
    BY Zenon, <2>2, <2>3, <2>4
<1>7. ASSUME NEW n \in Item PROVE \E m \in i..Len(cs) : y.users[n] = After(cs, m).users[n]
  <2>1. PICK m \in a..Len(cs) : x.users[n] = After(cs, m).users[n]
    BY Zenon DEF Reached
  <2>2. \/ y.users[n] = after.users[n]
        \/ y.users[n] = x.users[n] /\ after.users[n] = before.users[n]
    BY Zenon, <1>1, <1>3, <1>4, ApplyParts
  <2>3. CASE y.users[n] = after.users[n]
    BY <1>2, <2>3
  <2>4. CASE y.users[n] = x.users[n] /\ after.users[n] = before.users[n]
    <3>1. m >= i \/ m = i - 1
      OBVIOUS
    <3>2. CASE m >= i
      BY <2>1, <2>4, <3>2
    <3>3. CASE m = i - 1
      <4>1. y.users[n] = after.users[n]
        BY Zenon, <1>2, <2>1, <2>4, <3>3
      <4> QED
        BY <1>2, <4>1
    <3> QED
      BY Zenon, <3>1, <3>2, <3>3
  <2> QED
    BY Zenon, <2>2, <2>3, <2>4
<1>8. Reached(y, i, cs)
  BY Zenon, <1>5, <1>6, <1>7 DEF Reached
<1> QED
  BY Zenon, <1>4, <1>8

\* Further commands do not change what was reached.
LEMMA ReachedMore ==
    ASSUME NEW cs \in Seq(Cmd), NEW ds \in Seq(Cmd), Len(cs) <= Len(ds),
           \A i \in 1..Len(cs) : ds[i] = cs[i], NEW x, NEW a \in Nat, Reached(x, a, cs)
    PROVE  Reached(x, a, ds)
<1>1. ASSUME NEW m \in a..Len(cs) PROVE After(ds, m) = After(cs, m) /\ m \in a..Len(ds)
  <2>1. PICK p, q : p = SubSeq(cs, 1, m) /\ q = SubSeq(ds, 1, m)
    BY Zenon
  <2>2. p \in Seq(Cmd) /\ q \in Seq(Cmd) /\ Len(p) = m /\ Len(q) = m
    BY <2>1
  <2>3. \A i \in 1..m : p[i] = q[i]
    BY <2>1
  <2>4. p = q
    BY <2>2, <2>3
  <2>5. After(ds, m) = After(cs, m)
    BY Zenon, <2>1, <2>4 DEF After
  <2> QED
    BY <2>5
<1> QED
  BY Zenon, <1>1 DEF Reached

\* The initial state is what no command has reached.
LEMMA ReachedInit ==
    ASSUME NEW cs \in Seq(Cmd)
    PROVE  Reached(InitState, 0, cs)
<1>1. InitState \in State
  BY Zenon DEF InitState, State, Values
<1>2. 0 \in 0..Len(cs) /\ After(cs, 0) = InitState
  BY AfterSteps
<1> QED
  BY Zenon, <1>1, <1>2 DEF Reached

\* A state that every command has reached is the one they make.
LEMMA ReachedAll ==
    ASSUME NEW cs \in Seq(Cmd), NEW x, NEW a \in Nat, a >= Len(cs), Reached(x, a, cs)
    PROVE  Contents(x) = Contents(ApplyAll(InitState, cs))
<1>1. PICK y : y = ApplyAll(InitState, cs)
  BY Zenon
<1>2. Len(cs) \in 0..Len(cs)
  OBVIOUS
<1>3. y = After(cs, Len(cs)) /\ y \in State /\ x \in State
  BY Zenon, <1>1, <1>2, AfterSteps DEF Reached
<1>4. \A m \in a..Len(cs) : m = Len(cs)
  OBVIOUS
<1>5. \A n \in Item : x.pools[n] = y.pools[n] /\ x.users[n] = y.users[n]
  BY Zenon, <1>3, <1>4 DEF Reached
<1>6. x.pools = y.pools /\ x.users = y.users /\ x.backends = y.backends
  BY <1>3, <1>5 DEF State
<1> QED
  BY Zenon, <1>1, <1>6 DEF Contents

\* Replaying commands from one that is not beyond the next.
LEMMA ReachedReplay ==
    ASSUME NEW cs \in Seq(Cmd), NEW s, NEW a \in Nat, Reached(s, a, cs),
           NEW b \in Nat \ {0}, b <= a + 1, NEW ds \in Seq(Cmd), b + Len(ds) - 1 <= Len(cs),
           \A j \in 1..Len(ds) : ds[j] = cs[b + j - 1]
    PROVE  Reached(ApplyAll(s, ds), IF Len(ds) = 0 THEN a ELSE b + Len(ds) - 1, cs)
<1>1. s \in State
  BY Zenon DEF Reached
<1>2. PICK f : /\ f[0] = s
               /\ \A i \in 1..Len(ds) : f[i] = Apply(f[i - 1], ds[i])
               /\ ApplyAll(s, ds) = f[Len(ds)]
  BY <1>1, ApplySteps
<1> DEFINE To(k) == IF k = 0 THEN a ELSE b + k - 1
           S == {k \in Nat : k <= Len(ds) => Reached(f[k], To(k), cs)}
<1>3. 0 \in S
  BY Zenon, <1>2
<1>4. ASSUME NEW k \in Nat, k \in S PROVE k + 1 \in S
  <2> SUFFICES ASSUME k + 1 <= Len(ds) PROVE Reached(f[k + 1], To(k + 1), cs)
    OBVIOUS
  <2>1. k + 1 \in 1..Len(ds) /\ (k + 1) - 1 = k /\ b + k \in 1..Len(cs) /\ b + (k + 1) - 1 = b + k
    OBVIOUS
  <2>2. f[k + 1] = Apply(f[k], cs[b + k])
    <3>1. f[k + 1] = Apply(f[k], ds[k + 1])
      BY Zenon, <1>2, <2>1
    <3>2. ds[k + 1] = cs[b + k]
      BY Zenon, <2>1
    <3> QED
      BY Zenon, <3>1, <3>2
  <2>3. PICK t : t = To(k)
    BY Zenon
  <2>4. t \in Nat /\ b + k <= t + 1 /\ To(k + 1) = b + k
    BY <2>3
  <2>5. Reached(f[k], t, cs)
    BY <1>4, <2>3
  <2>6. Reached(Apply(f[k], cs[b + k]), b + k, cs)
    BY Zenon, <2>1, <2>4, <2>5, ReachedApply
  <2> QED
    BY Zenon, <2>2, <2>4, <2>6
<1>5. Len(ds) \in S
  <2> HIDE DEF S
  <2>1. Nat \subseteq S
    BY Zenon, <1>3, <1>4, NaturalInduction
  <2> QED
    BY <2>1
<1> QED
  BY <1>2, <1>5

----------------------------------------------------------------------------
(* The queue of entries to apply, and the log as it grows *)

----------------------------------------------------------------------------
(* What is on its way to the state machine *)

\* An entry may be put at the end of a chain.
LEMMA ChainAppend ==
    ASSUME NEW l \in Seq(LogEntry), NEW e \in LogEntry, NEW a \in Nat, Chain(l, a),
           e.index <= End(l, a) + 1
    PROVE  Chain(Append(l, e), a) /\ End(Append(l, e), a) = e.index
<1>1. PICK r, n : r = Append(l, e) /\ n = Len(l)
  BY Zenon
<1>2. /\ n \in Nat /\ r \in Seq(LogEntry) /\ Len(r) = n + 1 /\ r[n + 1] = e
      /\ \A i \in 1..n : r[i] = l[i]
  BY <1>1
<1>3. r # <<>> /\ End(r, a) = e.index
  BY <1>2 DEF End
<1>4. ASSUME NEW i \in 1..(n + 1) PROVE r[i].index <= 1 + IF i = 1 THEN a ELSE r[i - 1].index
  <2>1. CASE i \in 1..n
    <3>1. i # 1 => i - 1 \in 1..n
      BY <1>2, <2>1
    <3>2. r[i] = l[i] /\ (i # 1 => r[i - 1] = l[i - 1])
      BY Zenon, <1>2, <2>1, <3>1
    <3>3. l[i].index <= 1 + IF i = 1 THEN a ELSE l[i - 1].index
      BY Zenon, <1>1, <2>1 DEF Chain
    <3> QED
      BY Zenon, <3>2, <3>3
  <2>2. CASE i = n + 1 /\ n = 0
    <3>1. l = <<>>
      <4>1. Len(l) = 0
        BY Zenon, <1>1, <2>2
      <4> QED
        BY <4>1
    <3>2. e.index <= a + 1
      BY Zenon, <3>1 DEF End
    <3>3. i = 1 /\ r[i] = e /\ e.index \in Nat
      BY <1>2, <2>2 DEF LogEntry
    <3> QED
      BY <3>2, <3>3
  <2>3. CASE i = n + 1 /\ n # 0
    <3>1. l # <<>> /\ n \in 1..n
      BY <1>1, <1>2, <2>3
    <3>2. e.index <= l[n].index + 1
      BY Zenon, <1>1, <3>1 DEF End
    <3>3. i # 1 /\ i - 1 = n /\ r[i] = e /\ r[n] = l[n]
      BY <1>2, <2>3, <3>1
    <3>4. e.index \in Nat /\ l[n].index \in Nat
      <4>1. l[n] \in LogEntry
        BY <1>1, <3>1
      <4> QED
        BY Zenon, <4>1 DEF LogEntry
    <3> QED
      BY <3>2, <3>3, <3>4
  <2> QED
    BY <1>2, <2>1, <2>2, <2>3
<1> QED
  BY Zenon, <1>1, <1>2, <1>3, <1>4 DEF Chain

\* The first entry of a chain may be taken.
LEMMA ChainTail ==
    ASSUME NEW l \in Seq(LogEntry), l # <<>>, NEW a \in Nat, Chain(l, a)
    PROVE  /\ Head(l) \in LogEntry /\ Tail(l) \in Seq(LogEntry) /\ Head(l).index <= a + 1
           /\ Chain(Tail(l), Head(l).index) /\ End(Tail(l), Head(l).index) = End(l, a)
<1>1. PICK r, n : r = Tail(l) /\ n = Len(l)
  BY Zenon
<1>2. /\ n \in Nat /\ n > 0 /\ r \in Seq(LogEntry) /\ Len(r) = n - 1 /\ Head(l) = l[1]
      /\ \A i \in 1..(n - 1) : r[i] = l[i + 1]
  BY <1>1
<1>3. 1 \in 1..n /\ l[1] \in LogEntry
  BY <1>1, <1>2
<1>4. l[1].index <= 1 + a /\ l[1].index \in Nat
  <2>1. l[1].index <= 1 + a
    BY Zenon, <1>1, <1>3 DEF Chain
  <2> QED
    BY Zenon, <1>3, <2>1 DEF LogEntry
<1>5. ASSUME NEW i \in 1..(n - 1) PROVE r[i].index <= 1 + IF i = 1 THEN l[1].index ELSE r[i - 1].index
  <2>1. i + 1 \in 1..n /\ i + 1 # 1 /\ (i + 1) - 1 = i /\ (i # 1 => i - 1 \in 1..(n - 1) /\ (i - 1) + 1 = i)
    BY <1>2
  <2>2. l[i + 1].index <= 1 + l[i].index
    BY Zenon, <1>1, <2>1 DEF Chain
  <2>3. r[i] = l[i + 1] /\ (i # 1 => r[i - 1] = l[i])
    BY Zenon, <1>2, <2>1
  <2> QED
    BY Zenon, <2>2, <2>3
<1>6. Chain(r, l[1].index)
  BY Zenon, <1>2, <1>5 DEF Chain
<1>7. End(r, l[1].index) = End(l, a)
  <2>1. CASE n = 1
    <3>1. r = <<>>
      BY <1>2, <2>1
    <3> QED
      BY Zenon, <1>1, <2>1, <3>1 DEF End
  <2>2. CASE n # 1
    <3>1. r # <<>> /\ n - 1 \in 1..(n - 1) /\ (n - 1) + 1 = n
      BY <1>2, <2>2
    <3>2. r[n - 1] = l[n]
      BY Zenon, <1>2, <3>1
    <3> QED
      BY Zenon, <1>1, <1>2, <3>1, <3>2 DEF End
  <2> QED
    BY Zenon, <2>1, <2>2
<1> QED
  BY <1>1, <1>2, <1>3, <1>4, <1>6, <1>7

\* Entries that follow each other are a chain.
LEMMA ChainConsecutive ==
    ASSUME NEW l \in Seq(LogEntry), Consecutive(l), NEW a \in Nat, l # <<>> => l[1].index <= a + 1
    PROVE  Chain(l, a)
<1> SUFFICES ASSUME NEW i \in 1..Len(l) PROVE l[i].index <= 1 + IF i = 1 THEN a ELSE l[i - 1].index
  BY Zenon DEF Chain
<1>1. l # <<>> /\ l[1] \in LogEntry
  OBVIOUS
<1>2. l[1].index \in Nat
  BY Zenon, <1>1 DEF LogEntry
<1>3. CASE i = 1
  BY <1>1, <1>2, <1>3
<1>4. CASE i # 1
  <2>1. i - 1 \in 1..Len(l)
    BY <1>4
  <2>2. l[i].index = l[1].index + i - 1 /\ l[i - 1].index = l[1].index + (i - 1) - 1
    BY Zenon, <2>1 DEF Consecutive
  <2> QED
    BY <1>2, <1>4, <2>2
<1> QED
  BY Zenon, <1>3, <1>4

\* An entry with the next index at the end of a list without a gap.
LEMMA ConsecutiveAppend ==
    ASSUME NEW l \in Seq(LogEntry), Consecutive(l), NEW e \in LogEntry,
           l # <<>> => e.index = LastIndexOf(l) + 1
    PROVE  LET r == Append(l, e) IN
           /\ r \in Seq(LogEntry) /\ r # <<>> /\ Consecutive(r) /\ LastIndexOf(r) = e.index
           /\ r[1] = IF l = <<>> THEN e ELSE l[1]
<1>1. PICK r, n : r = Append(l, e) /\ n = Len(l)
  BY Zenon
<1>2. /\ n \in Nat /\ r \in Seq(LogEntry) /\ Len(r) = n + 1 /\ r[n + 1] = e
      /\ \A i \in 1..n : r[i] = l[i]
  BY <1>1
<1>3. r # <<>> /\ LastIndexOf(r) = e.index /\ e.index \in Nat
  BY <1>2 DEF LastIndexOf, LogEntry
<1>4. CASE l = <<>>
  <2>1. n = 0 /\ r[1] = e
    BY <1>1, <1>2, <1>4
  <2>2. \A i \in 1..Len(r) : i = 1
    BY <1>2, <2>1
  <2>3. Consecutive(r)
    BY <1>3, <2>1, <2>2 DEF Consecutive
  <2> QED
    BY Zenon, <1>1, <1>2, <1>3, <1>4, <2>1, <2>3
<1>5. CASE l # <<>>
  <2>1. n > 0 /\ l[1].index \in Nat /\ LastIndexOf(l) = l[1].index + n - 1
    BY <1>1, <1>5, LastOf
  <2>2. r[1] = l[1] /\ e.index = l[1].index + n
    BY <1>2, <1>5, <2>1
  <2>3. ASSUME NEW i \in 1..(n + 1) PROVE r[i].index = r[1].index + i - 1
    <3>1. CASE i \in 1..n
      BY Zenon, <1>1, <1>2, <2>2, <3>1 DEF Consecutive
    <3>2. CASE i = n + 1
      BY <1>2, <2>1, <2>2, <3>2
    <3> QED
      BY <1>2, <3>1, <3>2
  <2>4. Consecutive(r)
    BY Zenon, <1>2, <2>3 DEF Consecutive
  <2> QED
    BY Zenon, <1>1, <1>2, <1>3, <1>5, <2>2, <2>4
<1> QED
  BY Zenon, <1>4, <1>5

\* An entry that is not committed agrees with the committed commands.
LEMMA AgreesAppend ==
    ASSUME NEW l \in Seq(LogEntry), NEW e \in LogEntry, NEW cs \in Seq(Cmd), Agrees(l, cs),
           e.index > Len(cs)
    PROVE  Agrees(Append(l, e), cs)
<1>1. PICK r, n : r = Append(l, e) /\ n = Len(l)
  BY Zenon
<1>2. /\ n \in Nat /\ r \in Seq(LogEntry) /\ Len(r) = n + 1 /\ r[n + 1] = e
      /\ \A i \in 1..n : r[i] = l[i]
  BY <1>1
<1>3. ASSUME NEW i \in 1..(n + 1), r[i].index <= Len(cs) PROVE r[i].cmd = cs[r[i].index]
  <2>1. CASE i \in 1..n
    BY Zenon, <1>1, <1>2, <1>3, <2>1 DEF Agrees
  <2>2. CASE i = n + 1
    <3>1. e.index <= Len(cs) /\ e.index \in Nat /\ Len(cs) \in Nat
      BY <1>2, <1>3, <2>2 DEF LogEntry
    <3> QED
      BY <3>1
  <2> QED
    BY <1>2, <2>1, <2>2
<1> QED
  BY Zenon, <1>1, <1>2, <1>3 DEF Agrees

\* An entry is put at the end of the file and behind a beginning p of the log.
LEMMA StoreFile ==
    ASSUME NEW w \in Seq(LogEntry), NEW l \in Seq(LogEntry), NEW p \in Seq(LogEntry),
           NEW e \in LogEntry, NEW n \in Nat, NEW t \in Nat,
           Len(p) <= Len(l), \A k \in 1..Len(p) : p[k] = l[k] /\ p[k].index < e.index,
           p = <<>> /\ l # <<>> => e.index = l[1].index,
           n < e.index, e.term <= t, ~In(e, w), Ordered(w, l), Stamped(w, p, t)
    PROVE  /\ Ordered(Append(w, e), Append(p, e)) /\ Stamped(Append(w, e), Append(p, e), t)
           /\ \A f \in 0..n : Kept(w, l, n, f) => Kept(Append(w, e), Append(p, e), n, f)
<1>1. PICK v, q, m, o : v = Append(w, e) /\ q = Append(p, e) /\ m = Len(w) /\ o = Len(p)
  BY Zenon
<1>2. /\ m \in Nat /\ Len(v) = m + 1 /\ v[m + 1] = e /\ \A i \in 1..m : v[i] = w[i]
      /\ o \in Nat /\ Len(q) = o + 1 /\ q[o + 1] = e /\ \A i \in 1..o : q[i] = p[i]
  BY <1>1
<1>3. /\ \A i \in 1..(m + 1) : i \in 1..m \/ i = m + 1
      /\ \A i \in 1..(o + 1) : i \in 1..o \/ i = o + 1
      /\ \A i \in 1..m : i \in 1..(m + 1)
      /\ \A i \in 1..o : i \in 1..(o + 1) /\ i \in 1..Len(l)
      /\ m + 1 \in 1..(m + 1) /\ o + 1 \in 1..(o + 1)
  BY <1>1, <1>2
<1>4. e.index \in Nat /\ ~(e.index < e.index)
  BY DEF LogEntry
<1>5. \A x : In(x, v) <=> In(x, w) \/ x = e
  BY Zenon, <1>1, <1>2, <1>3 DEF In
<1>6. \A x : In(x, q) <=> In(x, p) \/ x = e
  BY Zenon, <1>1, <1>2, <1>3 DEF In
<1>7. \A x : In(x, p) => In(x, l) /\ x.index < e.index
  BY Zenon, <1>1, <1>3 DEF In
<1>8. ASSUME NEW i \in 1..m PROVE v[i] = w[i] /\ v[i] # e
  BY Zenon, <1>1, <1>2 DEF In
<1>9. Ordered(v, q)
  <2>1. ASSUME NEW i \in 1..(m + 1), NEW j \in 1..(m + 1), i < j, In(v[i], q), In(v[j], q)
        PROVE  v[i].index < v[j].index
    <3>1. i \in 1..m
      BY <1>2, <2>1
    <3>2. In(v[i], p)
      BY Zenon, <1>6, <1>8, <2>1, <3>1
    <3>3. CASE j = m + 1
      BY Zenon, <1>2, <1>7, <3>2, <3>3
    <3>4. CASE j \in 1..m
      <4>1. In(v[j], p)
        BY Zenon, <1>6, <1>8, <2>1, <3>4
      <4>2. In(w[i], l) /\ In(w[j], l)
        BY Zenon, <1>7, <1>8, <3>1, <3>2, <3>4, <4>1
      <4> QED
        BY Zenon, <1>1, <1>8, <2>1, <3>1, <3>4, <4>2 DEF Ordered
    <3> QED
      BY Zenon, <1>3, <3>3, <3>4
  <2> QED
    BY Zenon, <1>2, <2>1 DEF Ordered
<1>10. Stamped(v, q, t)
  <2>1. ASSUME NEW i \in 1..(m + 1) PROVE v[i].term <= t /\ (In(v[i], q) \/ v[i].term < t)
    <3>1. CASE i \in 1..m
      BY Zenon, <1>1, <1>2, <1>6, <3>1 DEF Stamped
    <3>2. CASE i = m + 1
      BY Zenon, <1>2, <1>6, <3>2
    <3> QED
      BY Zenon, <1>3, <3>1, <3>2
  <2> QED
    BY Zenon, <1>2, <2>1 DEF Stamped
<1>11. ASSUME NEW f \in 0..n, Kept(w, l, n, f) PROVE Kept(v, q, n, f)
  <2>1. e.index > f
    BY <1>4
  <2>2. ASSUME NEW k \in 1..(o + 1) PROVE q[k].index > f <=> In(q[k], v)
    <3>1. CASE k \in 1..o
      <4>1. q[k] = l[k] /\ k \in 1..Len(l) /\ q[k] # e
        BY Zenon, <1>1, <1>2, <1>3, <1>4, <3>1
      <4>2. l[k].index > f <=> In(l[k], w)
        BY Zenon, <1>11, <4>1 DEF Kept
      <4> QED
        BY Zenon, <1>5, <4>1, <4>2
    <3>2. CASE k = o + 1
      BY Zenon, <1>2, <1>5, <2>1, <3>2
    <3> QED
      BY Zenon, <1>3, <3>1, <3>2
  <2>3. ASSUME f < n PROVE q # <<>> /\ q[1].index <= f + 1
    <3>1. l # <<>> /\ l[1].index <= f + 1
      BY Zenon, <1>11, <2>3 DEF Kept
    <3>2. q # <<>>
      BY <1>2
    <3>3. CASE p = <<>>
      <4>1. q[1] = e
        BY <1>1, <1>2, <3>3
      <4> QED
        BY Zenon, <3>1, <3>2, <3>3, <4>1
    <3>4. CASE p # <<>>
      <4>1. 1 \in 1..o
        BY <1>1, <1>2, <3>4
      <4>2. q[1] = l[1]
        BY Zenon, <1>1, <1>2, <4>1
      <4> QED
        BY Zenon, <3>1, <3>2, <4>2
    <3> QED
      BY Zenon, <3>3, <3>4
  <2> QED
    BY Zenon, <1>2, <2>2, <2>3 DEF Kept
<1> QED
  BY Zenon, <1>1, <1>9, <1>10, <1>11

\* What agrees with the committed commands in one list does in the other.
LEMMA WithinAgrees ==
    ASSUME NEW w, NEW l, NEW cs, Within(w, l), Agrees(l, cs)
    PROVE  Agrees(w, cs)
BY DEF Within, In, Agrees

\* Two sequences of commands, one after the other.
LEMMA Concatenated ==
    ASSUME NEW s \in Seq(Cmd), NEW t \in Seq(Cmd)
    PROVE  /\ s \o t \in Seq(Cmd) /\ Len(s \o t) = Len(s) + Len(t)
           /\ \A j \in 1..Len(t) : (s \o t)[Len(s) + j] = t[j]
OBVIOUS

\* Commands that extend some others up to the index c, with those of a log.
Extends(ds, cs, l, c) ==
    /\ ds \in Seq(Cmd) /\ Len(ds) = IF c > Len(cs) THEN c ELSE Len(cs)
    /\ \A i \in 1..Len(cs) : ds[i] = cs[i]
    /\ Agrees(l, ds)

\* That is what an advance of the commit index to c does.
LEMMA CommitMore ==
    ASSUME NEW l \in Seq(LogEntry), Consecutive(l), l # <<>>, NEW cs \in Seq(Cmd), Agrees(l, cs),
           l[1].index <= Len(cs) + 1, NEW c \in Nat, c <= LastIndexOf(l)
    PROVE  Extends(cs \o Cmds(Between(l, Len(cs), c)), cs, l, c)
<1>0. PICK ds : ds = cs \o Cmds(Between(l, Len(cs), c))
  BY Zenon
<1>1. PICK n \in Nat, b \in Nat, y \in Nat : /\ n = Len(cs) /\ b = l[1].index /\ y = LastIndexOf(l)
  BY LastOf
<1>2. PICK d : d = Between(l, n, c)
  BY Zenon
<1>3. PICK a \in Nat, z \in Nat : Slice(d, l, n, c, a, z)
  BY Zenon, <1>2, BetweenWindow
<1>4. a = n + 1 /\ z = c
  <2>1. /\ a = IF n < b THEN b ELSE n + 1
        /\ z = IF c < y THEN c ELSE y
    BY Zenon, <1>1, <1>3 DEF Slice
  <2> QED
    BY <1>1, <2>1
<1>5. PICK m \in Nat : m = Len(d) /\ m = IF c > n THEN c - n ELSE 0
  <2>1. d \in Seq(LogEntry) /\ Len(d) = IF a <= z THEN z - a + 1 ELSE 0
    BY Zenon, <1>3 DEF Slice
  <2>2. (IF a <= z THEN z - a + 1 ELSE 0) = IF c > n THEN c - n ELSE 0
    BY <1>4
  <2>3. Len(d) \in Nat /\ Len(d) = IF c > n THEN c - n ELSE 0
    BY <2>1, <2>2
  <2> QED
    BY Zenon, <2>3
<1>6. PICK es : es = Cmds(d)
  BY Zenon
<1>7. es \in Seq(Cmd) /\ Len(es) = m /\ \A j \in 1..m : es[j] = d[j].cmd
  <2>1. es = [j \in 1..m |-> d[j].cmd]
    BY <1>3, <1>5, <1>6 DEF Cmds, Slice
  <2>2. \A j \in 1..m : d[j].cmd \in Cmd
    <3>1. \A j \in 1..m : d[j] \in LogEntry
      BY <1>3, <1>5 DEF Slice
    <3> QED
      BY Zenon, <3>1 DEF LogEntry
  <2> QED
    BY <2>1, <2>2
<1>8. ds = cs \o es
  BY Zenon, <1>0, <1>1, <1>2, <1>6
<1>9. /\ ds \in Seq(Cmd) /\ Len(ds) = n + m
      /\ \A i \in 1..n : ds[i] = cs[i]
      /\ \A j \in 1..m : ds[n + j] = es[j]
  <2>1. ds \in Seq(Cmd) /\ Len(ds) = n + m
    <3>1. Len(cs \o es) = Len(cs) + Len(es) /\ cs \o es \in Seq(Cmd)
      BY Zenon, <1>7, Concatenated
    <3> QED
      BY Zenon, <1>1, <1>7, <1>8, <3>1
  <2>2. \A i \in 1..n : ds[i] = cs[i]
    BY <1>1, <1>7, <1>8
  <2>3. ASSUME NEW j \in 1..m PROVE ds[n + j] = es[j]
    BY Zenon, <1>1, <1>7, <1>8, Concatenated
  <2> QED
    BY Zenon, <2>1, <2>2, <2>3
<1>10. Len(ds) = IF c > n THEN c ELSE n
  BY <1>5, <1>9
<1>11. ASSUME NEW i \in 1..Len(l), l[i].index <= Len(ds) PROVE l[i].cmd = ds[l[i].index]
  <2>1. PICK k : k = l[i].index
    BY Zenon
  <2>2. k = b + i - 1
    BY Zenon, <1>1, <2>1 DEF Consecutive
  <2>3. k \in Nat \ {0} /\ k <= n + m
    <3>1. l[i] \in LogEntry
      OBVIOUS
    <3> QED
      BY Zenon, <1>9, <1>11, <2>1, <3>1 DEF LogEntry
  <2>4. CASE k <= n
    BY <1>1, <1>9, <2>1, <2>3, <2>4 DEF Agrees
  <2>5. CASE k > n
    <3>1. PICK j \in 1..m : j = k - n
      BY <2>3, <2>5
    <3>2. d[j] = l[a - b + j]
      BY Zenon, <1>1, <1>3, <1>5, <3>1 DEF Slice
    <3>3. a - b + j = i
      BY <1>4, <2>2, <3>1
    <3>4. n + j = k
      BY <2>3, <3>1
    <3>5. ds[n + j] = l[i].cmd
      BY Zenon, <1>7, <1>9, <3>1, <3>2, <3>3
    <3> QED
      BY Zenon, <2>1, <3>4, <3>5
  <2>6. k <= n \/ k > n
    BY <2>3
  <2> QED
    BY Zenon, <2>4, <2>5, <2>6
<1>12. Extends(ds, cs, l, c)
  BY Zenon, <1>1, <1>9, <1>10, <1>11 DEF Agrees, Extends
<1> QED
  BY Zenon, <1>0, <1>12

----------------------------------------------------------------------------
(* The log and the snapshots: the steps *)

----------------------------------------------------------------------------
(* RaftStorage: the steps *)

\* The last index of a list of entries is a number.
LEMMA LastNatural == \A l \in Seq(LogEntry) : LastIndexOf(l) \in Nat
<1> SUFFICES ASSUME NEW l \in Seq(LogEntry) PROVE LastIndexOf(l) \in Nat
  BY Zenon
<1>1. CASE l = <<>>
  BY Zenon, <1>1 DEF LastIndexOf
<1>2. CASE l # <<>>
  <2>1. l[Len(l)] \in LogEntry
    BY <1>2
  <2> QED
    BY Zenon, <1>2, <2>1 DEF LastIndexOf, LogEntry
<1> QED
  BY Zenon, <1>1, <1>2

\* What the steps that add an entry have in common: it has the next index after a beginning
\* p of the log, and is not committed.
LEMMA StoreGood ==
    ASSUME StorageGood, NEW p \in Seq(LogEntry), NEW e \in LogEntry, Store(p, e), term' \in Nat,
           Len(p) <= Len(logEntries), \A k \in 1..Len(p) : p[k] = logEntries[k],
           p # <<>> => e.index = LastIndexOf(p) + 1,
           p = <<>> /\ logEntries # <<>> => e.index = logEntries[1].index,
           logEntries = <<>> => e.index = 1 /\ Len(committed) = 0,
           e.index > Len(committed), e.term <= term', ~In(e, wal), Stamped(wal, p, term')
    PROVE  StorageGood'
<1> USE DEF StorageGood
<1>1. /\ logEntries' = Append(p, e) /\ wal' = Append(wal, e) /\ proposals' = proposals + 1
      /\ UNCHANGED <<snaps, commitIndex, lastApplied, lastSnapshotIndex, applyCh, sending,
                     taken, fsm, pc, committed>>
  BY Zenon DEF Store
<1>2. /\ logEntries \in Seq(LogEntry) /\ wal \in Seq(LogEntry) /\ committed \in Seq(Cmd)
      /\ lastSnapshotIndex \in Nat /\ lastApplied \in Nat /\ Len(committed) \in Nat /\ term \in Nat
  BY DEF StorageTypes
<1>3. p # <<>> => 1 \in 1..Len(p) /\ 1 \in 1..Len(logEntries) /\ logEntries # <<>>
  BY <1>2
<1>4. \A i \in 1..Len(p) : i \in 1..Len(logEntries) /\ p # <<>>
  BY <1>2
<1>5. Consecutive(p) /\ Agrees(p, committed)
  BY Zenon, <1>3, <1>4 DEF LogInv, Consecutive, Agrees
<1>6. PICK l, w : l = logEntries' /\ w = wal'
  BY Zenon
<1>7. /\ l \in Seq(LogEntry) /\ l # <<>> /\ Consecutive(l) /\ LastIndexOf(l) = e.index
      /\ l[1] = IF p = <<>> THEN e ELSE p[1]
  BY Zenon, <1>1, <1>5, <1>6, ConsecutiveAppend
<1>8. l[1].index = IF logEntries = <<>> THEN 1 ELSE logEntries[1].index
  BY Zenon, <1>3, <1>7
<1>9. Agrees(l, committed)
  BY Zenon, <1>1, <1>2, <1>5, <1>6, AgreesAppend
<1>10. \A k \in 1..Len(p) : p[k] = logEntries[k] /\ p[k].index < e.index
  <2>1. ASSUME NEW k \in 1..Len(p) PROVE p[k].index < e.index
    <3>1. p[1].index \in Nat /\ LastIndexOf(p) = p[1].index + Len(p) - 1
      BY Zenon, <1>4, <1>5, LastOf
    <3>2. p[k].index = p[1].index + k - 1
      BY Zenon, <1>5 DEF Consecutive
    <3>3. e.index = LastIndexOf(p) + 1
      BY Zenon, <1>4
    <3> QED
      BY <3>1, <3>2, <3>3
  <2> QED
    BY Zenon, <2>1
<1>11. PICK n \in Nat, t \in Nat : n = Len(committed) /\ t = term'
  BY Zenon, <1>2
<1>12. n < e.index /\ n <= e.index /\ e.index \in Nat
  <2>1. e.index \in Nat
    BY Zenon DEF LogEntry
  <2> QED
    BY <1>11, <2>1
<1>13. Ordered(wal, logEntries)
  BY Zenon DEF FileInv
<1>14. /\ Ordered(w, l) /\ Stamped(w, l, t)
       /\ \A f \in 0..n : Kept(wal, logEntries, n, f) => Kept(w, l, n, f)
  BY Zenon, <1>1, <1>2, <1>6, <1>10, <1>11, <1>12, <1>13, StoreFile
<1>15. StorageTypes'
  <2>1. w \in Seq(LogEntry)
    BY <1>1, <1>2, <1>6
  <2>2. proposals + 1 \in Nat
    BY DEF StorageTypes
  <2> QED
    BY Zenon, <1>1, <1>6, <1>7, <2>1, <2>2 DEF StorageTypes
<1>16. LogInv'
  <2>1. l[1].index <= n + 1
    BY <1>8, <1>11 DEF LogInv
  <2>2. lastApplied > 0 => l[1].index <= lastApplied
    BY Zenon, <1>8 DEF LogInv
  <2>3. lastApplied = 0 => l[1].index <= lastSnapshotIndex + 1
    BY <1>2, <1>8 DEF LogInv
  <2> QED
    BY Zenon, <1>1, <1>6, <1>7, <1>9, <1>11, <1>12, <2>1, <2>2, <2>3 DEF LogInv
<1>17. FileInv'
  <2>1. PICK f \in 0..n : Kept(wal, logEntries, n, f) /\ Saved(f)
    BY Zenon, <1>11 DEF FileInv
  <2>2. Kept(w, l, n, f) /\ Saved(f)'
    BY Zenon, <1>1, <1>14, <2>1 DEF Saved
  <2> QED
    BY Zenon, <1>1, <1>6, <1>11, <1>14, <2>2 DEF FileInv
<1>18. SnapInv'
  BY Zenon, <1>1 DEF SnapInv
<1>19. FsmInv'
  BY Zenon, <1>1 DEF FsmInv, Base
<1>20. QueueInv'
  <2>1. \A x : Queued(x) => Queued(x)'
    BY Zenon, <1>1, <1>6, <1>7, <1>8 DEF Queued
  <2> QED
    BY Zenon, <1>1, <2>1 DEF QueueInv, Taken, Base
<1> QED
  BY Zenon, <1>15, <1>16, <1>17, <1>18, <1>19, <1>20

\* A proposal gets the index after the last one, and nothing that was committed has it.
LEMMA ProposeGood ==
    ASSUME StorageGood, NEW c \in Cmd, Propose(c), excuse' = {}
    PROVE  StorageGood'
<1> USE DEF StorageGood
<1>1. PICK e : e = [index |-> LastIndexOf(logEntries) + 1, term |-> term, cmd |-> c]
  BY Zenon
<1>2. Store(logEntries, e) /\ ~(e.index <= lastSnapshotIndex) /\ term' = term
  BY Zenon, <1>1 DEF Propose
<1>3. LastIndexOf(logEntries) \in Nat
  BY Zenon, LastNatural DEF StorageTypes
<1>4. e \in LogEntry /\ e.index = LastIndexOf(logEntries) + 1 /\ e.term = term
  BY <1>1, <1>3 DEF LogEntry, StorageTypes
<1>5. /\ logEntries \in Seq(LogEntry) /\ wal \in Seq(LogEntry) /\ committed \in Seq(Cmd)
      /\ lastSnapshotIndex \in Nat /\ Len(committed) \in Nat /\ term \in Nat
      /\ Len(logEntries) \in Nat
  BY DEF StorageTypes
<1>6. logEntries = <<>> => e.index = 1 /\ Len(committed) = 0
  <2>1. logEntries = <<>> => LastIndexOf(logEntries) = 0
    BY Zenon DEF LastIndexOf
  <2>2. logEntries = <<>> => lastSnapshotIndex = 0
    BY <1>2, <1>4, <1>5, <2>1
  <2> QED
    BY <1>4, <1>5, <2>1, <2>2 DEF LogInv
<1>7. e.index > Len(committed)
  BY <1>3, <1>4, <1>5, <1>6 DEF LogInv
<1>8. ~In(e, logEntries)
  <2> SUFFICES ASSUME NEW j \in 1..Len(logEntries), e = logEntries[j] PROVE FALSE
    BY Zenon DEF In
  <2>1. logEntries # <<>> /\ Consecutive(logEntries)
    BY <1>5 DEF LogInv
  <2>2. logEntries[1].index \in Nat /\ LastIndexOf(logEntries) = logEntries[1].index + Len(logEntries) - 1
    BY Zenon, <1>5, <2>1, LastOf
  <2>3. logEntries[j].index = logEntries[1].index + j - 1
    BY Zenon, <2>1 DEF Consecutive
  <2> QED
    BY <1>4, <1>5, <2>2, <2>3
<1>9. Stamped(wal, logEntries, term)
  BY Zenon DEF FileInv
<1>10. ~In(e, wal)
  <2> SUFFICES ASSUME NEW i \in 1..Len(wal), e = wal[i] PROVE FALSE
    BY Zenon DEF In
  <2>1. In(e, logEntries) \/ e.term < term
    BY Zenon, <1>9 DEF Stamped
  <2>2. ~(term < term)
    BY <1>5
  <2> QED
    BY Zenon, <1>4, <1>8, <2>1, <2>2
<1>11. e.term <= term /\ Len(logEntries) <= Len(logEntries)
  BY <1>4, <1>5
<1> QED
  BY Zenon, <1>2, <1>4, <1>5, <1>6, <1>7, <1>9, <1>10, <1>11, StoreGood

\* An entry of a new leader takes the place of one that is not committed.
LEMMA ReplaceGood ==
    ASSUME StorageGood, NEW c \in Cmd, NEW k \in DOMAIN logEntries, Replace(k, c), excuse' = {}
    PROVE  StorageGood'
<1> USE DEF StorageGood
<1>1. PICK e, p : /\ e = [index |-> logEntries[k].index, term |-> term + 1, cmd |-> c]
                  /\ p = SubSeq(logEntries, 1, k - 1)
  BY Zenon
<1>2. Store(p, e) /\ ~(e.index <= Len(committed)) /\ term' = term + 1
  BY Zenon, <1>1 DEF Replace
<1>3. /\ logEntries \in Seq(LogEntry) /\ wal \in Seq(LogEntry) /\ committed \in Seq(Cmd)
      /\ Len(committed) \in Nat /\ term \in Nat /\ k \in 1..Len(logEntries)
      /\ logEntries # <<>> /\ Consecutive(logEntries)
  BY DEF StorageTypes, LogInv
<1>4. logEntries[k] \in LogEntry
  BY <1>3
<1>5. e \in LogEntry /\ e.index = logEntries[k].index /\ e.term = term + 1
  <2>1. logEntries[k].index \in Nat \ {0}
    BY Zenon, <1>4 DEF LogEntry
  <2> QED
    BY <1>1, <1>3, <2>1 DEF LogEntry
<1>6. /\ p \in Seq(LogEntry) /\ Len(p) = k - 1 /\ Len(p) <= Len(logEntries)
      /\ \A i \in 1..Len(p) : p[i] = logEntries[i]
  BY <1>1, <1>3
<1>7. e.index > Len(committed)
  <2>1. e.index \in Nat
    BY Zenon, <1>5 DEF LogEntry
  <2> QED
    BY <1>2, <1>3, <2>1
<1>8. logEntries[1].index \in Nat /\ logEntries[k].index = logEntries[1].index + k - 1
  BY Zenon, <1>3, LastOf DEF Consecutive
<1>9. p # <<>> => e.index = LastIndexOf(p) + 1
  <2>1. p # <<>> => k - 1 \in 1..Len(p) /\ k - 1 \in 1..Len(logEntries)
    BY <1>3, <1>6
  <2>2. p # <<>> => LastIndexOf(p) = logEntries[k - 1].index
    BY Zenon, <1>6, <2>1 DEF LastIndexOf
  <2>3. p # <<>> => logEntries[k - 1].index = logEntries[1].index + (k - 1) - 1
    BY Zenon, <1>3, <2>1 DEF Consecutive
  <2> QED
    BY <1>3, <1>5, <1>8, <2>2, <2>3
<1>10. p = <<>> => e.index = logEntries[1].index
  <2>1. p = <<>> => k = 1
    BY <1>3, <1>6
  <2> QED
    BY Zenon, <1>5, <2>1
<1>11. \A i \in 1..Len(wal) : wal[i].term \in Nat /\ wal[i].term <= term
  <2>1. \A i \in 1..Len(wal) : wal[i] \in LogEntry
    BY <1>3
  <2> QED
    BY Zenon, <2>1 DEF LogEntry, FileInv, Stamped
<1>12. \A i \in 1..Len(wal) : wal[i].term < term + 1 /\ wal[i].term <= term + 1 /\ wal[i].term # term + 1
  BY <1>3, <1>11
<1>13. Stamped(wal, p, term') /\ ~In(e, wal)
  BY Zenon, <1>2, <1>5, <1>12 DEF Stamped, In
<1>14. e.term <= term' /\ term' \in Nat
  BY <1>2, <1>3, <1>5
<1> QED
  BY Zenon, <1>2, <1>3, <1>5, <1>6, <1>7, <1>9, <1>10, <1>13, <1>14, StoreGood

\* An entry goes from the goroutine that sends to the channel.
LEMMA SendGood ==
    ASSUME StorageGood, SendEntry, excuse' = {}
    PROVE  StorageGood'
<1> USE DEF StorageGood
<1>1. /\ sending # <<>> /\ sending' = Tail(sending) /\ applyCh' = Append(applyCh, Head(sending))
      /\ UNCHANGED <<wal, snaps, logEntries, commitIndex, lastApplied, lastSnapshotIndex, taken,
                     fsm, pc, term, committed, proposals>>
  BY Zenon DEF SendEntry, diskVars
<1>2. PICK e, a, b : e = Head(sending) /\ a = Taken /\ b = End(applyCh, Taken)
  BY Zenon
<1>3. applyCh \in Seq(LogEntry) /\ sending \in Seq(LogEntry)
  BY Zenon DEF StorageTypes
<1>4. a \in Nat /\ b \in Nat
  <2>1. a \in Nat
    BY Zenon, <1>2 DEF Taken, Base, StorageTypes, LogEntry
  <2>2. applyCh # <<>> => applyCh[Len(applyCh)] \in LogEntry
    BY <1>3
  <2> QED
    BY Zenon, <1>2, <2>1, <2>2 DEF End, LogEntry
<1>5. /\ e \in LogEntry /\ Tail(sending) \in Seq(LogEntry) /\ e.index <= b + 1
      /\ Chain(Tail(sending), e.index) /\ End(Tail(sending), e.index) = End(sending, b)
  BY Zenon, <1>1, <1>2, <1>3, <1>4, ChainTail DEF QueueInv
<1>6. Chain(Append(applyCh, e), a) /\ End(Append(applyCh, e), a) = e.index
  BY Zenon, <1>2, <1>3, <1>4, <1>5, ChainAppend DEF QueueInv
<1>7. Taken' = a /\ \A x : Queued(x)' <=> Queued(x)
  BY Zenon, <1>1, <1>2 DEF Taken, Base, Queued
<1>8. StorageTypes'
  <2>1. Append(applyCh, e) \in Seq(LogEntry)
    BY <1>3, <1>5
  <2> QED
    BY Zenon, <1>1, <1>2, <1>5, <2>1 DEF StorageTypes
<1>9. QueueInv'
  <2>1. PICK p, q : p = applyCh' /\ q = sending'
    BY Zenon
  <2>2. Chain(p, Taken') /\ End(p, Taken') = e.index /\ Chain(q, e.index) /\ End(q, e.index) = commitIndex
    BY Zenon, <1>1, <1>2, <1>5, <1>6, <1>7, <2>1 DEF QueueInv
  <2>3. \A i \in DOMAIN q : Queued(q[i])'
    <3>1. \A i \in DOMAIN q : i + 1 \in DOMAIN sending /\ q[i] = sending[i + 1]
      BY <1>1, <1>3, <2>1
    <3> QED
      BY Zenon, <1>7, <3>1 DEF QueueInv
  <2>4. \A i \in DOMAIN p : Queued(p[i])'
    <3>1. 1 \in DOMAIN sending /\ e = sending[1]
      BY <1>1, <1>2, <1>3
    <3>2. \A i \in DOMAIN p : (i \in DOMAIN applyCh /\ p[i] = applyCh[i]) \/ p[i] = e
      BY <1>1, <1>2, <1>3, <2>1
    <3> QED
      BY Zenon, <1>7, <3>1, <3>2 DEF QueueInv
  <2>5. pc' = "apply" => (Queued(taken) /\ taken.index <= Base + 1)'
    BY Zenon, <1>1, <1>7 DEF QueueInv, Base
  <2> QED
    BY Zenon, <1>1, <2>1, <2>2, <2>3, <2>4, <2>5 DEF QueueInv
<1> QED
  BY Zenon, <1>1, <1>8, <1>9 DEF LogInv, FileInv, Saved, SnapInv, FsmInv, Base

\* The apply goroutine takes the next entry.
LEMMA TakeGood ==
    ASSUME StorageGood, TakeEntry
    PROVE  StorageGood'
<1> USE DEF StorageGood
<1>1. /\ pc = "take" /\ applyCh # <<>> /\ taken' = Head(applyCh) /\ applyCh' = Tail(applyCh)
      /\ pc' = "apply"
      /\ UNCHANGED <<wal, snaps, logEntries, commitIndex, lastApplied, lastSnapshotIndex, sending,
                     fsm, term, committed, proposals, excuse>>
  BY Zenon DEF TakeEntry, diskVars, histVars
<1>2. PICK e, a : e = Head(applyCh) /\ a = Base
  BY Zenon
<1>3. applyCh \in Seq(LogEntry) /\ sending \in Seq(LogEntry) /\ a \in Nat /\ Taken = a
  BY Zenon, <1>1, <1>2 DEF StorageTypes, Base, Taken
<1>4. /\ e \in LogEntry /\ Tail(applyCh) \in Seq(LogEntry) /\ e.index <= a + 1
      /\ Chain(Tail(applyCh), e.index) /\ End(Tail(applyCh), e.index) = End(applyCh, a)
  BY Zenon, <1>1, <1>2, <1>3, ChainTail DEF QueueInv
<1>5. Taken' = e.index /\ Base' = a /\ \A x : Queued(x)' <=> Queued(x)
  BY Zenon, <1>1, <1>2 DEF Taken, Base, Queued
<1>6. StorageTypes'
  BY Zenon, <1>1, <1>2, <1>4 DEF StorageTypes
<1>7. QueueInv'
  <2>1. PICK p : p = applyCh'
    BY Zenon
  <2>2. /\ Chain(p, Taken') /\ Chain(sending, End(p, Taken'))
        /\ End(sending, End(p, Taken')) = commitIndex
    BY Zenon, <1>1, <1>2, <1>3, <1>4, <1>5, <2>1 DEF QueueInv
  <2>3. \A i \in DOMAIN p : Queued(p[i])'
    <3>1. \A i \in DOMAIN p : i + 1 \in DOMAIN applyCh /\ p[i] = applyCh[i + 1]
      BY <1>1, <1>3, <2>1
    <3> QED
      BY Zenon, <1>5, <3>1 DEF QueueInv
  <2>4. Queued(e)'
    <3>1. 1 \in DOMAIN applyCh /\ e = applyCh[1]
      BY <1>1, <1>2, <1>3
    <3> QED
      BY Zenon, <1>5, <3>1 DEF QueueInv
  <2>5. (Queued(taken) /\ taken.index <= Base + 1)'
    BY Zenon, <1>1, <1>2, <1>4, <1>5, <2>4 DEF Queued
  <2>6. \A i \in DOMAIN sending' : Queued(sending[i])'
    BY Zenon, <1>1, <1>5 DEF QueueInv, Queued
  <2> QED
    BY Zenon, <1>1, <2>1, <2>2, <2>3, <2>5, <2>6 DEF QueueInv
<1> QED
  BY Zenon, <1>1, <1>6, <1>7 DEF LogInv, FileInv, Saved, SnapInv, FsmInv, Base

\* The commit index advances.
LEMMA AdvanceGood ==
    ASSUME StorageGood, AdvanceCommit
    PROVE  StorageGood'
<1> USE DEF StorageGood
<1>1. PICK c \in (commitIndex + 1)..LastIndexOf(logEntries) :
          /\ sending = <<>> /\ commitIndex' = c /\ sending' = Due(c)
          /\ committed' = committed \o Cmds(Between(logEntries, Len(committed), c))
          /\ UNCHANGED <<wal, snaps, logEntries, lastApplied, lastSnapshotIndex, applyCh, taken, fsm,
                         pc, term, proposals, excuse>>
  BY Zenon DEF AdvanceCommit, diskVars
<1>2. /\ logEntries \in Seq(LogEntry) /\ committed \in Seq(Cmd) /\ commitIndex \in Nat
      /\ lastApplied \in Nat /\ applyCh \in Seq(LogEntry) /\ wal \in Seq(LogEntry)
      /\ snaps \in Seq(Snapshot) /\ LastIndexOf(logEntries) \in Nat
  BY Zenon, LastNatural DEF StorageTypes
<1>3. c \in Nat /\ c > commitIndex /\ c <= LastIndexOf(logEntries) /\ c > 0
  BY <1>1, <1>2
<1>4. logEntries # <<>>
  BY <1>3 DEF LastIndexOf
<1>5. PICK l, cs, ds : l = logEntries /\ cs = committed /\ ds = committed'
  BY Zenon
<1>6. /\ Consecutive(l) /\ l # <<>> /\ l \in Seq(LogEntry) /\ cs \in Seq(Cmd) /\ Agrees(l, cs)
      /\ l[1].index <= Len(cs) + 1 /\ Len(cs) <= LastIndexOf(l) /\ c <= LastIndexOf(l)
  BY Zenon, <1>2, <1>3, <1>4, <1>5 DEF LogInv
<1>7. /\ ds \in Seq(Cmd) /\ Len(ds) = IF c > Len(cs) THEN c ELSE Len(cs)
      /\ \A i \in 1..Len(cs) : ds[i] = cs[i]
      /\ Agrees(l, ds)
  <2>1. ds = cs \o Cmds(Between(l, Len(cs), c))
    BY Zenon, <1>1, <1>5
  <2> QED
    BY Zenon, <1>3, <1>6, <2>1, CommitMore DEF Extends
<1>8. PICK b \in Nat, y \in Nat : b = l[1].index /\ y = LastIndexOf(l)
  BY Zenon, <1>6, LastOf
<1>9. Len(ds) \in Nat /\ Len(cs) \in Nat /\ Len(cs) <= Len(ds) /\ c <= Len(ds) /\ Len(ds) <= y
  BY <1>3, <1>6, <1>7, <1>8
<1>10. \A x, a : a \in Nat /\ Reached(x, a, cs) => Reached(x, a, ds)
  BY Zenon, <1>6, <1>7, <1>9, ReachedMore
<1>11. PICK s : s = sending'
  BY Zenon
<1>12. PICK a \in Nat, z \in Nat : Slice(s, l, lastApplied, c, a, z)
  BY Zenon, <1>1, <1>2, <1>3, <1>5, <1>6, <1>11, BetweenWindow DEF Due
<1>13. /\ a = (IF lastApplied < b THEN b ELSE lastApplied + 1) /\ z = c
       /\ s \in Seq(LogEntry) /\ Len(s) = (IF a <= c THEN c - a + 1 ELSE 0)
       /\ \A j \in 1..Len(s) : /\ a - b + j \in 1..Len(l)
                               /\ s[j] = l[a - b + j] /\ s[j].index = a + j - 1
  <2>1. /\ a = (IF lastApplied < b THEN b ELSE lastApplied + 1)
        /\ z = (IF c < y THEN c ELSE y)
        /\ s \in Seq(LogEntry) /\ Len(s) = IF a <= z THEN z - a + 1 ELSE 0
        /\ \A j \in 1..Len(s) : /\ a - b + j \in 1..Len(l)
                                /\ s[j] = l[a - b + j] /\ s[j].index = a + j - 1
    BY Zenon, <1>8, <1>12 DEF Slice
  <2>2. z = c
    BY <1>6, <1>8, <2>1
  <2> QED
    BY Zenon, <2>1, <2>2
<1>14. StorageTypes'
  BY Zenon, <1>1, <1>3, <1>5, <1>7, <1>11, <1>13 DEF StorageTypes
<1>15. LogInv' /\ FileInv'
  <2>1. b <= Len(ds) + 1
    BY <1>6, <1>8, <1>9
  <2>2. LogInv'
    BY Zenon, <1>1, <1>4, <1>5, <1>7, <1>8, <1>9, <2>1 DEF LogInv
  <2>3. PICK f \in 0..Len(cs) : Kept(wal, l, Len(cs), f) /\ Saved(f)
    BY Zenon, <1>5 DEF FileInv
  <2>4. f \in 0..Len(ds)
    BY <1>9
  <2>5. ASSUME f < Len(ds) PROVE b <= f + 1
    <3>1. CASE f < Len(cs)
      BY Zenon, <1>8, <2>3, <3>1 DEF Kept
    <3>2. CASE ~(f < Len(cs))
      BY <1>6, <1>8, <1>9, <3>2
    <3> QED
      BY Zenon, <3>1, <3>2
  <2>6. Kept(wal, l, Len(ds), f)
    BY Zenon, <1>6, <1>8, <2>3, <2>5 DEF Kept
  <2>7. Saved(f)'
    BY Zenon, <1>1, <2>3 DEF Saved
  <2>8. FileInv'
    BY Zenon, <1>1, <1>5, <2>4, <2>6, <2>7 DEF FileInv
  <2> QED
    BY Zenon, <2>2, <2>8
<1>16. SnapInv'
  <2>1. ASSUME NEW i \in DOMAIN snaps
        PROVE  snaps[i].index <= Len(ds) /\ Reached(snaps[i].state, snaps[i].index, ds)
    <3>1. snaps[i] \in Snapshot
      BY <1>2
    <3>2. snaps[i].index \in Nat
      BY Zenon, <3>1 DEF Snapshot
    <3>3. snaps[i].index <= Len(cs) /\ Reached(snaps[i].state, snaps[i].index, cs)
      BY Zenon, <1>5 DEF SnapInv
    <3> QED
      BY <1>9, <1>10, <3>2, <3>3
  <2> QED
    BY Zenon, <1>1, <1>5, <2>1 DEF SnapInv
<1>17. FsmInv'
  <2>1. Base \in Nat /\ Base <= Len(cs) /\ Reached(fsm, Base, cs) /\ Base' = Base
    BY Zenon, <1>1, <1>5 DEF FsmInv, Base, StorageTypes
  <2>2. lastApplied <= c
    BY <1>2, <1>3 DEF FsmInv
  <2>3. Base <= Len(ds)
    BY <1>9, <2>1
  <2>4. Reached(fsm, Base, ds)
    BY Zenon, <1>10, <2>1
  <2> QED
    BY Zenon, <1>1, <1>5, <1>9, <2>1, <2>2, <2>3, <2>4 DEF FsmInv
<1>18. QueueInv'
  <2>1. ASSUME NEW x \in LogEntry, Queued(x) PROVE Queued(x)'
    <3>1. x.index \in Nat \ {0} /\ x.index <= commitIndex /\ x.cmd = cs[x.index]
      BY Zenon, <1>5, <2>1 DEF LogEntry, Queued
    <3>2. commitIndex <= Len(cs)
      BY Zenon, <1>5 DEF FsmInv
    <3>3. x.index \in 1..Len(cs) /\ x.index <= c
      BY <1>2, <1>3, <1>9, <3>1, <3>2
    <3>4. x.cmd = ds[x.index]
      BY Zenon, <1>7, <3>1, <3>3
    <3> QED
      BY Zenon, <1>1, <1>5, <2>1, <3>3, <3>4 DEF Queued
  <2>2. ASSUME NEW j \in 1..Len(s) PROVE Queued(s[j])'
    <3>1. PICK i \in 1..Len(l) : s[j] = l[i] /\ s[j].index = a + j - 1
      BY Zenon, <1>13
    <3>2. b <= s[j].index /\ s[j].index <= c
      <4>1. b <= a
        <5>1. a = IF lastApplied < b THEN b ELSE lastApplied + 1
          BY Zenon, <1>13
        <5> QED
          BY <1>2, <5>1
      <4>2. Len(s) = (IF a <= c THEN c - a + 1 ELSE 0) /\ s \in Seq(LogEntry)
        BY Zenon, <1>13
      <4>3. j <= c - a + 1
        BY <1>3, <4>2
      <4> QED
        BY <1>3, <3>1, <4>1, <4>3
    <3>3. s[j].index <= Len(ds)
      <4>0. s \in Seq(LogEntry)
        BY Zenon, <1>13
      <4>1. s[j] \in LogEntry
        BY <4>0
      <4>2. s[j].index \in Nat
        BY Zenon, <4>1 DEF LogEntry
      <4> QED
        BY <1>3, <1>9, <3>2, <4>2
    <3>4. s[j].cmd = ds[s[j].index]
      BY Zenon, <1>7, <3>1, <3>3 DEF Agrees
    <3> QED
      BY Zenon, <1>1, <1>4, <1>5, <1>8, <3>2, <3>4 DEF Queued
  <2>3. PICK e : e = End(applyCh, Taken)
    BY Zenon
  <2>4. e \in Nat /\ Taken' = Taken
    <3>1. Taken \in Nat
      BY Zenon DEF Taken, Base, StorageTypes, LogEntry
    <3>2. applyCh # <<>> => applyCh[Len(applyCh)] \in LogEntry
      BY <1>2
    <3> QED
      BY Zenon, <1>1, <2>3, <3>1, <3>2 DEF End, LogEntry, Taken, Base
  <2>5. pc = "apply" \/ applyCh # <<>> => e = commitIndex /\ b <= commitIndex
    <3>1. pc = "apply" \/ applyCh # <<>> => e = commitIndex
      BY Zenon, <1>1, <2>3 DEF QueueInv, End
    <3>2. ASSUME pc = "apply" PROVE b <= commitIndex
      <4>1. taken \in LogEntry /\ Queued(taken)
        BY Zenon, <3>2 DEF StorageTypes, QueueInv
      <4>2. taken.index \in Nat /\ b <= taken.index /\ taken.index <= commitIndex
        BY Zenon, <1>5, <1>8, <4>1 DEF LogEntry, Queued
      <4> QED
        BY <1>2, <4>2
    <3>3. ASSUME applyCh # <<>> PROVE b <= commitIndex
      <4>1. 1 \in DOMAIN applyCh /\ applyCh[1] \in LogEntry
        BY <1>2, <3>3
      <4>2. Queued(applyCh[1])
        BY Zenon, <4>1 DEF QueueInv
      <4>3. applyCh[1].index \in Nat /\ b <= applyCh[1].index /\ applyCh[1].index <= commitIndex
        BY Zenon, <1>5, <1>8, <4>1, <4>2 DEF LogEntry, Queued
      <4> QED
        BY <1>2, <4>3
    <3> QED
      BY Zenon, <3>1, <3>2, <3>3
  <2>6. ~(pc = "apply" \/ applyCh # <<>>) => e = Base
    BY Zenon, <2>3 DEF End, Taken
  <2>7. a <= e + 1
    <3>1. lastApplied <= commitIndex
      BY Zenon DEF FsmInv
    <3>2. CASE pc = "apply" \/ applyCh # <<>>
      BY <1>2, <1>13, <2>5, <3>1, <3>2
    <3>3. CASE ~(pc = "apply" \/ applyCh # <<>>)
      <4>1. lastApplied > 0 => b <= lastApplied
        BY Zenon, <1>5, <1>8 DEF LogInv
      <4>2. lastApplied = 0 => b <= lastSnapshotIndex + 1
        BY Zenon, <1>4, <1>5, <1>8 DEF LogInv
      <4>3. lastSnapshotIndex \in Nat /\ e = IF lastApplied = 0 THEN lastSnapshotIndex ELSE lastApplied
        BY Zenon, <2>6, <3>3 DEF Base, StorageTypes
      <4> QED
        BY <1>2, <1>13, <4>1, <4>2, <4>3
    <3> QED
      BY Zenon, <3>2, <3>3
  <2>8. s # <<>> => s[1].index = a
    <3>1. s # <<>> => 1 \in 1..Len(s) /\ a + 1 - 1 = a
      BY <1>13
    <3> QED
      BY Zenon, <1>13, <3>1
  <2>9. Consecutive(s)
    BY <1>13, <2>8 DEF Consecutive
  <2>10. Chain(s, e)
    BY <1>13, <2>4, <2>7, <2>8, <2>9, ChainConsecutive
  <2>11. s # <<>> => End(s, e) = c
    <3>1. s # <<>> => Len(s) \in 1..Len(s) /\ Len(s) = c - a + 1
      BY <1>3, <1>13
    <3>2. s # <<>> => s[Len(s)].index = a + (c - a + 1) - 1
      BY Zenon, <1>13, <3>1
    <3> QED
      BY <1>3, <3>2 DEF End
  <2>12. s = <<>> => ~(pc = "apply" \/ applyCh # <<>>)
    <3>1. s = <<>> => ~(a <= c)
      BY <1>3, <1>13
    <3> QED
      BY <1>2, <1>3, <2>5, <2>7, <3>1
  <2>13. PICK p, t : p = applyCh /\ t = taken
    BY Zenon
  <2>14. \A i \in DOMAIN p : Queued(p[i])'
    <3>1. \A i \in DOMAIN p : p[i] \in LogEntry /\ Queued(p[i])
      BY <1>2, <2>13 DEF QueueInv
    <3> QED
      BY Zenon, <2>1, <3>1
  <2>15. pc = "apply" => Queued(t)' /\ t.index <= Base + 1
    <3>1. pc = "apply" => t \in LogEntry /\ Queued(t) /\ t.index <= Base + 1
      BY Zenon, <2>13 DEF QueueInv, StorageTypes
    <3> QED
      BY Zenon, <2>1, <3>1
  <2>16. /\ pc' = pc /\ taken' = t /\ applyCh' = p /\ Base' = Base /\ commitIndex' = c
         /\ sending' = s
    BY Zenon, <1>1, <1>11, <2>13 DEF Base
  <2>17. End(applyCh', Taken') = e /\ Chain(applyCh', Taken')
    BY Zenon, <2>3, <2>4, <2>13, <2>16 DEF QueueInv
  <2>18. DOMAIN s = 1..Len(s)
    BY <1>13
  <2>19. (\A i \in DOMAIN applyCh : Queued(applyCh[i]))'
    BY Zenon, <2>14, <2>16
  <2>20. (\A i \in DOMAIN sending : Queued(sending[i]))'
    BY Zenon, <2>2, <2>16, <2>18
  <2>21. (pc = "apply" => Queued(taken) /\ taken.index <= Base + 1)'
    BY Zenon, <2>15, <2>16
  <2>22. (pc = "apply" \/ applyCh # <<>> \/ sending # <<>>)' => End(s, e) = c
    BY Zenon, <2>11, <2>12, <2>13, <2>16
  <2> QED
    BY Zenon, <2>10, <2>16, <2>17, <2>19, <2>20, <2>21, <2>22 DEF QueueInv
<1> QED
  BY Zenon, <1>14, <1>15, <1>16, <1>17, <1>18

\* The entry is applied: it is the next one, or one that was applied before.
LEMMA ApplyGood ==
    ASSUME StorageGood, ApplyCommitted
    PROVE  StorageGood'
<1> USE DEF StorageGood
<1>1. /\ pc = "apply" /\ fsm' = Apply(fsm, taken.cmd) /\ lastApplied' = taken.index
      /\ pc' \in {"take", "save"}
      /\ UNCHANGED <<wal, snaps, logEntries, commitIndex, lastSnapshotIndex, applyCh, sending,
                     term, committed, proposals, excuse>>
  BY Zenon DEF ApplyCommitted, diskVars, histVars
<1>2. taken \in LogEntry /\ Queued(taken) /\ taken.index <= Base + 1
  BY Zenon, <1>1 DEF StorageTypes, QueueInv
<1>3. PICK i : i = taken.index
  BY Zenon
<1>4. /\ i \in Nat \ {0} /\ i <= commitIndex /\ taken.cmd = committed[i]
      /\ logEntries # <<>> /\ logEntries[1].index <= i
  BY Zenon, <1>2, <1>3 DEF LogEntry, Queued
<1>5. committed \in Seq(Cmd) /\ commitIndex \in Nat /\ Base \in Nat /\ Len(committed) \in Nat
  BY DEF StorageTypes, Base
<1>6. i \in 1..Len(committed) /\ i <= Base + 1
  BY <1>2, <1>3, <1>4, <1>5 DEF FsmInv
<1>7. Reached(fsm', i, committed)
  <2>1. Reached(Apply(fsm, committed[i]), i, committed)
    BY Zenon, <1>5, <1>6, ReachedApply DEF FsmInv
  <2> QED
    BY Zenon, <1>1, <1>4, <2>1
<1>8. Base' = i /\ Taken' = i /\ Taken = i /\ lastApplied' = i
  BY Zenon, <1>1, <1>3, <1>4 DEF Base, Taken
<1>9. StorageTypes'
  <2>1. fsm' \in State
    BY Zenon, <1>7 DEF Reached
  <2> QED
    BY Zenon, <1>1, <1>4, <1>8, <2>1 DEF StorageTypes
<1>10. LogInv' /\ FileInv'
  BY Zenon, <1>1, <1>4, <1>8 DEF LogInv, FileInv, Saved
<1>11. SnapInv'
  BY <1>1, <1>4, <1>8 DEF SnapInv
<1>12. FsmInv'
  <2>1. commitIndex <= Len(committed) /\ i <= Len(committed)
    BY <1>5, <1>6 DEF FsmInv
  <2>2. Reached(fsm', i, committed) /\ i <= commitIndex
    BY Zenon, <1>4, <1>7
  <2>3. Base' = i /\ lastApplied' = i /\ commitIndex' = commitIndex /\ committed' = committed
    BY Zenon, <1>1, <1>8
  <2> QED
    BY Zenon, <2>1, <2>2, <2>3 DEF FsmInv
<1>13. QueueInv'
  <2>1. \A x : Queued(x)' <=> Queued(x)
    BY Zenon, <1>1 DEF Queued
  <2> QED
    BY Zenon, <1>1, <1>8, <2>1 DEF QueueInv, Queued
<1> QED
  BY Zenon, <1>9, <1>10, <1>11, <1>12, <1>13

\* A snapshot of what is applied; it replaces its namesake, and the oldest are deleted.
LEMMA SaveGood ==
    ASSUME StorageGood, SaveSnapshot, excuse' = {}
    PROVE  StorageGood'
<1> USE DEF StorageGood
<1>1. PICK w, k : w = Written(TRUE) /\ k = IF Len(w) > MaxCount THEN Len(w) - MaxCount + 1 ELSE 1
  BY Zenon
<1>2. /\ pc = "save" /\ snaps' = SubSeq(w, k, Len(w)) /\ lastSnapshotIndex' = lastApplied
      /\ pc' = "truncate" /\ ~Rotated(w, snaps')
      /\ UNCHANGED <<wal, logEntries, commitIndex, lastApplied, applyCh, sending, taken, fsm, term,
                     committed, proposals>>
  BY Zenon, <1>1 DEF SaveSnapshot, cleanupOldSnapshots
<1>3. /\ lastApplied \in Nat \ {0} /\ logEntries # <<>> /\ Base = lastApplied
      /\ lastApplied <= Len(committed) /\ Reached(fsm, lastApplied, committed)
  <2>1. lastApplied > 0 /\ lastApplied \in Nat
    BY Zenon, <1>2 DEF SnapInv, StorageTypes
  <2>2. logEntries # <<>> /\ Base = lastApplied
    BY <2>1 DEF LogInv, Base
  <2> QED
    BY <2>1, <2>2 DEF FsmInv
<1>4. /\ logEntries \in Seq(LogEntry) /\ snaps \in Seq(Snapshot) /\ fsm \in State
      /\ Consecutive(logEntries) /\ MaxCount \in Nat \ {0}
  BY Zenon, StorageAssumption DEF StorageTypes, LogInv
<1>5. TermOf(lastApplied) \in Nat
  <2>1. PICK low \in Nat : low = lastApplied - 1
    BY <1>3
  <2>2. PICK at : at = Between(logEntries, lastApplied - 1, lastApplied)
    BY Zenon
  <2>3. PICK a \in Nat, z \in Nat : Slice(at, logEntries, low, lastApplied, a, z)
    BY Zenon, <1>3, <1>4, <2>1, <2>2, BetweenWindow
  <2>4. at \in Seq(LogEntry)
    BY Zenon, <2>3 DEF Slice
  <2>5. at # <<>> => at[1] \in LogEntry
    BY <2>4
  <2>6. at # <<>> => at[1].term \in Nat
    BY Zenon, <2>5 DEF LogEntry
  <2> QED
    BY Zenon, <2>2, <2>6 DEF TermOf
<1>6. PICK s, T, o : /\ s = [index |-> lastApplied, term |-> TermOf(lastApplied), state |-> fsm, good |-> TRUE]
                     /\ T = {x \in Range(snaps) : x.index # lastApplied \/ x.term # TermOf(lastApplied)}
                     /\ o = Only(snaps, T)
  BY Zenon
<1>7. s \in Snapshot /\ s.index = lastApplied /\ s.state = fsm
  BY Zenon, <1>3, <1>4, <1>5, <1>6 DEF Snapshot
<1>8. /\ o \in Seq(Snapshot)
      /\ \A j \in 1..Len(o) : \E i \in 1..Len(snaps) : o[j] = snaps[i]
      /\ \A i \in 1..Len(snaps) : snaps[i] \in T => \E j \in 1..Len(o) : o[j] = snaps[i]
  <2>1. Only(snaps, T) \in Seq(Snapshot) /\ Gathers(Only(snaps, T), snaps, T)
    BY Zenon, <1>4, OnlyMembers
  <2>2. o \in Seq(Snapshot) /\ Gathers(o, snaps, T)
    BY Zenon, <1>6, <2>1
  <2> QED
    BY Zenon, <2>2 DEF Gathers
<1>9. w = Append(o, s)
  BY Zenon, <1>1, <1>6 DEF Written
<1>10. PICK n \in Nat : n = Len(o)
  BY <1>8
<1>11. /\ w \in Seq(Snapshot) /\ Len(w) = n + 1 /\ w[n + 1] = s /\ \A j \in 1..n : w[j] = o[j]
  BY <1>7, <1>8, <1>9, <1>10
<1>12. k \in 1..(n + 1)
  <2>1. k = IF n + 1 > MaxCount THEN (n + 1) - MaxCount + 1 ELSE 1
    BY Zenon, <1>1, <1>11
  <2> QED
    BY <1>4, <2>1
<1>13. PICK v : v = snaps'
  BY Zenon
<1>14. v \in Seq(Snapshot) /\ \A i \in DOMAIN v : \E j \in 1..(n + 1) : v[i] = w[j]
  <2>1. v = SubSeq(w, k, n + 1)
    BY Zenon, <1>2, <1>11, <1>13
  <2>2. v \in Seq(Snapshot) /\ Len(v) = n + 1 - k + 1
    BY <1>11, <1>12, <2>1
  <2>3. ASSUME NEW i \in 1..Len(v) PROVE \E j \in 1..(n + 1) : v[i] = w[j]
    <3>1. k + i - 1 \in 1..(n + 1) /\ v[i] = w[k + i - 1]
      BY <1>11, <1>12, <2>1, <2>2
    <3> QED
      BY Zenon, <3>1
  <2> QED
    BY <2>2, <2>3
<1>15. \A j \in 1..(n + 1) : \E i \in DOMAIN v : w[j].index <= v[i].index
  <2> SUFFICES ASSUME NEW j \in 1..(n + 1) PROVE \E i \in DOMAIN v : w[j].index <= v[i].index
    BY Zenon
  <2>1. j \in DOMAIN w /\ w[j] \in Snapshot
    BY <1>11
  <2>2. PICK i \in DOMAIN v : ~(w[j].index > v[i].index)
    BY Zenon, <1>2, <1>13, <2>1 DEF Rotated
  <2>3. v[i] \in Snapshot
    BY <1>14
  <2>4. w[j].index \in Nat /\ v[i].index \in Nat
    BY Zenon, <2>1, <2>3 DEF Snapshot
  <2> QED
    BY <2>2, <2>4
<1>16. ASSUME NEW i \in DOMAIN v
       PROVE  v[i].index <= Len(committed) /\ Reached(v[i].state, v[i].index, committed)
  <2>1. PICK j \in 1..(n + 1) : v[i] = w[j]
    BY Zenon, <1>14
  <2>2. CASE j = n + 1
    BY Zenon, <1>3, <1>7, <1>11, <2>1, <2>2
  <2>3. CASE j \in 1..n
    <3>1. PICK m \in 1..Len(snaps) : v[i] = snaps[m]
      BY <1>8, <1>10, <1>11, <2>1, <2>3
    <3>2. m \in DOMAIN snaps
      BY <1>4
    <3> QED
      BY Zenon, <3>1, <3>2 DEF SnapInv
  <2> QED
    BY <2>2, <2>3
<1>17. ASSUME NEW i \in DOMAIN snaps PROVE \E j \in DOMAIN v : snaps[i].index <= v[j].index
  <2>1. i \in 1..Len(snaps)
    BY <1>4
  <2>2. PICK j \in 1..(n + 1) : w[j].index = snaps[i].index
    <3>1. CASE snaps[i] \in T
      <4>1. PICK j \in 1..n : o[j] = snaps[i]
        BY Zenon, <1>8, <1>10, <2>1, <3>1
      <4> QED
        BY <1>11, <4>1
    <3>2. CASE snaps[i] \notin T
      <4>1. snaps[i] \in Range(snaps)
        BY Zenon DEF Range
      <4>2. snaps[i].index = lastApplied
        BY Zenon, <1>6, <3>2, <4>1
      <4>3. n + 1 \in 1..(n + 1)
        OBVIOUS
      <4> QED
        BY Zenon, <1>7, <1>11, <4>2, <4>3
    <3> QED
      BY Zenon, <3>1, <3>2
  <2> QED
    BY Zenon, <1>15, <2>2
<1>18. \E j \in DOMAIN v : lastApplied <= v[j].index
  <2>1. n + 1 \in 1..(n + 1)
    OBVIOUS
  <2> QED
    BY Zenon, <1>7, <1>11, <1>15, <2>1
<1>19. StorageTypes'
  BY Zenon, <1>2, <1>3, <1>13, <1>14 DEF StorageTypes
<1>20. LogInv' /\ FileInv'
  <2>1. PICK f \in 0..Len(committed) : Kept(wal, logEntries, Len(committed), f) /\ Saved(f)
    BY Zenon DEF FileInv
  <2>2. f = 0 \/ \E j \in DOMAIN v : f <= v[j].index
    <3>1. CASE f # 0
      <4>1. PICK i \in DOMAIN snaps : f <= snaps[i].index
        BY Zenon, <2>1, <3>1 DEF Saved
      <4>2. PICK j \in DOMAIN v : snaps[i].index <= v[j].index
        BY Zenon, <1>17
      <4>3. snaps[i] \in Snapshot /\ v[j] \in Snapshot
        BY <1>4, <1>14
      <4>4. snaps[i].index \in Nat /\ v[j].index \in Nat
        BY Zenon, <4>3 DEF Snapshot
      <4> QED
        BY <4>1, <4>2, <4>4
    <3> QED
      BY Zenon, <3>1
  <2>3. Saved(f)'
    BY Zenon, <1>13, <2>2 DEF Saved
  <2> QED
    BY Zenon, <1>2, <1>3, <2>1, <2>3 DEF LogInv, FileInv
<1>21. SnapInv'
  BY Zenon, <1>2, <1>3, <1>13, <1>16, <1>18 DEF SnapInv
<1>22. Base' = lastApplied
  BY Zenon, <1>2, <1>3 DEF Base
<1>23. FsmInv'
  BY Zenon, <1>2, <1>3, <1>22 DEF FsmInv
<1>24. QueueInv'
  <2>1. Taken' = Taken /\ \A x : Queued(x)' <=> Queued(x)
    BY Zenon, <1>2, <1>3, <1>22 DEF Taken, Queued
  <2> QED
    BY Zenon, <1>2, <2>1 DEF QueueInv, Queued
<1> QED
  BY Zenon, <1>19, <1>20, <1>21, <1>23, <1>24

\* Taking the entries above 0 and up to the last is taking all.
LEMMA BetweenAll ==
    ASSUME NEW l \in Seq(LogEntry), Consecutive(l)
    PROVE  Between(l, 0, LastIndexOf(l)) = l
<1>1. CASE l = <<>>
  BY Zenon, <1>1, BetweenEmpty
<1>2. CASE l # <<>>
  <2>1. PICK b \in Nat \ {0}, y \in Nat, n \in Nat \ {0} :
            b = l[1].index /\ y = LastIndexOf(l) /\ n = Len(l) /\ y = b + n - 1
    BY Zenon, <1>2, LastOf
  <2>2. PICK r : r = Between(l, 0, y)
    BY Zenon
  <2>3. PICK a \in Nat, z \in Nat : Slice(r, l, 0, y, a, z)
    BY Zenon, <1>2, <2>2, BetweenWindow
  <2>4. a = (IF 0 < b THEN b ELSE 0 + 1) /\ z = (IF y < y THEN y ELSE y)
    BY Zenon, <2>1, <2>3 DEF Slice
  <2>5. a = b /\ z = y
    BY <2>4
  <2>6. r \in Seq(LogEntry) /\ Len(r) = (IF a <= z THEN z - a + 1 ELSE 0)
    BY Zenon, <2>3 DEF Slice
  <2>7. Len(r) = n
    <3>1. b <= y /\ y - b + 1 = n
      BY <2>1
    <3> QED
      BY Zenon, <2>5, <2>6, <3>1
  <2>8. \A j \in 1..n : r[j] = l[j]
    <3>1. \A j \in 1..n : r[j] = l[a - b + j]
      BY Zenon, <2>1, <2>3, <2>7 DEF Slice
    <3>2. \A j \in 1..n : a - b + j = j
      BY <2>5
    <3> QED
      BY Zenon, <3>1, <3>2
  <2>9. r = l
    BY <2>1, <2>6, <2>7, <2>8
  <2> QED
    BY Zenon, <2>1, <2>2, <2>9
<1> QED
  BY Zenon, <1>1, <1>2

\* What reading the file from an index on leaves of it.
LEMMA ReadFile ==
    ASSUME NEW w \in Seq(LogEntry), NEW l \in Seq(LogEntry), NEW t, NEW a \in Nat,
           Ordered(w, l), Stamped(w, l, t)
    PROVE  LET v == ReadEntries(w, a + 1) IN
           /\ Readable(w) /\ v \in Seq(LogEntry) /\ Ordered(v, l) /\ Stamped(v, l, t)
           /\ \A e : In(e, v) <=> In(e, w) /\ e.index > a
<1>1. \A e \in LogEntry : ~IsCut(e)
  BY Zenon DEF LogEntry, IsCut
<1>2. Readable(w)
  BY <1>1 DEF Readable
<1>3. PICK T, R, v : /\ T = {r \in Range(w) : ~IsCut(r) /\ r.index >= a + 1}
                     /\ R = {p \in LogEntry \X LogEntry :
                               In(p[1], l) /\ In(p[2], l) => p[1].index < p[2].index}
                     /\ v = ReadEntries(w, a + 1)
  BY Zenon
<1>4. v = Only(w, T)
  BY Zenon, <1>3 DEF ReadEntries
<1>5. \A i \in 1..Len(w) : w[i] \in LogEntry /\ w[i] \in Range(w)
  BY DEF Range
<1>6. \A i \in 1..Len(w) : w[i] \in T <=> w[i].index > a
  <2> SUFFICES ASSUME NEW i \in 1..Len(w) PROVE w[i] \in T <=> w[i].index > a
    BY Zenon
  <2>1. w[i].index \in Nat /\ ~IsCut(w[i])
    BY Zenon, <1>1, <1>5 DEF LogEntry
  <2>2. w[i].index >= a + 1 <=> w[i].index > a
    BY <2>1
  <2> QED
    BY Zenon, <1>3, <1>5, <2>1, <2>2
<1>7. \A i, j \in 1..Len(w) : i < j /\ w[i] \in T /\ w[j] \in T => <<w[i], w[j]>> \in R
  <2> SUFFICES ASSUME NEW i \in 1..Len(w), NEW j \in 1..Len(w), i < j PROVE <<w[i], w[j]>> \in R
    BY Zenon
  <2>1. PICK x \in LogEntry, y \in LogEntry : x = w[i] /\ y = w[j]
    BY Zenon, <1>5
  <2>2. In(x, l) /\ In(y, l) => x.index < y.index
    BY Zenon, <2>1 DEF Ordered
  <2>3. PICK p : p = <<x, y>>
    BY Zenon
  <2>4. p \in LogEntry \X LogEntry /\ p[1] = x /\ p[2] = y
    BY <2>3
  <2> QED
    BY Zenon, <1>3, <2>1, <2>2, <2>3, <2>4
<1>8. v \in Seq(LogEntry) /\ Gathers(v, w, T)
  BY Zenon, <1>4, OnlyMembers
<1>9. /\ \A j \in 1..Len(v) : v[j] \in T
      /\ \A i, j \in 1..Len(v) : i < j => <<v[i], v[j]>> \in R
  BY Zenon, <1>4, <1>7, OnlyOrder
<1>10. Ordered(v, l)
  <2>1. ASSUME NEW i \in 1..Len(v), NEW j \in 1..Len(v), i < j, In(v[i], l), In(v[j], l)
        PROVE  v[i].index < v[j].index
    <3>1. PICK p : p = <<v[i], v[j]>>
      BY Zenon
    <3>2. p \in R /\ p[1] = v[i] /\ p[2] = v[j]
      BY <1>9, <2>1, <3>1
    <3> QED
      BY Zenon, <1>3, <2>1, <3>2
  <2> QED
    BY Zenon, <2>1 DEF Ordered
<1>11. \A j \in 1..Len(v) : \E i \in 1..Len(w) : v[j] = w[i]
  BY Zenon, <1>8 DEF Gathers
<1>12. Stamped(v, l, t)
  BY Zenon, <1>11 DEF Stamped
<1>13. ASSUME NEW e PROVE In(e, v) <=> In(e, w) /\ e.index > a
  <2>1. ASSUME In(e, v) PROVE In(e, w) /\ e.index > a
    BY Zenon, <1>6, <1>9, <1>11, <2>1 DEF In
  <2>2. ASSUME In(e, w), e.index > a PROVE In(e, v)
    BY Zenon, <1>6, <1>8, <2>2 DEF In, Gathers
  <2> QED
    BY Zenon, <2>1, <2>2
<1> QED
  BY Zenon, <1>2, <1>3, <1>8, <1>10, <1>12, <1>13

\* The log is truncated up to an index that a snapshot has reached.
LEMMA TruncateGood ==
    ASSUME StorageGood, Truncate
    PROVE  StorageGood'
<1> USE DEF StorageGood
<1>1. /\ pc = "truncate" /\ Readable(wal) => wal' = ReadEntries(wal, lastApplied + 1)
      /\ pc' = "take"
      /\ UNCHANGED <<snaps, logEntries, commitIndex, lastApplied, lastSnapshotIndex, applyCh,
                     sending, taken, fsm, term, committed, proposals, excuse>>
  BY Zenon DEF Truncate, histVars
<1>2. /\ wal \in Seq(LogEntry) /\ logEntries \in Seq(LogEntry) /\ lastApplied \in Nat
      /\ commitIndex \in Nat /\ Len(committed) \in Nat /\ committed \in Seq(Cmd)
  BY DEF StorageTypes
<1>3. pc = "truncate" /\ lastApplied <= Len(committed) /\ lastApplied > 0 /\ logEntries # <<>>
  <2>1. pc = "truncate"
    BY Zenon DEF Truncate
  <2>2. lastApplied > 0
    BY Zenon, <2>1 DEF SnapInv
  <2>3. lastApplied <= Len(committed)
    BY <1>2 DEF FsmInv
  <2> QED
    BY Zenon, <2>1, <2>2, <2>3 DEF LogInv
<1>4. PICK w, n : w = wal' /\ n = Len(committed)
  BY Zenon
<1>5. Ordered(wal, logEntries) /\ Stamped(wal, logEntries, term)
  BY Zenon DEF FileInv
<1>6. /\ w \in Seq(LogEntry) /\ Ordered(w, logEntries) /\ Stamped(w, logEntries, term)
      /\ \A e : In(e, w) <=> In(e, wal) /\ e.index > lastApplied
  <2>1. Readable(wal)
    BY Zenon, <1>2, <1>5, ReadFile
  <2>2. w = ReadEntries(wal, lastApplied + 1)
    BY Zenon, <1>1, <1>3, <1>4, <2>1
  <2> QED
    BY Zenon, <1>2, <1>5, <2>2, ReadFile
<1>7. PICK f \in 0..n : Kept(wal, logEntries, n, f) /\ Saved(f)
  BY Zenon, <1>4 DEF FileInv
<1>8. PICK g \in 0..n : g = IF f < lastApplied THEN lastApplied ELSE f
  BY <1>2, <1>3, <1>4
<1>9. Kept(w, logEntries, n, g)
  <2>1. ASSUME NEW k \in 1..Len(logEntries) PROVE logEntries[k].index > g <=> In(logEntries[k], w)
    <3>1. logEntries[k] \in LogEntry
      BY <1>2
    <3>2. logEntries[k].index \in Nat
      BY Zenon, <3>1 DEF LogEntry
    <3>3. logEntries[k].index > g <=> logEntries[k].index > f /\ logEntries[k].index > lastApplied
      BY <1>2, <1>8, <3>2
    <3>4. logEntries[k].index > f <=> In(logEntries[k], wal)
      BY Zenon, <1>7 DEF Kept
    <3> QED
      BY Zenon, <1>6, <3>3, <3>4
  <2>2. ASSUME g < n PROVE logEntries[1].index <= g + 1
    <3>1. f < n /\ f <= g
      BY <1>2, <1>4, <1>8, <2>2
    <3>2. logEntries[1].index <= f + 1
      BY Zenon, <1>7, <3>1 DEF Kept
    <3>3. logEntries[1] \in LogEntry
      BY <1>2, <1>3
    <3>4. logEntries[1].index \in Nat
      BY Zenon, <3>3 DEF LogEntry
    <3> QED
      BY <3>1, <3>2, <3>4
  <2> QED
    BY Zenon, <1>3, <2>1, <2>2 DEF Kept
<1>10. Saved(g)'
  <2>1. \E i \in DOMAIN snaps : lastApplied <= snaps[i].index
    BY Zenon, <1>3 DEF SnapInv
  <2> QED
    BY Zenon, <1>1, <1>7, <1>8, <2>1 DEF Saved
<1>11. StorageTypes'
  BY Zenon, <1>1, <1>4, <1>6 DEF StorageTypes
<1>12. LogInv' /\ FileInv'
  BY Zenon, <1>1, <1>4, <1>6, <1>8, <1>9, <1>10 DEF LogInv, FileInv
<1>13. SnapInv'
  BY Zenon, <1>1 DEF SnapInv
<1>14. FsmInv'
  BY Zenon, <1>1 DEF FsmInv, Base
<1>15. QueueInv'
  <2>1. Taken' = Taken /\ Base' = Base /\ \A x : Queued(x)' <=> Queued(x)
    BY Zenon, <1>1, <1>3 DEF Taken, Base, Queued
  <2> QED
    BY Zenon, <1>1, <1>3, <2>1 DEF QueueInv, Queued
<1> QED
  BY Zenon, <1>11, <1>12, <1>13, <1>14, <1>15

\* A crash that cuts nothing, or a stop of the machine that loses nothing, leaves
\* everything as it is.
LEMMA CrashGood ==
    ASSUME StorageGood, Crash \/ MachineStop, excuse' = {}
    PROVE  StorageGood'
<1> USE DEF StorageGood
<1>1. UNCHANGED <<wal, snaps, logEntries, commitIndex, lastApplied, lastSnapshotIndex, applyCh,
                  sending, taken, fsm, pc, term, committed, proposals>>
  <2>1. UNCHANGED <<memVars, term, committed, proposals>>
    BY Zenon DEF Crash, MachineStop
  <2>2. UNCHANGED <<wal, snaps>>
    BY Zenon DEF Crash, MachineStop, diskVars
  <2> QED
    BY Zenon, <2>1, <2>2 DEF memVars
<1> QED
  BY Zenon, <1>1 DEF StorageTypes, LogInv, FileInv, Saved, SnapInv, FsmInv, QueueInv, Queued, Taken,
                     Base

\* A list in the order of the indexes, which has those above f and up to y, has no gap.
LEMMA Packed ==
    ASSUME NEW w \in Seq(LogEntry), NEW f \in Nat, NEW y \in Nat,
           \A i, j \in 1..Len(w) : i < j => w[i].index < w[j].index,
           \A i \in 1..Len(w) : w[i].index \in (f + 1)..y,
           \A v \in (f + 1)..y : \E i \in 1..Len(w) : w[i].index = v
    PROVE  \A i \in 1..Len(w) : w[i].index = f + i
<1>1. PICK n \in Nat : n = Len(w)
  OBVIOUS
<1>2. PICK x : x = [i \in 1..n |-> w[i].index]
  BY Zenon
<1>3. /\ \A i \in 1..n : x[i] \in Nat /\ x[i] \in (f + 1)..y /\ x[i] = w[i].index
      /\ \A i, j \in 1..n : i < j => x[i] < x[j]
      /\ \A v \in (f + 1)..y : \E i \in 1..n : x[i] = v
  <2>1. \A i \in 1..n : x[i] = w[i].index
    BY Zenon, <1>2
  <2>2. \A v \in (f + 1)..y : v \in Nat
    OBVIOUS
  <2> QED
    BY Zenon, <1>1, <2>1, <2>2
<1> DEFINE S == {k \in Nat : k + 1 \in 1..n => x[k + 1] = f + (k + 1)}
<1>4. 0 \in S
  <2> SUFFICES ASSUME 1 \in 1..n PROVE x[1] = f + 1
    OBVIOUS
  <2>1. f + 1 \in (f + 1)..y
    BY <1>3
  <2>2. PICK j \in 1..n : x[j] = f + 1
    BY Zenon, <1>3, <2>1
  <2>3. CASE j = 1
    BY Zenon, <2>2, <2>3
  <2>4. CASE 1 < j
    <3>1. x[1] < x[j] /\ x[1] \in (f + 1)..y
      BY Zenon, <1>3, <2>4
    <3> QED
      BY <2>2, <3>1
  <2> QED
    BY <2>3, <2>4
<1>5. ASSUME NEW k \in Nat, k \in S PROVE k + 1 \in S
  <2> SUFFICES ASSUME (k + 1) + 1 \in 1..n PROVE x[(k + 1) + 1] = f + ((k + 1) + 1)
    OBVIOUS
  <2>1. PICK i \in 1..n, o \in 1..n : i = k + 1 /\ o = i + 1
    BY <1>1
  <2>2. x[i] = f + i /\ x[i] < x[o] /\ x[o] \in (f + 1)..y /\ x[o] \in Nat
    <3>1. i < o
      BY <2>1
    <3> QED
      BY Zenon, <1>3, <1>5, <2>1, <3>1
  <2>3. f + o \in (f + 1)..y /\ f + o <= x[o]
    BY <2>1, <2>2
  <2>4. PICK j \in 1..n : x[j] = f + o
    BY Zenon, <1>3, <2>3
  <2>5. ~(j < i) /\ ~(j = i)
    <3>1. j < i => f + o < f + i
      BY Zenon, <1>3, <2>2, <2>4
    <3>2. j = i => f + o = f + i
      BY Zenon, <2>2, <2>4
    <3> QED
      BY <2>1, <3>1, <3>2
  <2>6. ~(o < j)
    <3>1. o < j => x[o] < x[j]
      BY Zenon, <1>3
    <3> QED
      BY <2>2, <2>3, <2>4, <3>1
  <2>7. j = o
    BY <2>1, <2>5, <2>6
  <2> QED
    BY Zenon, <2>1, <2>4, <2>7
<1>6. Nat \subseteq S
  <2> HIDE DEF S
  <2> QED
    BY <1>4, <1>5, NaturalInduction
<1>7. ASSUME NEW i \in 1..n PROVE x[i] = f + i
  <2>1. i - 1 \in Nat /\ (i - 1) + 1 = i
    OBVIOUS
  <2>2. i - 1 \in S
    BY Zenon, <1>6, <2>1
  <2> QED
    BY Zenon, <2>1, <2>2
<1> QED
  BY Zenon, <1>1, <1>3, <1>7

\* A file without records of replaced entries is the part of the log above an index up to
\* which there is a snapshot.
Whole(f) ==
    /\ f <= Len(committed) /\ Saved(f) /\ Consecutive(wal) /\ Within(wal, logEntries)
    /\ wal # <<>> => /\ wal[1].index = f + 1 /\ logEntries # <<>>
                     /\ LastIndexOf(wal) = LastIndexOf(logEntries)
    /\ wal = <<>> => f = Len(committed)

\* So it is until a file is cut or lost.
LEMMA FileWhole ==
    ASSUME StorageGood, ~Superseded
    PROVE  \E f \in Nat : Whole(f)
<1> USE DEF StorageGood
<1>1. /\ wal \in Seq(LogEntry) /\ logEntries \in Seq(LogEntry) /\ Len(committed) \in Nat
      /\ Consecutive(logEntries)
  BY DEF StorageTypes, LogInv
<1>2. Within(wal, logEntries)
  <2>1. ASSUME NEW i \in 1..Len(wal) PROVE In(wal[i], logEntries)
    <3>1. wal[i] \in Range(logEntries)
      BY <1>1 DEF Superseded
    <3> QED
      BY <1>1, <3>1 DEF Range, In
  <2> QED
    BY Zenon, <2>1 DEF Within
<1>3. PICK f \in Nat : f <= Len(committed) /\ Kept(wal, logEntries, Len(committed), f) /\ Saved(f)
  <2>1. \A f \in 0..Len(committed) : f \in Nat /\ f <= Len(committed)
    BY <1>1
  <2> QED
    BY Zenon, <2>1 DEF FileInv
<1>4. CASE logEntries = <<>>
  <2>1. Len(wal) = 0
    <3>1. Len(logEntries) = 0 /\ Len(wal) \in Nat
      BY <1>1, <1>4
    <3>2. ASSUME 1 \in 1..Len(wal) PROVE FALSE
      <4>1. PICK j \in 1..Len(logEntries) : wal[1] = logEntries[j]
        BY Zenon, <1>2, <3>2 DEF Within, In
      <4> QED
        BY <3>1, <4>1
    <3> QED
      BY <3>1, <3>2
  <2>2. wal = <<>>
    BY <1>1, <2>1
  <2>3. f = Len(committed)
    <3>1. ~(f < Len(committed))
      BY Zenon, <1>3, <1>4 DEF Kept
    <3> QED
      BY <1>1, <1>3, <3>1
  <2>4. Consecutive(wal)
    BY <2>1 DEF Consecutive
  <2> QED
    BY Zenon, <1>2, <1>3, <2>2, <2>3, <2>4 DEF Whole
<1>5. CASE logEntries # <<>>
  <2>1. PICK b \in Nat \ {0}, y \in Nat, m \in Nat \ {0} :
            /\ b = logEntries[1].index /\ y = LastIndexOf(logEntries) /\ m = Len(logEntries)
            /\ y = b + m - 1
    BY Zenon, <1>1, <1>5, LastOf
  <2>2. b <= f + 1 /\ Len(committed) <= y
    <3>1. f < Len(committed) => b <= f + 1
      BY Zenon, <1>3, <2>1 DEF Kept
    <3>2. b <= Len(committed) + 1 /\ Len(committed) <= y
      BY Zenon, <1>5, <2>1 DEF LogInv
    <3> QED
      BY <1>1, <1>3, <3>1, <3>2
  <2>3. \A k \in 1..m : logEntries[k].index = b + k - 1 /\ (b + k - 1 > f <=> In(logEntries[k], wal))
    BY Zenon, <1>1, <1>3, <2>1 DEF Consecutive, Kept
  <2>4. \A i, j \in 1..Len(wal) : i < j => wal[i].index < wal[j].index
    BY Zenon, <1>2 DEF FileInv, Ordered, Within
  <2>5. \A i \in 1..Len(wal) : wal[i].index \in (f + 1)..y
    <3> SUFFICES ASSUME NEW i \in 1..Len(wal) PROVE wal[i].index \in (f + 1)..y
      BY Zenon
    <3>1. PICK k \in 1..m : wal[i] = logEntries[k]
      BY Zenon, <1>2, <2>1 DEF Within, In
    <3>2. In(logEntries[k], wal)
      BY Zenon, <3>1 DEF In
    <3>3. wal[i].index = b + k - 1 /\ b + k - 1 > f
      BY Zenon, <2>3, <3>1, <3>2
    <3> QED
      BY <2>1, <3>3
  <2>6. \A v \in (f + 1)..y : \E i \in 1..Len(wal) : wal[i].index = v
    <3> SUFFICES ASSUME NEW v \in (f + 1)..y PROVE \E i \in 1..Len(wal) : wal[i].index = v
      BY Zenon
    <3>1. PICK k \in 1..m : b + k - 1 = v
      <4>1. v - b + 1 \in 1..m /\ b + (v - b + 1) - 1 = v
        BY <2>1, <2>2
      <4> QED
        BY Zenon, <4>1
    <3>2. b + k - 1 > f
      BY <3>1
    <3>3. PICK i \in 1..Len(wal) : logEntries[k] = wal[i]
      BY Zenon, <2>3, <3>2 DEF In
    <3> QED
      BY Zenon, <2>3, <3>1, <3>3
  <2>7. \A i \in 1..Len(wal) : wal[i].index = f + i
    BY Zenon, <1>1, <2>4, <2>5, <2>6, Packed
  <2>8. wal # <<>> => 1 \in 1..Len(wal) /\ Len(wal) \in 1..Len(wal)
    BY <1>1
  <2>9. wal # <<>> => wal[1].index = f + 1
    BY Zenon, <2>7, <2>8
  <2>10. Consecutive(wal)
    <3>1. ASSUME NEW i \in 1..Len(wal) PROVE wal[i].index = wal[1].index + i - 1
      <4>1. wal[i].index = f + i /\ wal[1].index = f + 1
        <5>1. 1 \in 1..Len(wal)
          OBVIOUS
        <5> QED
          BY Zenon, <2>7, <5>1
      <4> QED
        BY <4>1
    <3> QED
      BY Zenon, <3>1 DEF Consecutive
  <2>11. ASSUME wal # <<>> PROVE LastIndexOf(wal) = y
    <3>1. PICK n \in Nat : n = Len(wal) /\ n > 0
      BY <1>1, <2>11
    <3>2. LastIndexOf(wal) = f + n /\ f + n <= y /\ f < y
      <4>1. LastIndexOf(wal) = wal[n].index
        BY Zenon, <2>11, <3>1 DEF LastIndexOf
      <4>2. n \in 1..Len(wal)
        BY <3>1
      <4>3. wal[n].index = f + n /\ wal[n].index \in (f + 1)..y
        BY Zenon, <2>5, <2>7, <4>2
      <4> QED
        BY <4>1, <4>3
    <3>3. y \in (f + 1)..y
      BY <3>2
    <3>4. PICK i \in 1..n : wal[i].index = y
      BY Zenon, <2>6, <3>1, <3>3
    <3>5. wal[i].index = f + i
      BY Zenon, <2>7, <3>1
    <3> QED
      BY <3>2, <3>4, <3>5
  <2>12. wal = <<>> => f = Len(committed)
    <3>1. wal = <<>> => ~(y \in (f + 1)..y)
      BY <2>6
    <3> QED
      BY <1>1, <1>3, <2>2, <3>1
  <2> QED
    BY Zenon, <1>2, <1>3, <1>5, <2>1, <2>9, <2>10, <2>11, <2>12 DEF Whole
<1> QED
  BY Zenon, <1>4, <1>5

\* A snapshot with the highest index reaches up to what the file has.
LEMMA SnapshotEnough ==
    ASSUME StorageGood, NEW f \in Nat, Whole(f),
           NEW a \in Nat, \A i \in DOMAIN snaps : snaps[i].index <= a
    PROVE  /\ f <= a /\ (wal # <<>> => wal[1].index <= a + 1)
           /\ wal = <<>> => Len(committed) <= a
<1>1. f <= a
  <2>1. CASE f = 0
    BY <2>1
  <2>2. CASE f # 0
    <3>1. PICK i \in DOMAIN snaps : f <= snaps[i].index
      BY Zenon, <2>2 DEF Whole, Saved
    <3>2. snaps[i] \in Snapshot
      BY DEF StorageGood, StorageTypes
    <3>3. snaps[i].index \in Nat /\ snaps[i].index <= a
      BY Zenon, <3>2 DEF Snapshot
    <3> QED
      BY <3>1, <3>3
  <2> QED
    BY Zenon, <2>1, <2>2
<1>2. f + 1 <= a + 1
  BY <1>1
<1> QED
  BY Zenon, <1>1, <1>2 DEF Whole

\* The node starts from the file and the snapshot with the highest index.
LEMMA StartGood ==
    ASSUME StorageGood, Start, excuse' = {}
    PROVE  StorageGood'
<1> USE DEF StorageGood
<1>0. PICK f \in Nat : Whole(f)
  <2>1. ~Superseded
    BY Zenon DEF Start
  <2> QED
    BY Zenon, <2>1, FileWhole
<1>1. wal \in Seq(LogEntry) /\ Consecutive(wal) /\ snaps \in Seq(Snapshot) /\ committed \in Seq(Cmd)
      /\ Len(committed) \in Nat /\ LastIndexOf(wal) \in Nat /\ logEntries \in Seq(LogEntry)
      /\ Len(wal) \in Nat /\ term \in Nat
  BY <1>0, LastNatural DEF StorageTypes, Whole
<1>2. Readable(wal) /\ ReadEntries(wal, 1) = wal
  <2>1. 0 \in Nat /\ 0 + 1 = 1
    OBVIOUS
  <2>2. Readable(wal) /\ ReadEntries(wal, 0 + 1) = Between(wal, 0, LastIndexOf(wal))
    BY Zenon, <1>1, <2>1, ReadWhole
  <2> QED
    BY Zenon, <1>1, <2>1, <2>2, BetweenAll
<1>3. /\ logEntries' = wal /\ commitIndex' = 0 /\ lastApplied' = 0 /\ applyCh' = <<>>
      /\ sending' = <<>> /\ pc' = "take" /\ term' = term + 1
      /\ UNCHANGED <<wal, snaps, committed, proposals>>
  BY Zenon, <1>2 DEF Start, diskVars
<1>4. /\ lastSnapshotIndex' \in Nat /\ lastSnapshotIndex' <= Len(committed)
      /\ Reached(fsm', lastSnapshotIndex', committed)
      /\ \A i \in DOMAIN snaps : snaps[i].index <= lastSnapshotIndex'
  <2>1. CASE snaps = <<>>
    <3>1. fsm' = InitState /\ lastSnapshotIndex' = 0
      BY Zenon, <1>2, <2>1 DEF Start
    <3>2. Reached(InitState, 0, committed)
      BY Zenon, <1>1, ReachedInit
    <3> QED
      BY <1>1, <2>1, <3>1, <3>2
  <2>2. CASE snaps # <<>>
    <3>1. PICK i \in Best : /\ fsm' = Restored(snaps[i])
                            /\ lastSnapshotIndex' = IF snaps[i].good THEN snaps[i].index ELSE 0
      BY Zenon, <1>2, <2>2 DEF Start
    <3>2. i \in DOMAIN snaps /\ \A j \in DOMAIN snaps : snaps[j].index <= snaps[i].index
      BY Zenon DEF Best
    <3>3. snaps[i] \in Snapshot
      BY <1>1, <3>2
    <3>4. snaps[i].index \in Nat /\ snaps[i].good = TRUE
      BY Zenon, <3>3 DEF Snapshot
    <3>5. fsm' = snaps[i].state /\ lastSnapshotIndex' = snaps[i].index
      BY Zenon, <3>1, <3>4 DEF Restored
    <3>6. snaps[i].index <= Len(committed) /\ Reached(snaps[i].state, snaps[i].index, committed)
      BY Zenon, <3>2 DEF SnapInv
    <3> QED
      BY Zenon, <3>2, <3>4, <3>5, <3>6
  <2> QED
    BY Zenon, <2>1, <2>2
<1>5. PICK a \in Nat : a = lastSnapshotIndex'
  BY Zenon, <1>4
<1>6. (wal # <<>> => wal[1].index <= a + 1) /\ (wal = <<>> => Len(committed) <= a)
  BY Zenon, <1>0, <1>4, <1>5, SnapshotEnough
<1>7. StorageTypes'
  <2>1. fsm' \in State
    BY Zenon, <1>4 DEF Reached
  <2> QED
    BY <1>1, <1>3, <1>4, <2>1 DEF StorageTypes
<1>8. LogInv' /\ FileInv'
  <2>1. Agrees(wal, committed)
    BY Zenon, <1>0, WithinAgrees DEF LogInv, Whole
  <2>2. wal # <<>> => Len(committed) <= LastIndexOf(wal)
    BY Zenon, <1>0 DEF LogInv, Whole
  <2>3. wal = <<>> => committed = <<>> \/ a > 0
    BY <1>1, <1>6
  <2>4. f <= Len(committed) /\ (wal # <<>> => wal[1].index = f + 1)
    BY Zenon, <1>0 DEF Whole
  <2>5. wal # <<>> => wal[1].index <= Len(committed) + 1 /\ wal[1].index <= f + 1
    BY <1>1, <2>4
  <2>6. LogInv'
    <3>1. ~(0 > 0)
      OBVIOUS
    <3> QED
      BY Zenon, <1>1, <1>3, <1>5, <1>6, <2>1, <2>2, <2>3, <2>5, <3>1 DEF LogInv
  <2>7. \A i \in 1..Len(wal) : In(wal[i], wal)
    BY Zenon DEF In
  <2>8. Ordered(wal, wal) /\ Stamped(wal, wal, term + 1)
    <3>1. Ordered(wal, wal)
      BY Zenon, <1>0, <2>7 DEF Ordered, FileInv, Whole, Within
    <3>2. \A i \in 1..Len(wal) : wal[i].term \in Nat /\ wal[i].term <= term
      <4>1. \A i \in 1..Len(wal) : wal[i] \in LogEntry
        BY <1>1
      <4> QED
        BY Zenon, <4>1 DEF LogEntry, FileInv, Stamped
    <3>3. \A i \in 1..Len(wal) : wal[i].term <= term + 1
      BY <1>1, <3>2
    <3> QED
      BY Zenon, <2>7, <3>1, <3>3 DEF Stamped
  <2>9. Kept(wal, wal, Len(committed), f)
    <3>1. ASSUME NEW k \in 1..Len(wal) PROVE wal[k].index > f
      <4>1. wal[k].index = wal[1].index + k - 1
        BY Zenon, <1>1 DEF Consecutive
      <4>2. wal # <<>>
        BY <1>1
      <4> QED
        BY <2>4, <4>1, <4>2
    <3>2. f < Len(committed) => wal # <<>>
      <4>1. wal = <<>> => f = Len(committed)
        BY Zenon, <1>0 DEF Whole
      <4> QED
        BY <1>1, <4>1
    <3> QED
      BY Zenon, <2>5, <2>7, <3>1, <3>2 DEF Kept
  <2>10. Saved(f)' /\ f \in 0..Len(committed)
    <3>1. Saved(f)'
      BY Zenon, <1>0, <1>3 DEF Whole, Saved
    <3> QED
      BY <1>1, <2>4, <3>1
  <2>11. FileInv'
    BY Zenon, <1>3, <2>8, <2>9, <2>10 DEF FileInv
  <2> QED
    BY Zenon, <2>6, <2>11
<1>9. SnapInv'
  BY Zenon, <1>3 DEF SnapInv
<1>10. FsmInv'
  BY <1>1, <1>3, <1>4 DEF FsmInv, Base
<1>11. QueueInv'
  BY <1>3 DEF QueueInv, Chain
<1> QED
  BY Zenon, <1>7, <1>8, <1>9, <1>10, <1>11

\* Every step of the storage.
LEMMA StorageStep == StorageInv /\ [StorageNext]_storageVars => StorageInv'
<1> SUFFICES ASSUME StorageInv, [StorageNext]_storageVars, excuse' = {} PROVE StorageGood'
  BY Zenon DEF StorageInv
<1>1. excuse = {}
  <2>1. ASSUME NEW c, Propose(c) \/ AppendFirst(c) \/ \E k \in DOMAIN logEntries : Replace(k, c)
        PROVE  excuse = {}
    BY Zenon, <2>1 DEF Propose, AppendFirst, Replace
  <2>2. CASE AdvanceCommit
    BY Zenon, <2>2 DEF AdvanceCommit
  <2>3. CASE SendEntry
    BY Zenon, <2>3 DEF SendEntry
  <2>4. CASE TakeEntry
    BY Zenon, <2>4 DEF TakeEntry, histVars
  <2>5. CASE ApplyCommitted
    BY Zenon, <2>5 DEF ApplyCommitted, histVars
  <2>6. CASE SaveSnapshot
    BY Zenon, <2>6 DEF SaveSnapshot
  <2>7. CASE Truncate
    BY Zenon, <2>7 DEF Truncate, histVars
  <2>8. CASE Crash \/ MachineStop
    BY Zenon, <2>8 DEF Crash, MachineStop
  <2>9. CASE Start
    BY Zenon, <2>9 DEF Start
  <2>10. CASE UNCHANGED storageVars
    BY Zenon, <2>10 DEF storageVars, histVars
  <2> QED
    BY Zenon, <2>1, <2>2, <2>3, <2>4, <2>5, <2>6, <2>7, <2>8, <2>9, <2>10 DEF StorageNext
<1>2. StorageGood
  BY Zenon, <1>1 DEF StorageInv
<1>3. ASSUME NEW c \in Cmd, Propose(c) \/ AppendFirst(c) \/ \E k \in DOMAIN logEntries : Replace(k, c)
      PROVE  StorageGood'
  <2>1. ~AppendFirst(c)
    BY Zenon DEF AppendFirst
  <2> QED
    BY Zenon, <1>2, <1>3, <2>1, ProposeGood, ReplaceGood
<1>4. CASE AdvanceCommit
  BY Zenon, <1>2, <1>4, AdvanceGood
<1>5. CASE SendEntry
  BY Zenon, <1>2, <1>5, SendGood
<1>6. CASE TakeEntry
  BY Zenon, <1>2, <1>6, TakeGood
<1>7. CASE ApplyCommitted
  BY Zenon, <1>2, <1>7, ApplyGood
<1>8. CASE SaveSnapshot
  BY Zenon, <1>2, <1>8, SaveGood
<1>9. CASE Truncate
  BY Zenon, <1>2, <1>9, TruncateGood
<1>10. CASE Crash \/ MachineStop
  BY Zenon, <1>2, <1>10, CrashGood
<1>11. CASE Start
  BY Zenon, <1>2, <1>11, StartGood
<1>12. CASE UNCHANGED storageVars
  BY Zenon, <1>2, <1>12 DEF storageVars, diskVars, memVars, histVars, StorageGood, StorageTypes, LogInv,
                     FileInv, Saved, SnapInv, FsmInv, QueueInv, Queued, Taken, Base
<1> QED
  BY Zenon, <1>3, <1>4, <1>5, <1>6, <1>7, <1>8, <1>9, <1>10, <1>11, <1>12 DEF StorageNext, Cmd

\* The node begins with nothing.
LEMMA StorageInitGood == StorageInit => StorageGood
<1> SUFFICES ASSUME StorageInit PROVE StorageGood
  BY Zenon
<1>1. committed = <<>> /\ committed \in Seq(Cmd) /\ Len(committed) = 0
  BY DEF StorageInit
<1>2. Reached(InitState, 0, committed)
  BY Zenon, <1>1, ReachedInit
<1>3. StorageTypes
  <2>1. fsm \in State
    BY Zenon, <1>2 DEF StorageInit, Reached
  <2> QED
    BY <2>1 DEF StorageInit, StorageTypes
<1>4. LogInv /\ FileInv
  <2>1. LogInv
    BY DEF StorageInit, LogInv, Consecutive, Agrees, LastIndexOf
  <2>2. 0 \in 0..Len(committed) /\ Saved(0)
    BY <1>1 DEF Saved
  <2>3. Kept(wal, logEntries, Len(committed), 0)
    BY <1>1 DEF StorageInit, Kept
  <2>4. Ordered(wal, logEntries) /\ Stamped(wal, logEntries, term)
    BY DEF StorageInit, Ordered, Stamped
  <2> QED
    BY Zenon, <2>1, <2>2, <2>3, <2>4 DEF FileInv
<1>5. SnapInv
  BY <1>1 DEF StorageInit, SnapInv
<1>6. FsmInv
  BY <1>1, <1>2 DEF StorageInit, FsmInv, Base
<1>7. QueueInv
  BY DEF StorageInit, QueueInv, Chain
<1> QED
  BY Zenon, <1>3, <1>4, <1>5, <1>6, <1>7 DEF StorageGood

\* The invariant of the storage, for any number of proposals, restarts, snapshots and any
\* capacity of the channel.
THEOREM StorageInvariant == StorageSpec => []StorageInv
<1>1. StorageInit => StorageInv
  BY Zenon, StorageInitGood DEF StorageInv
<1> QED
  BY <1>1, StorageStep, PTL DEF StorageSpec

\* Converged: once the last committed entry is the last applied one, the state machine
\* holds what the committed commands make, whatever was applied again on the way.
THEOREM StorageConverged == StorageSpec => []Converged
<1>1. StorageInv => Converged
  <2> SUFFICES ASSUME StorageInv, node = "up", excuse = {}, lastApplied = Len(committed)
               PROVE  Contents(fsm) = Contents(ApplyAll(InitState, committed))
    BY Zenon DEF Converged
  <2>1. StorageGood
    BY Zenon DEF StorageInv
  <2>2. committed \in Seq(Cmd) /\ Base \in Nat /\ Reached(fsm, Base, committed)
    BY Zenon, <2>1 DEF StorageGood, StorageTypes, FsmInv, Base
  <2>3. Base >= Len(committed)
    BY <2>1 DEF StorageGood, StorageTypes, Base
  <2> QED
    BY Zenon, <2>2, <2>3, ReachedAll
<1> QED
  BY <1>1, StorageInvariant, PTL

\* Recoverable: the snapshot that would be loaded and the log on top make what the
\* committed commands make, at every moment at which the node may crash.
THEOREM StorageRecoverable == StorageSpec => []Recoverable
<1>1. StorageInv => Recoverable
  <2> SUFFICES ASSUME StorageInv, excuse = {}, ~Superseded,
                      NEW s \in IF snaps = <<>> THEN {InitState} ELSE {snaps[i].state : i \in Best}
               PROVE  Contents(ApplyAll(s, Cmds(Between(wal, 0, Len(committed)))))
                        = Contents(ApplyAll(InitState, committed))
    BY Zenon DEF Recoverable
  <2>1. StorageGood
    BY Zenon DEF StorageInv
  <2>0. PICK f \in Nat : Whole(f)
    BY Zenon, <2>1, FileWhole
  <2>2. /\ wal \in Seq(LogEntry) /\ committed \in Seq(Cmd) /\ snaps \in Seq(Snapshot)
        /\ logEntries \in Seq(LogEntry) /\ Consecutive(wal) /\ Len(committed) \in Nat
    BY <2>0, <2>1 DEF StorageGood, StorageTypes, Whole
  <2>3. PICK a \in Nat : Reached(s, a, committed) /\ \A i \in DOMAIN snaps : snaps[i].index <= a
    <3>1. CASE snaps = <<>>
      <4>1. s = InitState
        BY Zenon, <3>1
      <4>2. Reached(s, 0, committed)
        BY Zenon, <2>2, <4>1, ReachedInit
      <4> QED
        BY <3>1, <4>2
    <3>2. CASE snaps # <<>>
      <4>1. PICK i \in Best : s = snaps[i].state
        BY Zenon, <3>2
      <4>2. i \in DOMAIN snaps /\ \A j \in DOMAIN snaps : snaps[j].index <= snaps[i].index
        BY Zenon DEF Best
      <4>3. snaps[i] \in Snapshot
        BY <2>2, <4>2
      <4>4. snaps[i].index \in Nat
        BY Zenon, <4>3 DEF Snapshot
      <4>5. Reached(s, snaps[i].index, committed)
        BY Zenon, <2>1, <4>1, <4>2 DEF StorageGood, SnapInv
      <4> QED
        BY Zenon, <4>2, <4>4, <4>5
    <3> QED
      BY Zenon, <3>1, <3>2
  <2>4. (wal # <<>> => wal[1].index <= a + 1) /\ (wal = <<>> => Len(committed) <= a)
    BY Zenon, <2>0, <2>1, <2>3, SnapshotEnough
  <2>5. PICK r, ds : r = Between(wal, 0, Len(committed)) /\ ds = Cmds(r)
    BY Zenon
  <2>6. \E c \in Nat : c >= Len(committed) /\ Reached(ApplyAll(s, ds), c, committed)
    <3>1. CASE wal = <<>>
      <4>1. r = <<>>
        BY Zenon, <2>5, <3>1, BetweenEmpty
      <4>2. ds = <<>>
        BY <2>5, <4>1 DEF Cmds
      <4>3. ds \in Seq(Cmd) /\ Len(ds) = 0
        BY <4>2
      <4>4. PICK g : /\ g[0] = s
                     /\ \A i \in 1..Len(ds) : g[i] = Apply(g[i - 1], ds[i])
                     /\ ApplyAll(s, ds) = g[Len(ds)]
        BY Zenon, <4>3, ApplyRounds
      <4>5. ApplyAll(s, ds) = s
        BY Zenon, <4>3, <4>4
      <4> QED
        BY Zenon, <2>2, <2>3, <2>4, <3>1, <4>5
    <3>2. CASE wal # <<>>
      <4>1. PICK b \in Nat \ {0}, y \in Nat : b = wal[1].index /\ y = LastIndexOf(wal)
        BY Zenon, <2>2, <3>2, LastOf
      <4>2. PICK n \in Nat : n = Len(committed)
        BY Zenon, <2>2
      <4>3. b <= a + 1 /\ b <= n + 1 /\ n <= y
        <5>1. b <= a + 1 /\ b = f + 1 /\ f <= n
          BY Zenon, <2>0, <2>4, <3>2, <4>1, <4>2 DEF Whole
        <5>2. n <= y
          BY Zenon, <2>0, <2>1, <3>2, <4>1, <4>2 DEF StorageGood, LogInv, Whole
        <5>3. b <= n + 1
          BY <4>2, <5>1
        <5> QED
          BY Zenon, <5>1, <5>2, <5>3
      <4>4. PICK p \in Nat, z \in Nat : Slice(r, wal, 0, n, p, z)
        BY Zenon, <2>2, <2>5, <3>2, <4>2, BetweenWindow
      <4>5. p = (IF 0 < b THEN b ELSE 0 + 1) /\ z = (IF n < y THEN n ELSE y)
        BY Zenon, <4>1, <4>4 DEF Slice
      <4>6. p = b /\ z = n
        BY <4>3, <4>5
      <4>7. /\ r \in Seq(LogEntry) /\ Len(r) = (IF b <= n THEN n - b + 1 ELSE 0)
            /\ \A j \in 1..Len(r) : /\ r[j].index = b + j - 1
                                    /\ \E i \in 1..Len(wal) : r[j] = wal[i]
        BY Zenon, <4>4, <4>6 DEF Slice
      <4>8. PICK m \in Nat : m = Len(r) /\ b + m - 1 <= n /\ (m = 0 => b = n + 1) /\ (m > 0 => b + m - 1 = n)
        <5>1. Len(r) \in Nat
          BY <4>7
        <5>2. Len(r) = (IF b <= n THEN n - b + 1 ELSE 0)
          BY Zenon, <4>7
        <5>3. /\ b + Len(r) - 1 <= n /\ (Len(r) = 0 => b = n + 1) /\ (Len(r) > 0 => b + Len(r) - 1 = n)
          BY <4>3, <5>1, <5>2
        <5> QED
          BY Zenon, <5>1, <5>3
      <4>9. ds = [j \in 1..m |-> r[j].cmd]
        BY <2>5, <4>7, <4>8 DEF Cmds
      <4>10. ASSUME NEW j \in 1..m PROVE r[j].cmd \in Cmd /\ r[j].cmd = committed[b + j - 1]
        <5>1. r[j] \in LogEntry /\ r[j].index = b + j - 1
          BY <4>7, <4>8
        <5>2. PICK i \in 1..Len(wal) : r[j] = wal[i]
          BY Zenon, <4>7, <4>8
        <5>3. Agrees(wal, committed)
          BY Zenon, <2>0, <2>1, WithinAgrees DEF StorageGood, LogInv, Whole
        <5>4. b + j - 1 <= n
          BY <4>8
        <5>5. r[j].cmd = committed[r[j].index]
          BY <4>2, <5>1, <5>2, <5>3, <5>4 DEF Agrees
        <5> QED
          BY Zenon, <5>1, <5>5 DEF LogEntry
      <4>11. ds \in Seq(Cmd) /\ Len(ds) = m /\ \A j \in 1..Len(ds) : ds[j] = committed[b + j - 1]
        BY <4>9, <4>10
      <4>12. b + Len(ds) - 1 <= Len(committed)
        BY Zenon, <4>2, <4>8, <4>11
      <4>13. Reached(ApplyAll(s, ds), IF Len(ds) = 0 THEN a ELSE b + Len(ds) - 1, committed)
        BY Zenon, <2>2, <2>3, <4>3, <4>11, <4>12, ReachedReplay
      <4>14. PICK c : c = IF Len(ds) = 0 THEN a ELSE b + Len(ds) - 1
        BY Zenon
      <4>15. c = IF m = 0 THEN a ELSE b + m - 1
        BY Zenon, <4>11, <4>14
      <4>16. c \in Nat /\ c >= n
        BY <4>3, <4>8, <4>15
      <4> QED
        BY Zenon, <4>2, <4>13, <4>14, <4>16
    <3> QED
      BY Zenon, <3>1, <3>2
  <2>7. Contents(ApplyAll(s, ds)) = Contents(ApplyAll(InitState, committed))
    BY Zenon, <2>2, <2>6, ReachedAll
  <2> QED
    BY Zenon, <2>5, <2>7
<1> QED
  BY <1>1, StorageInvariant, PTL
=============================================================================
