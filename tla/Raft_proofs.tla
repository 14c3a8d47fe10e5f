---------------------------- MODULE Raft_proofs ----------------------------
(***************************************************************************)
(* What is proved of the logs and the write-ahead logs of the Raft nodes,  *)
(* however many.  The loops over the entries of a request and over those   *)
(* of the log are recursive functions: that they exist, and what holds     *)
(* after each round, is shown by induction on the number of rounds.        *)
(***************************************************************************)
EXTENDS Raft, Lists_proofs

\* The provers get more time than by default; a step that is left to Zenon says so.
USE SMTT(20), ZenonT(20)

Entry == [term : Nat, index : Nat \ {0}]

----------------------------------------------------------------------------
(* The loop of handleAppendEntries *)

\* The loop over the entries of a request ends, with one result for each round.
LEMMA AppendAllRounds ==
    ASSUME NEW l, NEW es \in Seq(Entry)
    PROVE  \E f : /\ f[0] = [log |-> l, new |-> <<>>]
                  /\ \A i \in 1..Len(es) : f[i] = AppendNext(f[i - 1], es[i])
                  /\ AppendAll(l, es) = f[Len(es)]
<1> DEFINE start == [log |-> l, new |-> <<>>]
           Is(f, k) == f = [i \in 0..k |-> IF i = 0 THEN start ELSE AppendNext(f[i - 1], es[i])]
           S == {k \in Nat : \E f : Is(f, k)}
<1> HIDE DEF start
<1>1. 0 \in S
  <2>1. Is([i \in 0..0 |-> start], 0)
    OBVIOUS
  <2> QED
    BY Zenon, <2>1
<1>2. ASSUME NEW k \in Nat, k \in S PROVE k + 1 \in S
  <2>1. PICK f : Is(f, k)
    BY Zenon, <1>2
  <2> DEFINE g == [i \in 0..(k + 1) |-> IF i = k + 1 THEN AppendNext(f[k], es[k + 1]) ELSE f[i]]
  <2>2. Is(g, k + 1)
    <3> DEFINE h == [i \in 0..(k + 1) |-> IF i = 0 THEN start ELSE AppendNext(g[i - 1], es[i])]
    <3>1. ASSUME NEW i \in 0..(k + 1) PROVE g[i] = h[i]
      <4>1. CASE i = 0
        BY <2>1, <4>1
      <4>2. CASE i \in 1..k
        <5>1. g[i] = f[i] /\ g[i - 1] = f[i - 1]
          BY <4>2
        <5>2. f[i] = AppendNext(f[i - 1], es[i])
          BY <2>1, <4>2
        <5> QED
          BY <4>2, <5>1, <5>2
      <4>3. CASE i = k + 1
        BY <4>3
      <4> QED
        BY <4>1, <4>2, <4>3
    <3> QED
      BY Zenon, <3>1
  <2> HIDE DEF g
  <2>3. \E x : Is(x, k + 1)
    BY Zenon, <2>2
  <2> HIDE DEF Is
  <2> QED
    BY <2>3
<1>3. Len(es) \in S
  <2> HIDE DEF S
  <2>1. Nat \subseteq S
    BY Zenon, <1>1, <1>2, NaturalInduction
  <2> QED
    BY <2>1
<1>4. PICK f : f = CHOOSE g : Is(g, Len(es))
  BY Zenon
<1>5. Is(f, Len(es))
  BY Zenon, <1>3, <1>4
<1>6. AppendAll(l, es) = f[Len(es)]
  BY Zenon, <1>4 DEF AppendAll, start
<1>7. f[0] = start /\ \A i \in 1..Len(es) : f[i] = AppendNext(f[i - 1], es[i])
  BY <1>5
<1> QED
  BY Zenon, <1>6, <1>7 DEF start

\* The code's loops find the first place of an index.
LEMMA FirstPlace ==
    ASSUME NEW l \in Seq(Entry), NEW index, Places(l, index) # {}
    PROVE  First(Places(l, index)) \in Places(l, index)
<1> DEFINE P == Places(l, index)
<1>1. P \subseteq Nat
  BY DEF Places
<1> HIDE DEF P
<1>2. \E i \in P : \A j \in P : i <= j
  BY Zenon, <1>1, LeastNatural DEF P
<1>3. First(P) \in P
  BY Zenon, <1>2 DEF First
<1> QED
  BY Zenon, <1>3 DEF P

\* What Append adds to the range of a sequence.
LEMMA RangeOfAppend ==
    ASSUME NEW s \in Seq(Entry), NEW e \in Entry
    PROVE  Append(s, e) \in Seq(Entry) /\ Range(Append(s, e)) = Range(s) \cup {e}
<1>1. PICK n : n = Append(s, e)
  BY Zenon
<1>2. /\ Len(s) \in Nat /\ DOMAIN n = 1..(Len(s) + 1) /\ n[Len(s) + 1] = e
      /\ \A i \in 1..Len(s) : n[i] = s[i]
  BY <1>1
<1>3. ASSUME NEW x \in Range(s) PROVE x \in Range(n)
  <2>1. PICK i \in 1..Len(s) : s[i] = x
    BY DEF Range
  <2>2. i \in DOMAIN n /\ n[i] = x
    BY <1>2, <2>1
  <2> QED
    BY Zenon, <2>2 DEF Range
<1>4. e \in Range(n)
  <2>1. Len(s) + 1 \in DOMAIN n
    BY <1>2
  <2> QED
    BY Zenon, <1>2, <2>1 DEF Range
<1>5. Range(n) \subseteq Range(s) \cup {e}
  BY <1>2 DEF Range
<1> QED
  BY <1>1, <1>3, <1>4, <1>5

\* appendEntry leaves a log of old entries and the new one, or the log itself.
LEMMA AppendEntryRange ==
    ASSUME NEW l \in Seq(Entry), NEW e \in Entry
    PROVE  /\ appendEntry(l, e) \in Seq(Entry)
           /\ Range(appendEntry(l, e)) \subseteq Range(l) \cup {e}
<1>1. CASE Places(l, e.index) = {}
  BY <1>1 DEF appendEntry, Range
<1>2. CASE Places(l, e.index) # {}
  <2>1. PICK i : i = First(Places(l, e.index))
    BY Zenon
  <2>2. i \in 1..Len(l)
    <3>1. i \in Places(l, e.index)
      BY Zenon, <1>2, <2>1, FirstPlace
    <3> QED
      BY <3>1 DEF Places
  <2>3. SubSeq(l, 1, i - 1) \in Seq(Entry) /\ Range(SubSeq(l, 1, i - 1)) \subseteq Range(l)
    BY <2>2 DEF Range
  <2>4. appendEntry(l, e) = IF l[i].term # e.term THEN Append(SubSeq(l, 1, i - 1), e) ELSE l
    BY Zenon, <1>2, <2>1 DEF appendEntry
  <2>5. \A s \in Seq(Entry) : Append(s, e) \in Seq(Entry) /\ Range(Append(s, e)) \subseteq Range(s) \cup {e}
    BY DEF Range
  <2> QED
    BY Zenon, <2>3, <2>4, <2>5
<1> QED
  BY Zenon, <1>1, <1>2

\* The entries of the log after the loop are old ones or reported as new.
LEMMA AppendAllRange ==
    ASSUME NEW l \in Seq(Entry), NEW es \in Seq(Entry)
    PROVE  /\ AppendAll(l, es).log \in Seq(Entry) /\ AppendAll(l, es).new \in Seq(Entry)
           /\ Range(AppendAll(l, es).log) \subseteq Range(l) \cup Range(AppendAll(l, es).new)
<1>1. PICK f : /\ f[0] = [log |-> l, new |-> <<>>]
               /\ \A i \in 1..Len(es) : f[i] = AppendNext(f[i - 1], es[i])
               /\ AppendAll(l, es) = f[Len(es)]
  BY Zenon, AppendAllRounds
<1> DEFINE Holds(acc) == /\ acc.log \in Seq(Entry) /\ acc.new \in Seq(Entry)
                         /\ Range(acc.log) \subseteq Range(l) \cup Range(acc.new)
           S == {k \in Nat : k <= Len(es) => Holds(f[k])}
<1>2. 0 \in S
  <2>1. f[0].log = l /\ f[0].new = <<>>
    BY <1>1
  <2>2. f[0].new \in Seq(Entry)
    BY <2>1
  <2> QED
    BY Zenon, <2>1, <2>2
<1>3. ASSUME NEW k \in Nat, k \in S PROVE k + 1 \in S
  <2> SUFFICES ASSUME k + 1 <= Len(es) PROVE Holds(f[k + 1])
    OBVIOUS
  <2>1. PICK acc : acc = f[k]
    BY Zenon
  <2>2. PICK e \in Entry : e = es[k + 1]
    OBVIOUS
  <2>3. f[k + 1] = AppendNext(acc, e)
    BY <1>1, <2>1, <2>2
  <2>4. Holds(acc)
    BY <1>3, <2>1
  <2>5. PICK next : next = appendEntry(acc.log, e)
    BY Zenon
  <2>6. next \in Seq(Entry) /\ Range(next) \subseteq Range(acc.log) \cup {e}
    BY Zenon, <2>4, <2>5, AppendEntryRange
  <2>7. /\ f[k + 1].log = next
        /\ f[k + 1].new = IF next = acc.log THEN acc.new ELSE Append(acc.new, e)
    BY <2>3, <2>5 DEF AppendNext
  <2>8. /\ Append(acc.new, e) \in Seq(Entry)
        /\ Range(Append(acc.new, e)) = Range(acc.new) \cup {e}
    BY Zenon, <2>4, RangeOfAppend
  <2> QED
    BY Zenon, <2>4, <2>6, <2>7, <2>8
<1>4. Len(es) \in S
  <2> HIDE DEF S
  <2> QED
    BY <1>2, <1>3, NaturalInduction
<1> QED
  BY <1>1, <1>4

----------------------------------------------------------------------------
(* Ordered logs *)

\* Every index once and in order, terms that never decrease.
Ordered(l) == /\ \A i \in DOMAIN l : l[i].index = i
              /\ \A i, j \in DOMAIN l : i <= j => l[i].term <= l[j].term

UpToTerm(l, t) == \A i \in DOMAIN l : l[i].term <= t

\* What the entries of a request are: they follow the previous one without a gap.
Follow(es, prev, prevTerm, t) ==
    /\ \A j \in DOMAIN es : es[j].index = prev + j /\ prevTerm <= es[j].term /\ es[j].term <= t
    /\ \A i, j \in DOMAIN es : i <= j => es[i].term <= es[j].term

\* appendEntry keeps a log ordered if the entry leaves no gap and its term is at least
\* that of the one before.
LEMMA AppendEntryOrdered ==
    ASSUME NEW l \in Seq(Entry), NEW e \in Entry, NEW t \in Nat, Ordered(l), UpToTerm(l, t),
           e.term <= t, e.index <= Len(l) + 1, e.index > 1 => l[e.index - 1].term <= e.term
    PROVE  LET next == appendEntry(l, e) IN
           /\ Ordered(next) /\ UpToTerm(next, t)
           /\ e.index <= Len(next) /\ next[e.index].term = e.term
<1>1. PICK x \in Nat \ {0} : x = e.index
  BY Zenon DEF Entry
<1>2. PICK next : next = appendEntry(l, e)
  BY Zenon
<1>3. next \in Seq(Entry)
  BY Zenon, <1>2, AppendEntryRange
<1>4. CASE x = Len(l) + 1
  <2>1. Places(l, x) = {}
    BY <1>4 DEF Places, Ordered
  <2>2. next = Append(l, e)
    BY Zenon, <1>1, <1>2, <2>1 DEF appendEntry
  <2>3. /\ Len(next) = x /\ next[x] = e
        /\ \A i \in 1..Len(l) : next[i] = l[i] /\ l[i] \in Entry
    BY <1>4, <2>2
  <2>4. \A i \in 1..Len(l) : l[i].term <= e.term
    <3> SUFFICES ASSUME NEW i \in 1..Len(l) PROVE l[i].term <= e.term
      BY Zenon
    <3>1. l[i].term <= l[Len(l)].term /\ l[Len(l)].term <= e.term
      BY <1>1, <1>4 DEF Ordered
    <3>2. l[i] \in Entry /\ l[Len(l)] \in Entry
      OBVIOUS
    <3> QED
      BY <3>1, <3>2 DEF Entry
  <2>5. Ordered(next)
    <3>3. \A i \in 1..x : i \in 1..Len(l) \/ i = x
      BY <1>4
    <3>1. \A i \in 1..x : next[i].index = i
      BY <1>1, <2>3, <3>3 DEF Ordered
    <3>2. ASSUME NEW i \in 1..x, NEW j \in 1..x, i <= j PROVE next[i].term <= next[j].term
      <4>1. CASE j = x /\ i = x
        BY <2>3, <4>1 DEF Entry
      <4>2. CASE j = x /\ i \in 1..Len(l)
        BY Zenon, <2>3, <2>4, <4>2
      <4>3. CASE j \in 1..Len(l)
        BY <2>3, <3>2, <4>3 DEF Ordered
      <4> QED
        BY Zenon, <3>3, <4>1, <4>2, <4>3
    <3> QED
      BY <1>3, <2>3, <3>1, <3>2 DEF Ordered
  <2>6. UpToTerm(next, t)
    BY <1>3, <1>4, <2>3 DEF UpToTerm
  <2> QED
    BY <1>1, <1>2, <2>3, <2>5, <2>6
<1>5. CASE x \in 1..Len(l)
  <2>1. Places(l, x) = {x} /\ l[x].index = x /\ l[x] \in Entry
    BY <1>5 DEF Places, Ordered
  <2>2. First({x}) = x
    BY DEF First
  <2>3. next = IF l[x].term # e.term THEN Append(SubSeq(l, 1, x - 1), e) ELSE l
    BY Zenon, <1>1, <1>2, <2>1, <2>2 DEF appendEntry
  <2>4. CASE l[x].term = e.term
    BY <1>1, <1>2, <1>5, <2>3, <2>4
  <2>5. CASE l[x].term # e.term
    <3>1. next = Append(SubSeq(l, 1, x - 1), e)
      BY Zenon, <2>3, <2>5
    <3>2. /\ Len(next) = x /\ next[x] = e
          /\ \A i \in 1..(x - 1) : next[i] = l[i] /\ l[i] \in Entry
      BY <1>5, <3>1
    <3>3. \A i \in 1..(x - 1) : l[i].term <= e.term
      <4> SUFFICES ASSUME NEW i \in 1..(x - 1) PROVE l[i].term <= e.term
        BY Zenon
      <4>1. l[i].term <= l[x - 1].term /\ l[x - 1].term <= e.term
        BY <1>1, <1>5 DEF Ordered
      <4>2. l[i] \in Entry /\ l[x - 1] \in Entry
        BY <1>5
      <4>3. l[i].term \in Nat /\ l[x - 1].term \in Nat /\ e.term \in Nat
        BY Zenon, <4>2 DEF Entry
      <4> QED
        BY <4>1, <4>3
    <3>4. Ordered(next)
      <4>1. \A i \in 1..x : next[i].index = i
        BY <1>1, <1>5, <3>2 DEF Ordered
      <4>2. ASSUME NEW i \in 1..x, NEW j \in 1..x, i <= j PROVE next[i].term <= next[j].term
        <5>1. CASE j = x /\ i = x
          BY <3>2, <5>1 DEF Entry
        <5>2. CASE j = x /\ i \in 1..(x - 1)
          BY Zenon, <3>2, <3>3, <5>2
        <5>3. CASE j \in 1..(x - 1)
          BY <1>5, <3>2, <4>2, <5>3 DEF Ordered
        <5> QED
          BY <5>1, <5>2, <5>3
      <4> QED
        BY <1>3, <3>2, <4>1, <4>2 DEF Ordered
    <3>5. UpToTerm(next, t)
      BY <1>3, <1>5, <3>2 DEF UpToTerm
    <3> QED
      BY <1>1, <1>2, <3>2, <3>4, <3>5
  <2> QED
    BY Zenon, <2>4, <2>5
<1> QED
  BY <1>1, <1>4, <1>5
\* The loop of handleAppendEntries keeps a log ordered that has the entry before the
\* first of the request.
LEMMA AppendAllOrdered ==
    ASSUME NEW l \in Seq(Entry), NEW es \in Seq(Entry), NEW prev \in Nat, NEW prevTerm \in Nat,
           NEW t \in Nat, Ordered(l), UpToTerm(l, t), Follow(es, prev, prevTerm, t),
           prev = 0 \/ hasLogEntry(l, prev, prevTerm)
    PROVE  Ordered(AppendAll(l, es).log) /\ UpToTerm(AppendAll(l, es).log, t)
<1>1. PICK f : /\ f[0] = [log |-> l, new |-> <<>>]
               /\ \A i \in 1..Len(es) : f[i] = AppendNext(f[i - 1], es[i])
               /\ AppendAll(l, es) = f[Len(es)]
  BY Zenon, AppendAllRounds
<1> DEFINE TermOf(k) == IF k = 0 THEN prevTerm ELSE es[k].term
           Holds(log, k) == /\ log \in Seq(Entry) /\ Ordered(log) /\ UpToTerm(log, t)
                            /\ prev + k <= Len(log)
                            /\ prev + k > 0 => log[prev + k].term = TermOf(k)
           S == {k \in Nat : k <= Len(es) => Holds(f[k].log, k)}
<1>2. 0 \in S
  <2>1. f[0].log = l
    BY <1>1
  <2>2. prev > 0 => prev <= Len(l) /\ l[prev].term = prevTerm
    BY DEF hasLogEntry, Ordered
  <2> QED
    BY <2>1, <2>2
<1>3. ASSUME NEW k \in Nat, k \in S PROVE k + 1 \in S
  <2> SUFFICES ASSUME k + 1 <= Len(es) PROVE Holds(f[k + 1].log, k + 1)
    OBVIOUS
  <2>1. PICK log : log = f[k].log
    BY Zenon
  <2>2. PICK e \in Entry : e = es[k + 1]
    OBVIOUS
  <2>3. f[k + 1].log = appendEntry(log, e)
    <3>1. k + 1 \in 1..Len(es) /\ (k + 1) - 1 = k
      OBVIOUS
    <3>2. f[k + 1] = AppendNext(f[k], e)
      BY Zenon, <1>1, <2>2, <3>1
    <3> QED
      BY <2>1, <3>2 DEF AppendNext
  <2>4. Holds(log, k)
    BY <1>3, <2>1
  <2>5. e.index = prev + k + 1 /\ prevTerm <= e.term /\ e.term <= t
    <3>1. k + 1 \in DOMAIN es
      OBVIOUS
    <3> QED
      BY <2>2, <3>1 DEF Follow
  <2>6. TermOf(k) <= e.term
    <3>1. CASE k = 0
      BY Zenon, <2>5, <3>1
    <3>2. CASE k # 0
      <4>1. k \in DOMAIN es /\ k + 1 \in DOMAIN es /\ k <= k + 1
        BY <3>2
      <4> QED
        BY Zenon, <2>2, <3>2, <4>1 DEF Follow
    <3> QED
      BY Zenon, <3>1, <3>2
  <2>7. e.index <= Len(log) + 1 /\ (e.index > 1 => log[e.index - 1].term <= e.term)
    BY <2>4, <2>5, <2>6
  <2>8. PICK next : next = appendEntry(log, e)
    BY Zenon
  <2>9. Ordered(next) /\ UpToTerm(next, t) /\ e.index <= Len(next) /\ next[e.index].term = e.term
    BY Zenon, <2>4, <2>5, <2>7, <2>8, AppendEntryOrdered
  <2>10. next \in Seq(Entry)
    BY Zenon, <2>4, <2>8, AppendEntryRange
  <2> QED
    BY <2>2, <2>3, <2>5, <2>8, <2>9, <2>10
<1>4. Len(es) \in S
  <2> HIDE DEF S
  <2> QED
    BY <1>2, <1>3, NaturalInduction
<1> QED
  BY <1>1, <1>4

----------------------------------------------------------------------------
(* The loop of sendAppendEntriesToAll *)

\* What it collects are entries of the log.
LEMMA EntriesBetweenType ==
    ASSUME NEW l \in Seq(Entry), NEW next, NEW last
    PROVE  EntriesBetween(l, next, last) \in Seq(Entry)
BY Zenon, OnlyMembers DEF EntriesBetween

\* Of an ordered log, it collects the entries from next on, without a gap.
LEMMA EntriesBetweenOrdered ==
    ASSUME NEW l \in Seq(Entry), NEW next \in Nat \ {0}, NEW last \in Nat, Ordered(l)
    PROVE  LET es == EntriesBetween(l, next, last) IN
           \A j \in DOMAIN es : next + j - 1 \in DOMAIN l /\ es[j] = l[next + j - 1]
<1>1. PICK n \in Nat : n = Len(l)
  OBVIOUS
<1>2. PICK o \in Nat : o = IF next - 1 <= n THEN next - 1 ELSE n
  OBVIOUS
<1>3. PICK p \in Nat : p = IF last < o THEN o ELSE IF last <= n THEN last ELSE n
  BY Zenon, <1>2
<1>4. o <= p /\ p <= Len(l)
  BY <1>1, <1>2, <1>3
<1>5. PICK T : T = {e \in Range(l) : e.index >= next /\ e.index <= last}
  BY Zenon
<1>6. ASSUME NEW i \in 1..n PROVE l[i] \in T <=> o < i /\ i <= p
  <2>1. l[i].index = i /\ l[i] \in Range(l)
    BY <1>1 DEF Ordered, Range
  <2>2. l[i] \in T <=> i >= next /\ i <= last
    BY Zenon, <1>5, <2>1
  <2>3. i >= next /\ i <= last <=> o < i /\ i <= p
    BY <1>2, <1>3
  <2> QED
    BY Zenon, <2>2, <2>3
<1>7. Window(l, T, o, p)
  BY Zenon, <1>1, <1>6 DEF Window
<1>8. PICK es : es = EntriesBetween(l, next, last)
  BY Zenon
<1>9. es \in Seq(Entry) /\ Part(es, l, o, p)
  BY Zenon, <1>4, <1>5, <1>7, <1>8, OnlyWindow DEF EntriesBetween
<1>10. ASSUME NEW j \in DOMAIN es PROVE next + j - 1 \in DOMAIN l /\ es[j] = l[next + j - 1]
  <2>1. j \in 1..(p - o)
    BY <1>9 DEF Part
  <2>2. o + j = next + j - 1 /\ o + j \in 1..n
    BY <1>2, <1>3, <2>1
  <2> QED
    BY <1>1, <1>9, <2>1, <2>2 DEF Part
<1> QED
  BY Zenon, <1>8, <1>10
----------------------------------------------------------------------------
(* Types *)

MessageOK(m) ==
    /\ m.from \in Node /\ m.to \in Node /\ m.term \in Nat
    /\ m.type = "append" => m.entries \in Seq(Entry) /\ m.prevIndex \in Int /\ m.prevTerm \in Nat
    /\ m.type = "appendResponse" => m.index \in Nat

\* The types of the variables the logs depend on; what Propose has logged and not yet
\* persisted is an entry.
NodesOK ==
    /\ state \in [Node -> {"follower", "candidate", "leader"}]
    /\ currentTerm \in [Node -> Nat]
    /\ logEntries \in [Node -> Seq(Entry)] /\ wal \in [Node -> Seq(Entry)]
    /\ lost \in [Node -> SUBSET Entry]
    /\ nextIndex \in [Node -> [Node -> Nat]]
    /\ proposing \in [Node -> {"no", "checked", "logged", "sending"}]
    /\ proposed \in [Node -> Entry \cup {NoEntry}]
    /\ \A n \in Node : proposing[n] = "logged" <=> proposed[n] \in Entry
    /\ sendLast \in [Node -> Nat]
    /\ restarts \in Nat
    /\ \A m \in msgs : MessageOK(m)

\* The types of what Propose sends, to others only; a request is built while it sends.
Request == [stage : {"none", "next", "prev", "entries"}, to : Node \cup {Nil}, next : Nat,
            prevTerm : Nat, entries : Seq(Entry)]
BuildsOK ==
    /\ sendTo \in [Node -> SUBSET Node] /\ \A n \in Node : sendTo[n] \subseteq Peers(n)
    /\ request \in [Node -> Request]
    /\ \A n \in Node : request[n].stage # "none" =>
                          request[n].to \in Peers(n) /\ proposing[n] = "sending"

\* The last index and term of a log are numbers.
LEMMA LastNumbers ==
    ASSUME NEW l \in Seq(Entry)
    PROVE  LastIndex(l) \in Nat /\ LastTerm(l) \in Nat
<1>1. CASE l = <<>>
  BY Zenon, <1>1 DEF LastIndex, LastTerm
<1>2. CASE l # <<>>
  <2>1. l[Len(l)] \in Entry
    BY <1>2
  <2> QED
    BY Zenon, <1>2, <2>1 DEF LastIndex, LastTerm, Entry
<1> QED
  BY Zenon, <1>1, <1>2

\* So is the term at an index.
LEMMA TermAtNumber ==
    ASSUME NEW l \in Seq(Entry), NEW index
    PROVE  TermAt(l, index) \in Nat
<1>1. CASE Places(l, index) = {}
  BY Zenon, <1>1 DEF TermAt
<1>2. CASE Places(l, index) # {}
  <2>1. PICK i : i = First(Places(l, index))
    BY Zenon
  <2>2. i \in Places(l, index)
    BY Zenon, <1>2, <2>1, FirstPlace
  <2>3. l[i] \in Entry
    BY <2>2 DEF Places
  <2> QED
    BY Zenon, <1>2, <2>1, <2>3 DEF TermAt, Entry
<1> QED
  BY Zenon, <1>1, <1>2

\* An append request is well-formed.
LEMMA AppendMsgOK ==
    ASSUME NodesOK, NEW n \in Node, NEW p \in Node, NEW prev \in Int, NEW prevTerm \in Nat,
           NEW es \in Seq(Entry)
    PROVE  MessageOK(AppendMsg(n, p, prev, prevTerm, es))
BY Zenon DEF MessageOK, AppendMsg, NodesOK

\* Messages stay well-formed when well-formed ones are sent.
LEMMA SendKeeps ==
    ASSUME NEW done, NEW new, Send(done, new), \A m \in msgs : MessageOK(m),
           \A m \in new : MessageOK(m)
    PROVE  \A m \in msgs' : MessageOK(m)
BY Zenon DEF Send

\* The term and the state of the receiver of a message when its handler begins.
LEMMA NowTypes ==
    ASSUME NodesOK, NEW m \in msgs
    PROVE  /\ m.to \in Node /\ m.from \in Node /\ m.term \in Nat
           /\ TermNow(m) \in Nat /\ TermNow(m) >= currentTerm[m.to] /\ TermNow(m) >= m.term
           /\ StateNow(m) \in {"follower", "candidate", "leader"}
BY DEF NodesOK, MessageOK, TermNow, StateNow, Newer

\* A write changes only what is on disk, or is counted as lost.
LEMMA PersistKeeps ==
    ASSUME NodesOK, NEW n \in Node, NEW es \in Seq(Entry), NEW ok, Persist(n, es, ok)
    PROVE  /\ wal' \in [Node -> Seq(Entry)] /\ lost' \in [Node -> SUBSET Entry]
           /\ \A p \in Node : Range(wal[p]) \subseteq Range(wal'[p]) /\ lost[p] \subseteq lost'[p]
           /\ Range(es) \subseteq Range(wal'[n]) \cup lost'[n]
<1>1. CASE es = <<>> /\ UNCHANGED <<wal, lost>>
  BY <1>1 DEF NodesOK, Range
<1>2. CASE /\ wal' = [wal EXCEPT ![n] = @ \o es]
           /\ UNCHANGED lost
  <2>1. PICK w \in Seq(Entry) : w = wal[n]
    BY Zenon DEF NodesOK
  <2>2. PICK r : r = w \o es
    BY Zenon
  <2>3. /\ r \in Seq(Entry) /\ Len(r) = Len(w) + Len(es)
        /\ \A i \in 1..Len(w) : r[i] = w[i]
        /\ \A i \in 1..Len(es) : r[Len(w) + i] = es[i]
    BY <2>2
  <2>4. ASSUME NEW x \in Range(w) PROVE x \in Range(r)
    <3>1. PICK i \in 1..Len(w) : w[i] = x
      BY DEF Range
    <3>2. i \in DOMAIN r /\ r[i] = x
      BY <2>3, <3>1
    <3> QED
      BY Zenon, <3>2 DEF Range
  <2>5. ASSUME NEW x \in Range(es) PROVE x \in Range(r)
    <3>1. PICK i \in 1..Len(es) : es[i] = x
      BY DEF Range
    <3>2. Len(w) + i \in DOMAIN r /\ r[Len(w) + i] = x
      BY <2>3, <3>1
    <3> QED
      BY Zenon, <3>2 DEF Range
  <2>6. wal' = [wal EXCEPT ![n] = r]
    BY Zenon, <1>2, <2>1, <2>2
  <2>7. /\ wal' \in [Node -> Seq(Entry)] /\ wal'[n] = r
        /\ \A p \in Node \ {n} : wal'[p] = wal[p]
    BY Zenon, <2>3, <2>6 DEF NodesOK
  <2>8. Range(w) \subseteq Range(r) /\ Range(es) \subseteq Range(r)
    BY Zenon, <2>4, <2>5
  <2>9. lost' \in [Node -> SUBSET Entry] /\ lost' = lost
    BY Zenon, <1>2 DEF NodesOK
  <2> QED
    BY <2>1, <2>7, <2>8, <2>9
<1>3. CASE lost' = [lost EXCEPT ![n] = @ \cup Range(es)] /\ UNCHANGED wal
  <2>1. Range(es) \subseteq Entry
    BY DEF Range
  <2> QED
    BY Zenon, <1>3, <2>1 DEF NodesOK
<1> QED
  BY Zenon, <1>1, <1>2, <1>3 DEF Persist
\* Every step keeps the types.
LEMMA NodesStep == NodesOK /\ BuildsOK /\ [RaftNext]_rvars => NodesOK'
<1> SUFFICES ASSUME NodesOK, BuildsOK, [RaftNext]_rvars PROVE NodesOK'
  BY Zenon
<1> USE DEF electionVars, leaderVars, logVars, applyVars, proposeVars, taskVars, pastVars
<1>1. \A m \in msgs : MessageOK(m)
  BY Zenon DEF NodesOK
<1>2. NoEntry \notin Entry
  BY Zenon DEF NoEntry, Entry
<1>3. ASSUME NEW n \in Node, onElectionTimeout(n) PROVE NodesOK'
  <2>1. PICK new : new = {[type |-> "voteRequest", from |-> n, to |-> p, term |-> currentTerm[n] + 1,
                  lastIndex |-> LastIndex(logEntries[n]),
                  lastTerm |-> LastTerm(logEntries[n])] : p \in Peers(n)}
    BY Zenon
  <2>2. Send({}, new)
    BY Zenon, <1>3, <2>1 DEF onElectionTimeout
  <2>3. \A m \in new : MessageOK(m)
    BY <2>1 DEF MessageOK, Peers, NodesOK
  <2>4. \A m \in msgs' : MessageOK(m)
    BY Zenon, <1>1, <2>2, <2>3, SendKeeps
  <2> QED
    BY <1>3, <2>4 DEF onElectionTimeout, NodesOK
<1>4. ASSUME NEW n \in Node, \/ HeartbeatCheck(n) \/ ProposeCheck(n) \/ ApplyCommitted(n)
                             \/ ProposePrev(n) \/ ProposeEntries(n) \/ \E p \in Node : ProposeNext(n, p)
      PROVE  NodesOK'
  <2>1. /\ UNCHANGED <<state, currentTerm, logEntries, wal, lost, nextIndex, proposed, sendLast,
                       restarts, msgs>>
        /\ \/ proposing' = proposing
           \/ proposing[n] = "no" /\ proposing' = [proposing EXCEPT ![n] = "checked"]
    BY Zenon, <1>4 DEF HeartbeatCheck, ProposeCheck, ApplyCommitted, ProposePrev, ProposeEntries, ProposeNext
  <2> QED
    BY Zenon, <2>1 DEF NodesOK
<1>5. ASSUME NEW n \in Node, HeartbeatSend(n) PROVE NodesOK'
  <2>1. PICK l \in Seq(Entry) : l = logEntries[n]
    BY Zenon DEF NodesOK
  <2>2. PICK new : new = {AppendMsg(n, p, LastIndex(l), LastTerm(l), <<>>) : p \in Peers(n)}
    BY Zenon
  <2>3. Send({}, new)
    BY Zenon, <1>5, <2>1, <2>2 DEF HeartbeatSend
  <2>4. <<>> \in Seq(Entry) /\ LastIndex(l) \in Nat /\ LastTerm(l) \in Nat
    BY LastNumbers
  <2>5. \A m \in new : MessageOK(m)
    <3> SUFFICES ASSUME NEW p \in Peers(n)
                 PROVE  MessageOK(AppendMsg(n, p, LastIndex(l), LastTerm(l), <<>>))
      BY Zenon, <2>2
    <3>1. p \in Node /\ LastIndex(l) \in Int
      BY <2>4 DEF Peers
    <3> QED
      BY Zenon, <2>4, <3>1, AppendMsgOK
  <2>6. \A m \in msgs' : MessageOK(m)
    BY Zenon, <1>1, <2>3, <2>5, SendKeeps
  <2> QED
    BY Zenon, <1>5, <2>6 DEF HeartbeatSend, NodesOK
<1>6. ASSUME NEW n \in Node, ProposeLog(n) PROVE NodesOK'
  <2>1. PICK e : e = [term |-> currentTerm[n], index |-> LastIndex(logEntries[n]) + 1]
    BY Zenon
  <2>2. e \in Entry
    <3>1. LastIndex(logEntries[n]) \in Nat
      BY Zenon, LastNumbers DEF NodesOK
    <3> QED
      BY <2>1, <3>1 DEF NodesOK, Entry
  <2>3. /\ proposing' = [proposing EXCEPT ![n] = "logged"]
        /\ logEntries' = [logEntries EXCEPT ![n] = Append(@, e)]
        /\ proposed' = [proposed EXCEPT ![n] = e]
        /\ UNCHANGED <<state, currentTerm, wal, lost, nextIndex, sendLast, restarts, msgs>>
    BY Zenon, <1>6, <2>1 DEF ProposeLog
  <2> QED
    BY <2>2, <2>3 DEF NodesOK
<1>7. ASSUME NEW n \in Node, ProposePersist(n) PROVE NodesOK'
  <2>1. PICK ok \in BOOLEAN :
          /\ Persist(n, <<proposed[n]>>, ok)
          /\ proposing' = [proposing EXCEPT ![n] = IF ok /\ Peers(n) # {} THEN "sending" ELSE "no"]
          /\ sendLast' = [sendLast EXCEPT ![n] = IF ok THEN LastIndex(logEntries[n]) ELSE 0]
    BY Zenon, <1>7 DEF ProposePersist
  <2>2. <<proposed[n]>> \in Seq(Entry)
    BY <1>7 DEF ProposePersist, NodesOK
  <2>3. wal' \in [Node -> Seq(Entry)] /\ lost' \in [Node -> SUBSET Entry]
    BY Zenon, <2>1, <2>2, PersistKeeps
  <2>4. LastIndex(logEntries[n]) \in Nat
    BY Zenon, LastNumbers DEF NodesOK
  <2>5. /\ proposed' = [proposed EXCEPT ![n] = NoEntry]
        /\ UNCHANGED <<state, currentTerm, logEntries, nextIndex, restarts, msgs>>
    BY Zenon, <1>7 DEF ProposePersist
  <2>6. /\ proposing' \in [Node -> {"no", "checked", "logged", "sending"}]
        /\ \A p \in Node : proposing'[p] = "logged" <=> proposed'[p] \in Entry
    BY <1>2, <2>1, <2>5 DEF NodesOK
  <2> QED
    BY Zenon, <2>1, <2>3, <2>4, <2>5, <2>6 DEF NodesOK
<1>8. ASSUME NEW n \in Node, ProposeSend(n) PROVE NodesOK'
  <2>1. PICK r \in Request : r = request[n] /\ r.stage = "entries" /\ r.to \in Node /\ proposing[n] = "sending"
    BY Zenon, <1>8 DEF ProposeSend, BuildsOK, Peers
  <2>2. PICK m : m = AppendMsg(n, r.to, r.next - 1, r.prevTerm, r.entries)
    BY Zenon
  <2>3. Send({}, {m})
    BY Zenon, <1>8, <2>1, <2>2 DEF ProposeSend
  <2>4. MessageOK(m)
    <3>1. r.next - 1 \in Int /\ r.prevTerm \in Nat /\ r.entries \in Seq(Entry)
      BY DEF Request
    <3> QED
      BY Zenon, <2>1, <2>2, <3>1, AppendMsgOK
  <2>5. \A x \in msgs' : MessageOK(x)
    BY Zenon, <1>1, <2>3, <2>4, SendKeeps
  <2>6. /\ proposing[n] = "sending"
        /\ proposing' = [proposing EXCEPT ![n] = IF sendTo[n] # {} THEN @ ELSE "no"]
        /\ sendLast' = [sendLast EXCEPT ![n] = IF sendTo[n] # {} THEN @ ELSE 0]
        /\ UNCHANGED <<state, currentTerm, logEntries, wal, lost, nextIndex, proposed, restarts>>
    BY Zenon, <1>8, <2>1 DEF ProposeSend
  <2>7. /\ proposing' \in [Node -> {"no", "checked", "logged", "sending"}]
        /\ \A q \in Node : proposing'[q] = "logged" <=> proposed'[q] \in Entry
    BY Zenon, <1>2, <2>6 DEF NodesOK
  <2> QED
    BY Zenon, <2>5, <2>6, <2>7 DEF NodesOK
<1>9. ASSUME NEW n \in Node, Restart(n) PROVE NodesOK'
  <2>1. /\ proposing' = [proposing EXCEPT ![n] = "no"] /\ proposed' = [proposed EXCEPT ![n] = NoEntry]
        /\ logEntries' = [logEntries EXCEPT ![n] = wal[n]] /\ wal' = wal
    BY Zenon, <1>9 DEF Restart
  <2>2. /\ proposing' \in [Node -> {"no", "checked", "logged", "sending"}]
        /\ \A q \in Node : proposing'[q] = "logged" <=> proposed'[q] \in Entry
        /\ logEntries' \in [Node -> Seq(Entry)] /\ wal' \in [Node -> Seq(Entry)]
        /\ proposed' \in [Node -> Entry \cup {NoEntry}]
    BY Zenon, <1>2, <2>1 DEF NodesOK
  <2> QED
    BY <1>9, <2>2 DEF Restart, NodesOK
<1>10. ASSUME NEW m \in msgs, handleVoteRequest(m) PROVE NodesOK'
  <2>1. /\ currentTerm' = [currentTerm EXCEPT ![m.to] = TermNow(m)]
        /\ state' = [state EXCEPT ![m.to] = StateNow(m)]
        /\ UNCHANGED <<logEntries, wal, lost, nextIndex, proposing, proposed, sendLast, restarts>>
    BY Zenon, <1>10 DEF handleVoteRequest, Becomes
  <2>2. PICK g : Reply(m, [type |-> "voteResponse", from |-> m.to, to |-> m.from,
                           term |-> TermNow(m), granted |-> g])
    BY Zenon, <1>10 DEF handleVoteRequest
  <2>3. \A x \in msgs' : MessageOK(x)
    <3>1. PICK r : r = [type |-> "voteResponse", from |-> m.to, to |-> m.from,
                        term |-> TermNow(m), granted |-> g]
      BY Zenon
    <3>2. MessageOK(r)
      BY Zenon, <3>1, NowTypes DEF MessageOK
    <3> QED
      BY Zenon, <1>1, <2>2, <3>1, <3>2, SendKeeps DEF Reply
  <2> QED
    BY Zenon, <2>1, <2>3, NowTypes DEF NodesOK
<1>11. ASSUME NEW m \in msgs, handleVoteResponse(m) PROVE NodesOK'
  <2>1. /\ currentTerm' = [currentTerm EXCEPT ![m.to] = TermNow(m)]
        /\ \/ state' = [state EXCEPT ![m.to] = "leader"] \/ state' = [state EXCEPT ![m.to] = StateNow(m)]
        /\ \/ nextIndex' = [nextIndex EXCEPT ![m.to] = [p \in Node |-> LastIndex(logEntries[m.to]) + 1]]
           \/ nextIndex' = nextIndex
        /\ msgs' = msgs \ {m}
        /\ UNCHANGED <<logEntries, wal, lost, proposing, proposed, sendLast, restarts>>
    BY Zenon, <1>11 DEF handleVoteResponse, Becomes
  <2>2. LastIndex(logEntries[m.to]) \in Nat
    BY Zenon, NowTypes, LastNumbers DEF NodesOK
  <2>3. nextIndex' \in [Node -> [Node -> Nat]]
    <3>1. PICK row : row = [p \in Node |-> LastIndex(logEntries[m.to]) + 1]
      BY Zenon
    <3>2. row \in [Node -> Nat]
      BY <2>2, <3>1
    <3> QED
      BY ZenonT(30), <2>1, <3>1, <3>2 DEF NodesOK
  <2>4. /\ state' \in [Node -> {"follower", "candidate", "leader"}]
        /\ currentTerm' \in [Node -> Nat]
    <3>1. state' = [state EXCEPT ![m.to] = "leader"] => state' \in [Node -> {"follower", "candidate", "leader"}]
      BY Zenon DEF NodesOK
    <3>2. state' = [state EXCEPT ![m.to] = StateNow(m)] => state' \in [Node -> {"follower", "candidate", "leader"}]
      BY NowTypes DEF NodesOK
    <3>3. currentTerm' \in [Node -> Nat]
      BY Zenon, <2>1, NowTypes DEF NodesOK
    <3> QED
      BY Zenon, <2>1, <3>1, <3>2, <3>3
  <2> QED
    BY Zenon, <2>1, <2>3, <2>4 DEF NodesOK
<1>12. ASSUME NEW m \in msgs, handleAppendEntries(m) PROVE NodesOK'
  <2>1. PICK after, success :
          /\ \/ after = AppendAll(logEntries[m.to], m.entries)
             \/ after = [log |-> logEntries[m.to], new |-> <<>>]
          /\ m.type = "append"
          /\ currentTerm' = [currentTerm EXCEPT ![m.to] = TermNow(m)]
          /\ state' = [state EXCEPT ![m.to] = StateNow(m)]
          /\ logEntries' = [logEntries EXCEPT ![m.to] = after.log]
          /\ \E ok \in BOOLEAN : Persist(m.to, after.new, ok)
          /\ Reply(m, [type |-> "appendResponse", from |-> m.to, to |-> m.from,
                       term |-> TermNow(m), success |-> success, index |-> LastIndex(after.log)])
          /\ UNCHANGED <<nextIndex, proposing, proposed, sendLast, restarts>>
    BY Zenon, <1>12 DEF handleAppendEntries, Becomes
  <2>2. m.entries \in Seq(Entry) /\ logEntries[m.to] \in Seq(Entry) /\ <<>> \in Seq(Entry)
    BY <1>1, <2>1 DEF MessageOK, NodesOK
  <2>3. after.log \in Seq(Entry) /\ after.new \in Seq(Entry)
    <3>1. CASE after = AppendAll(logEntries[m.to], m.entries)
      BY Zenon, <2>2, <3>1, AppendAllRange
    <3>2. CASE after = [log |-> logEntries[m.to], new |-> <<>>]
      BY Zenon, <2>2, <3>2
    <3> QED
      BY Zenon, <2>1, <3>1, <3>2
  <2>4. wal' \in [Node -> Seq(Entry)] /\ lost' \in [Node -> SUBSET Entry]
    BY Zenon, <2>1, <2>3, PersistKeeps, NowTypes
  <2>5. \A x \in msgs' : MessageOK(x)
    <3>1. PICK r : r = [type |-> "appendResponse", from |-> m.to, to |-> m.from,
                       term |-> TermNow(m), success |-> success, index |-> LastIndex(after.log)]
      BY Zenon
    <3>2. MessageOK(r)
      BY Zenon, <2>3, <3>1, NowTypes, LastNumbers DEF MessageOK
    <3> QED
      BY Zenon, <1>1, <2>1, <3>1, <3>2, SendKeeps DEF Reply
  <2> QED
    BY Zenon, <2>1, <2>3, <2>4, <2>5, NowTypes DEF NodesOK
<1>13. ASSUME NEW m \in msgs, handleAppendEntriesResponse(m) PROVE NodesOK'
  <2>1. /\ m.type = "appendResponse"
        /\ currentTerm' = [currentTerm EXCEPT ![m.to] = TermNow(m)]
        /\ state' = [state EXCEPT ![m.to] = StateNow(m)]
        /\ \/ nextIndex' = [nextIndex EXCEPT ![m.to][m.from] = m.index + 1]
           \/ nextIndex' = [nextIndex EXCEPT ![m.to][m.from] = IF StateNow(m) = "leader" /\ @ > 1 THEN @ - 1 ELSE @]
        /\ msgs' = msgs \ {m}
        /\ UNCHANGED <<logEntries, wal, lost, proposing, proposed, sendLast, restarts>>
    BY Zenon, <1>13 DEF handleAppendEntriesResponse, Stays, Becomes
  <2>2. nextIndex' \in [Node -> [Node -> Nat]]
    <3>1. m.to \in Node /\ m.from \in Node /\ m.index \in Nat /\ nextIndex[m.to][m.from] \in Nat
      <4>1. MessageOK(m)
        BY Zenon, <1>1
      <4>2. m.to \in Node /\ m.from \in Node /\ m.index \in Nat
        BY Zenon, <2>1, <4>1 DEF MessageOK
      <4> QED
        BY <4>2 DEF NodesOK
    <3>2. PICK x \in Nat : nextIndex' = [nextIndex EXCEPT ![m.to][m.from] = x]
      <4>1. CASE nextIndex' = [nextIndex EXCEPT ![m.to][m.from] = m.index + 1]
        <5>1. m.index + 1 \in Nat
          BY <3>1
        <5> QED
          BY Zenon, <4>1, <5>1
      <4>2. CASE nextIndex' = [nextIndex EXCEPT ![m.to][m.from] =
                                 IF StateNow(m) = "leader" /\ @ > 1 THEN @ - 1 ELSE @]
        <5>1. PICK x : x = IF StateNow(m) = "leader" /\ nextIndex[m.to][m.from] > 1
                           THEN nextIndex[m.to][m.from] - 1 ELSE nextIndex[m.to][m.from]
          BY Zenon
        <5>2. x \in Nat
          BY <3>1, <5>1
        <5>3. nextIndex' = [nextIndex EXCEPT ![m.to][m.from] = x]
          BY Zenon, <4>2, <5>1
        <5> QED
          BY Zenon, <5>2, <5>3
      <4> QED
        BY Zenon, <2>1, <4>1, <4>2
    <3> QED
      BY Zenon, <3>1, <3>2 DEF NodesOK
  <2> QED
    BY Zenon, <2>1, <2>2, NowTypes DEF NodesOK
<1>14. CASE UNCHANGED rvars
  BY Zenon, <1>14 DEF rvars, NodesOK
<1> QED
  BY Zenon, <1>3, <1>4, <1>5, <1>6, <1>7, <1>8, <1>9, <1>10, <1>11, <1>12, <1>13, <1>14
  DEF RaftNext, handleMessage
\* They hold at the start.
LEMMA NodesInit == RaftInit => NodesOK
<1> SUFFICES ASSUME RaftInit PROVE NodesOK
  BY Zenon
<1>1. <<>> \in Seq(Entry) /\ NoEntry \notin Entry
  BY DEF NoEntry, Entry
<1> QED
  BY Zenon, <1>1 DEF RaftInit, NodesOK

\* No request is a request.
LEMMA NoRequestType == NoRequest \in Request /\ NoRequest.stage = "none"
<1>1. <<>> \in Seq(Entry)
  OBVIOUS
<1> QED
  BY Zenon, <1>1 DEF NoRequest, Request

\* At first nothing is sent.
LEMMA BuildsInit == RaftInit => BuildsOK
<1> SUFFICES ASSUME RaftInit PROVE BuildsOK
  BY Zenon
<1>1. sendTo = [n \in Node |-> {}] /\ request = [n \in Node |-> NoRequest]
  BY Zenon DEF RaftInit
<1>2. sendTo \in [Node -> SUBSET Node] /\ request \in [Node -> Request]
  BY <1>1, NoRequestType
<1>3. \A n \in Node : sendTo[n] = {} /\ request[n].stage = "none"
  BY Zenon, <1>1, NoRequestType
<1> QED
  BY Zenon, <1>2, <1>3 DEF BuildsOK

\* Every step keeps the types of what Propose sends.
LEMMA BuildsStep == NodesOK /\ BuildsOK /\ [RaftNext]_rvars => BuildsOK'
<1> SUFFICES ASSUME NodesOK, BuildsOK, [RaftNext]_rvars PROVE BuildsOK'
  BY Zenon
<1> USE DEF electionVars, leaderVars, logVars, applyVars, proposeVars, taskVars, pastVars
<1>1. /\ sendTo \in [Node -> SUBSET Node] /\ request \in [Node -> Request]
      /\ proposing \in [Node -> {"no", "checked", "logged", "sending"}]
  BY Zenon DEF BuildsOK, NodesOK
<1>2. ASSUME UNCHANGED <<sendTo, request, proposing>> PROVE BuildsOK'
  BY Zenon, <1>2 DEF BuildsOK
<1>3. ASSUME NEW n \in Node, ProposeCheck(n) \/ ProposeLog(n) PROVE BuildsOK'
  <2>1. /\ UNCHANGED <<sendTo, request>> /\ proposing[n] # "sending"
        /\ \A p \in Node \ {n} : proposing'[p] = proposing[p]
    BY Zenon, <1>1, <1>3 DEF ProposeCheck, ProposeLog
  <2> QED
    BY Zenon, <2>1 DEF BuildsOK
<1>4. ASSUME NEW n \in Node, ProposePersist(n) PROVE BuildsOK'
  <2>1. /\ UNCHANGED request /\ proposing[n] # "sending"
        /\ \E x : proposing' = [proposing EXCEPT ![n] = x]
        /\ sendTo' = [sendTo EXCEPT ![n] = Peers(n)] \/ sendTo' = [sendTo EXCEPT ![n] = {}]
    BY Zenon, <1>4 DEF ProposePersist
  <2>2. \A p \in Node \ {n} : proposing'[p] = proposing[p]
    BY Zenon, <1>1, <2>1
  <2>3. sendTo' \in [Node -> SUBSET Node] /\ \A p \in Node : sendTo'[p] \subseteq Peers(p)
    <3>1. CASE sendTo' = [sendTo EXCEPT ![n] = Peers(n)]
      BY Zenon, <1>1, <3>1 DEF BuildsOK, Peers
    <3>2. CASE sendTo' = [sendTo EXCEPT ![n] = {}]
      BY Zenon, <1>1, <3>2 DEF BuildsOK
    <3> QED
      BY Zenon, <2>1, <3>1, <3>2
  <2> QED
    BY Zenon, <2>1, <2>2, <2>3 DEF BuildsOK
<1>5. ASSUME NEW n \in Node, NEW r \in Request, request' = [request EXCEPT ![n] = r],
             r.stage # "none" => r.to \in Peers(n) /\ proposing'[n] = "sending",
             \A p \in Node \ {n} : proposing'[p] = proposing[p],
             \A p \in Node : sendTo'[p] \subseteq sendTo[p], sendTo' \in [Node -> SUBSET Node]
      PROVE  BuildsOK'
  <2>1. request' \in [Node -> Request] /\ request'[n] = r /\ \A p \in Node \ {n} : request'[p] = request[p]
    BY Zenon, <1>1, <1>5
  <2>2. \A p \in Node : sendTo'[p] \subseteq Peers(p)
    BY Zenon, <1>5 DEF BuildsOK
  <2>3. ASSUME NEW p \in Node, request'[p].stage # "none"
        PROVE  request'[p].to \in Peers(p) /\ proposing'[p] = "sending"
    <3>1. CASE p = n
      BY Zenon, <1>5, <2>1, <2>3, <3>1
    <3>2. CASE p # n
      BY Zenon, <1>5, <2>1, <2>3, <3>2 DEF BuildsOK
    <3> QED
      BY Zenon, <3>1, <3>2
  <2> QED
    BY Zenon, <1>5, <2>1, <2>2, <2>3 DEF BuildsOK
<1>6. ASSUME NEW n \in Node, NEW p \in Node, ProposeNext(n, p) PROVE BuildsOK'
  <2>0. nextIndex \in [Node -> [Node -> Nat]]
    BY Zenon DEF NodesOK
  <2>1. PICK next \in Nat : next = nextIndex[n][p]
    BY <2>0
  <2>2. PICK r : r = [stage |-> IF next > 1 THEN "next" ELSE "prev", to |-> p,
                      next |-> next, prevTerm |-> 0, entries |-> <<>>]
    BY Zenon
  <2>3. /\ request' = [request EXCEPT ![n] = r] /\ p \in sendTo[n] /\ proposing[n] = "sending"
        /\ sendTo' = [sendTo EXCEPT ![n] = @ \ {p}] /\ UNCHANGED proposing
    BY Zenon, <1>6, <2>1, <2>2 DEF ProposeNext
  <2>4. r \in Request /\ r.to = p
    BY <2>2 DEF Request
  <2>5. p \in Peers(n)
    BY Zenon, <2>3 DEF BuildsOK
  <2>6. (\A q \in Node : sendTo'[q] \subseteq sendTo[q]) /\ sendTo' \in [Node -> SUBSET Node]
    BY Zenon, <1>1, <2>3
  <2> QED
    BY Zenon, <1>5, <2>3, <2>4, <2>5, <2>6
<1>7. ASSUME NEW n \in Node, ProposePrev(n) \/ ProposeEntries(n) PROVE BuildsOK'
  <2>1. PICK r \in Request, l \in Seq(Entry) : /\ r = request[n] /\ r.stage # "none" /\ l = logEntries[n]
                                               /\ r.to \in Peers(n) /\ proposing[n] = "sending"
    BY Zenon, <1>1, <1>7 DEF ProposePrev, ProposeEntries, BuildsOK, NodesOK
  <2>2. UNCHANGED <<sendTo, proposing>>
    BY Zenon, <1>7 DEF ProposePrev, ProposeEntries
  <2>3. ASSUME NEW q \in Request, request' = [request EXCEPT ![n] = q], q.to = r.to PROVE BuildsOK'
    BY Zenon, <1>1, <1>5, <2>1, <2>2, <2>3
  <2>4. CASE ProposePrev(n)
    <3>1. PICK t \in Nat : t = TermAt(l, r.next - 1)
      BY Zenon, <2>1, TermAtNumber
    <3>2. request' = [request EXCEPT ![n] = [r EXCEPT !.stage = "prev", !.prevTerm = t]]
      BY <1>1, <2>1, <2>4, <3>1 DEF ProposePrev
    <3>3. PICK q : q = [r EXCEPT !.stage = "prev", !.prevTerm = t]
      BY Zenon
    <3>4. q \in Request /\ q.to = r.to
      BY Zenon, <2>1, <3>1, <3>3 DEF Request
    <3> QED
      BY Zenon, <2>3, <3>2, <3>3, <3>4
  <2>5. CASE ProposeEntries(n)
    <3>1. PICK es \in Seq(Entry) : es = EntriesBetween(l, r.next, sendLast[n])
      BY Zenon, <2>1, EntriesBetweenType
    <3>2. request' = [request EXCEPT ![n] = [r EXCEPT !.stage = "entries", !.entries = es]]
      BY <1>1, <2>1, <2>5, <3>1 DEF ProposeEntries
    <3>3. PICK q : q = [r EXCEPT !.stage = "entries", !.entries = es]
      BY Zenon
    <3>4. q \in Request /\ q.to = r.to
      BY Zenon, <2>1, <3>1, <3>3 DEF Request
    <3> QED
      BY Zenon, <2>3, <3>2, <3>3, <3>4
  <2> QED
    BY Zenon, <1>7, <2>4, <2>5
<1>8. ASSUME NEW n \in Node, ProposeSend(n) PROVE BuildsOK'
  <2>1. /\ request' = [request EXCEPT ![n] = NoRequest] /\ UNCHANGED sendTo
        /\ \E x : proposing' = [proposing EXCEPT ![n] = x]
    BY Zenon, <1>8 DEF ProposeSend
  <2> QED
    BY Zenon, <1>1, <1>5, <2>1, NoRequestType
<1>9. ASSUME NEW n \in Node, Restart(n) PROVE BuildsOK'
  <2>1. /\ request' = [request EXCEPT ![n] = NoRequest] /\ sendTo' = [sendTo EXCEPT ![n] = {}]
        /\ proposing' = [proposing EXCEPT ![n] = "no"]
    BY Zenon, <1>9 DEF Restart
  <2>2. (\A q \in Node : sendTo'[q] \subseteq sendTo[q]) /\ sendTo' \in [Node -> SUBSET Node]
    BY Zenon, <1>1, <2>1
  <2> QED
    BY Zenon, <1>1, <1>5, <2>1, <2>2, NoRequestType
<1>10. ASSUME \/ \E n \in Node : \/ onElectionTimeout(n) \/ HeartbeatCheck(n) \/ HeartbeatSend(n)
                                 \/ ApplyCommitted(n)
              \/ \E m \in msgs : handleMessage(m)
              \/ UNCHANGED rvars
       PROVE  UNCHANGED <<sendTo, request, proposing>>
  BY Zenon, <1>10 DEF onElectionTimeout, HeartbeatCheck, HeartbeatSend, ApplyCommitted, handleMessage,
              handleVoteRequest, handleVoteResponse, handleAppendEntries, handleAppendEntriesResponse, rvars
<1> QED
  BY Zenon, <1>2, <1>3, <1>4, <1>6, <1>7, <1>8, <1>9, <1>10 DEF RaftNext

----------------------------------------------------------------------------
(* Durable *)

\* Durable for one node.
Kept(n) == Range(logEntries[n]) \subseteq Range(wal[n]) \cup lost[n] \cup {proposed[n]}

\* Durable says that for every node, before and after a step.
LEMMA DurableKept == /\ Durable <=> \A n \in Node : Kept(n)
                     /\ Durable' <=> \A n \in Node : Kept(n)'
BY DEF Durable, Kept, Range

\* Every step keeps Durable.
LEMMA DurableStep == NodesOK /\ Durable /\ [RaftNext]_rvars => Durable'
<1> SUFFICES ASSUME NodesOK, \A n \in Node : Kept(n), [RaftNext]_rvars PROVE \A n \in Node : Kept(n)'
  BY Zenon, DurableKept
<1>1. UNCHANGED <<logEntries, wal, lost, proposed>> => \A n \in Node : Kept(n)'
  BY Zenon DEF Kept
<1>2. ASSUME NEW n \in Node, ProposeLog(n) PROVE \A p \in Node : Kept(p)'
  <2>1. PICK e : e = [term |-> currentTerm[n], index |-> LastIndex(logEntries[n]) + 1]
    BY Zenon
  <2>2. e \in Entry
    <3>1. LastIndex(logEntries[n]) \in Nat
      BY Zenon, LastNumbers DEF NodesOK
    <3> QED
      BY <2>1, <3>1 DEF NodesOK, Entry
  <2>3. PICK l \in Seq(Entry) : l = logEntries[n]
    BY Zenon DEF NodesOK
  <2>4. /\ logEntries'[n] = Append(l, e) /\ proposed'[n] = e
        /\ \A p \in Node \ {n} : logEntries'[p] = logEntries[p] /\ proposed'[p] = proposed[p]
        /\ UNCHANGED <<wal, lost>> /\ proposing[n] = "checked"
    BY Zenon, <1>2, <2>1, <2>3 DEF ProposeLog, NodesOK
  <2>5. Range(l) \subseteq Entry /\ proposed[n] \notin Entry
    <3>1. Range(l) \subseteq Entry
      BY DEF Range
    <3> QED
      BY Zenon, <2>4, <3>1 DEF NodesOK
  <2>6. Range(Append(l, e)) = Range(l) \cup {e}
    BY Zenon, <2>2, RangeOfAppend
  <2>7. Kept(n)'
    BY <2>3, <2>4, <2>5, <2>6 DEF Kept
  <2>8. \A p \in Node \ {n} : Kept(p)'
    BY Zenon, <2>4 DEF Kept
  <2> QED
    BY Zenon, <2>7, <2>8
<1>3. ASSUME NEW n \in Node, ProposePersist(n) PROVE \A p \in Node : Kept(p)'
  <2>1. PICK e \in Entry : e = proposed[n]
    BY Zenon, <1>3 DEF ProposePersist, NodesOK
  <2>2. PICK es : es = <<e>>
    BY Zenon
  <2>3. es \in Seq(Entry) /\ Range(es) = {e}
    BY <2>2 DEF Range
  <2>4. \E ok \in BOOLEAN : Persist(n, es, ok)
    BY Zenon, <1>3, <2>1, <2>2 DEF ProposePersist
  <2>5. /\ \A p \in Node : Range(wal[p]) \subseteq Range(wal'[p]) /\ lost[p] \subseteq lost'[p]
        /\ e \in Range(wal'[n]) \cup lost'[n]
    BY Zenon, <2>3, <2>4, PersistKeeps
  <2>6. logEntries' = logEntries /\ \A p \in Node \ {n} : proposed'[p] = proposed[p]
    BY <1>3 DEF ProposePersist, NodesOK
  <2>7. Kept(n)'
    BY Zenon, <2>1, <2>5, <2>6 DEF Kept
  <2>8. \A p \in Node \ {n} : Kept(p)'
    BY Zenon, <2>5, <2>6 DEF Kept
  <2> QED
    BY Zenon, <2>7, <2>8
<1>4. ASSUME NEW n \in Node, Restart(n) PROVE \A p \in Node : Kept(p)'
  <2>1. /\ wal' = wal /\ logEntries'[n] = wal[n]
        /\ \A p \in Node \ {n} : /\ logEntries'[p] = logEntries[p]
                                  /\ lost'[p] = lost[p] /\ proposed'[p] = proposed[p]
    BY Zenon, <1>4 DEF Restart, NodesOK
  <2> QED
    BY Zenon, <2>1 DEF Kept
<1>5. ASSUME NEW m \in msgs, handleAppendEntries(m) PROVE \A p \in Node : Kept(p)'
  <2>1. PICK n \in Node : n = m.to
    BY Zenon, NowTypes
  <2>2. PICK l \in Seq(Entry), es \in Seq(Entry) : l = logEntries[n] /\ es = m.entries
    <3>1. m.type = "append" /\ MessageOK(m)
      BY Zenon, <1>5 DEF handleAppendEntries, NodesOK
    <3> QED
      BY Zenon, <2>1, <3>1 DEF NodesOK, MessageOK
  <2>3. PICK after :
          /\ after = AppendAll(l, es) \/ after = [log |-> l, new |-> <<>>]
          /\ logEntries' = [logEntries EXCEPT ![n] = after.log]
          /\ \E ok \in BOOLEAN : Persist(n, after.new, ok)
          /\ proposed' = proposed
    BY Zenon, <1>5, <2>1, <2>2 DEF handleAppendEntries, taskVars, pastVars, proposeVars
  <2>4. after.new \in Seq(Entry) /\ Range(after.log) \subseteq Range(l) \cup Range(after.new)
    <3>1. CASE after = AppendAll(l, es)
      BY Zenon, <3>1, AppendAllRange
    <3>2. CASE after = [log |-> l, new |-> <<>>]
      <4>1. after.log = l /\ after.new = <<>>
        BY Zenon, <3>2
      <4>2. after.new \in Seq(Entry)
        BY <4>1
      <4> QED
        BY Zenon, <4>1, <4>2
    <3> QED
      BY Zenon, <2>3, <3>1, <3>2
  <2>5. /\ \A p \in Node : Range(wal[p]) \subseteq Range(wal'[p]) /\ lost[p] \subseteq lost'[p]
        /\ Range(after.new) \subseteq Range(wal'[n]) \cup lost'[n]
    BY Zenon, <2>3, <2>4, PersistKeeps
  <2>6. logEntries'[n] = after.log /\ \A p \in Node \ {n} : logEntries'[p] = logEntries[p]
    BY Zenon, <2>3 DEF NodesOK
  <2>7. Kept(n)'
    BY Zenon, <2>2, <2>3, <2>4, <2>5, <2>6 DEF Kept
  <2>8. \A p \in Node \ {n} : Kept(p)'
    BY Zenon, <2>3, <2>5, <2>6 DEF Kept
  <2> QED
    BY Zenon, <2>7, <2>8
<1>6. ASSUME \/ \E n \in Node : \/ onElectionTimeout(n) \/ HeartbeatCheck(n) \/ HeartbeatSend(n)
                                \/ ProposeCheck(n) \/ ApplyCommitted(n)
                                \/ \E p \in Node : ProposeNext(n, p)
                                \/ ProposePrev(n) \/ ProposeEntries(n) \/ ProposeSend(n)
             \/ \E m \in msgs : \/ handleVoteRequest(m) \/ handleVoteResponse(m)
                                \/ handleAppendEntriesResponse(m)
             \/ UNCHANGED rvars
      PROVE  UNCHANGED <<logEntries, wal, lost, proposed>>
  BY Zenon, <1>6 DEF onElectionTimeout, HeartbeatCheck, HeartbeatSend, ProposeCheck, ApplyCommitted,
              ProposeNext, ProposePrev, ProposeEntries, ProposeSend,
              handleVoteRequest, handleVoteResponse, handleAppendEntriesResponse, rvars,
              logVars, taskVars, pastVars, proposeVars
<1> QED
  BY Zenon, <1>1, <1>2, <1>3, <1>4, <1>5, <1>6 DEF RaftNext, handleMessage

\* A restart loses no entry of a log but the one Propose is about to write and those whose
\* write failed.
THEOREM RaftDurable == RaftSpec => []Durable
<1>1. RaftInit => NodesOK /\ BuildsOK /\ Durable
  BY NodesInit, BuildsInit DEF RaftInit, Durable
<1> QED
  BY <1>1, NodesStep, BuildsStep, DurableStep, PTL DEF RaftSpec
----------------------------------------------------------------------------
(* LogOrdered *)

\* Without a restart or a torn request: the logs are ordered, the entries of a request
\* on its way or being built follow its previous one, and whoever sends requests has a
\* next index for each peer.
LogsOrdered == \A n \in Node : Ordered(logEntries[n]) /\ UpToTerm(logEntries[n], currentTerm[n])
RequestOK(m) == m.type = "append" => m.prevIndex \in Nat /\ Follow(m.entries, m.prevIndex, m.prevTerm, m.term)
RequestsOK == \A m \in msgs : RequestOK(m)
NextKnown == \A n \in Node : state[n] = "leader" \/ proposing[n] # "no" =>
                 \A p \in Node : nextIndex[n][p] >= 1
BuildOK(r, t) == /\ r.stage # "none" => r.next >= 1
                 /\ r.stage = "entries" => Follow(r.entries, r.next - 1, r.prevTerm, t)
BuildsFollow == \A n \in Node : BuildOK(request[n], currentTerm[n])
OrderInv == restarts = 0 /\ ~torn => LogsOrdered /\ RequestsOK /\ NextKnown /\ BuildsFollow

\* The last index of an ordered log is its length.
LEMMA OrderedLast ==
    ASSUME NEW l \in Seq(Entry), Ordered(l)
    PROVE  LastIndex(l) = Len(l)
<1>1. CASE l = <<>>
  BY Zenon, <1>1 DEF LastIndex
<1>2. CASE l # <<>>
  <2>1. Len(l) \in DOMAIN l
    BY <1>2
  <2> QED
    BY Zenon, <1>2, <2>1 DEF LastIndex, Ordered
<1> QED
  BY Zenon, <1>1, <1>2

\* A request that sendAppendEntriesToAll builds from an ordered log.
LEMMA RequestBuilt ==
    ASSUME NEW l \in Seq(Entry), NEW next \in Nat \ {0}, NEW last \in Nat, NEW t \in Nat,
           Ordered(l), UpToTerm(l, t)
    PROVE  Follow(EntriesBetween(l, next, last), next - 1, TermAt(l, next - 1), t)
<1>1. PICK es : es = EntriesBetween(l, next, last)
  BY Zenon
<1>2. \A j \in DOMAIN es : next + j - 1 \in DOMAIN l /\ es[j] = l[next + j - 1]
  BY <1>1, EntriesBetweenOrdered
<1>3. es \in Seq(Entry)
  BY Zenon, <1>1, EntriesBetweenType
<1>4. PICK prevTerm : prevTerm = TermAt(l, next - 1)
  BY Zenon
<1>5. prevTerm = 0 \/ (next - 1 \in DOMAIN l /\ prevTerm = l[next - 1].term)
  <2>1. CASE Places(l, next - 1) = {}
    BY Zenon, <1>4, <2>1 DEF TermAt
  <2>2. CASE Places(l, next - 1) # {}
    <3>1. PICK i : i = First(Places(l, next - 1))
      BY Zenon
    <3>2. i \in Places(l, next - 1)
      BY Zenon, <2>2, <3>1, FirstPlace
    <3>3. i \in DOMAIN l /\ i = next - 1
      BY Zenon, <3>2 DEF Places, Ordered
    <3> QED
      BY Zenon, <1>4, <2>2, <3>1, <3>3 DEF TermAt
  <2> QED
    BY Zenon, <2>1, <2>2
<1>6. ASSUME NEW j \in DOMAIN es
      PROVE  es[j].index = next - 1 + j /\ prevTerm <= es[j].term /\ es[j].term <= t
  <2>1. PICK i \in DOMAIN l : i = next + j - 1 /\ es[j] = l[i]
    BY Zenon, <1>2
  <2>2. j \in Nat /\ j >= 1 /\ l[i] \in Entry
    BY <1>3
  <2>3. l[i].index = i /\ l[i].term <= t /\ l[i].term \in Nat
    BY Zenon, <2>1, <2>2 DEF Ordered, UpToTerm, Entry
  <2>4. prevTerm <= l[i].term
    <3>1. next - 1 \in DOMAIN l => l[next - 1].term <= l[i].term
      BY <2>1, <2>2 DEF Ordered
    <3> QED
      BY <1>5, <2>3, <3>1
  <2> QED
    BY <2>1, <2>2, <2>3, <2>4
<1>7. ASSUME NEW i \in DOMAIN es, NEW j \in DOMAIN es, i <= j PROVE es[i].term <= es[j].term
  <2>1. i \in Nat /\ j \in Nat
    BY <1>3
  <2>2. /\ next + i - 1 \in DOMAIN l /\ es[i] = l[next + i - 1]
        /\ next + j - 1 \in DOMAIN l /\ es[j] = l[next + j - 1]
    BY Zenon, <1>2
  <2>3. next + i - 1 <= next + j - 1
    BY <1>7, <2>1
  <2> QED
    BY Zenon, <2>2, <2>3 DEF Ordered
<1> QED
  BY Zenon, <1>1, <1>4, <1>6, <1>7 DEF Follow

\* A step that changes no log and lowers no term keeps the logs ordered.
LEMMA OrderKept ==
    ASSUME NodesOK, NodesOK', LogsOrdered, UNCHANGED logEntries,
           \A n \in Node : currentTerm[n] <= currentTerm'[n]
    PROVE  LogsOrdered'
<1> SUFFICES ASSUME NEW n \in Node, NEW i \in DOMAIN logEntries[n]
             PROVE  logEntries[n][i].term <= currentTerm'[n]
  BY Zenon DEF LogsOrdered, UpToTerm
<1>1. logEntries[n][i] \in Entry /\ logEntries[n][i].term <= currentTerm[n]
  BY DEF LogsOrdered, UpToTerm, NodesOK
<1>2. currentTerm[n] <= currentTerm'[n] /\ currentTerm[n] \in Nat /\ currentTerm'[n] \in Nat
  BY Zenon DEF NodesOK
<1> QED
  BY <1>1, <1>2 DEF Entry
\* Requests stay well-built when well-built ones are sent.
LEMMA RequestsKept ==
    ASSUME NEW done, NEW new, Send(done, new), RequestsOK, \A m \in new : RequestOK(m)
    PROVE  RequestsOK'
BY Zenon DEF Send, RequestsOK, RequestOK

\* A step after which only senders send, and that leaves the next indexes alone.
LEMMA NextKept ==
    ASSUME NextKnown, UNCHANGED nextIndex,
           \A n \in Node : state'[n] = "leader" \/ proposing'[n] # "no" =>
                             state[n] = "leader" \/ proposing[n] # "no"
    PROVE  NextKnown'
BY Zenon DEF NextKnown

\* Terms only grow, but at a restart, and a restart is counted.
LEMMA TermGrows ==
    ASSUME NodesOK, RaftNext, restarts' = 0
    PROVE  restarts = 0 /\ \A n \in Node : currentTerm[n] <= currentTerm'[n]
<1> USE DEF electionVars, taskVars, pastVars
<1>1. ASSUME NEW n \in Node, onElectionTimeout(n)
      PROVE  restarts' = restarts /\ \A p \in Node : currentTerm[p] <= currentTerm'[p]
  BY <1>1 DEF onElectionTimeout, NodesOK
<1>2. ASSUME NEW n \in Node, \/ HeartbeatCheck(n) \/ HeartbeatSend(n) \/ ProposeCheck(n)
                             \/ ProposeLog(n) \/ ProposePersist(n) \/ ApplyCommitted(n)
                             \/ \E p \in Node : ProposeNext(n, p)
                             \/ ProposePrev(n) \/ ProposeEntries(n) \/ ProposeSend(n)
      PROVE  restarts' = restarts /\ \A p \in Node : currentTerm[p] <= currentTerm'[p]
  <2>1. UNCHANGED <<restarts, currentTerm>>
    BY Zenon, <1>2 DEF HeartbeatCheck, HeartbeatSend, ProposeCheck, ProposeLog, ProposePersist,
                ApplyCommitted, ProposeNext, ProposePrev, ProposeEntries, ProposeSend
  <2> QED
    BY <2>1 DEF NodesOK
<1>3. ASSUME NEW n \in Node, Restart(n) PROVE FALSE
  BY <1>3 DEF Restart, NodesOK
<1>4. ASSUME NEW m \in msgs, handleMessage(m)
      PROVE  restarts' = restarts /\ \A p \in Node : currentTerm[p] <= currentTerm'[p]
  <2>1. restarts' = restarts /\ currentTerm' = [currentTerm EXCEPT ![m.to] = TermNow(m)]
    BY Zenon, <1>4 DEF handleMessage, handleVoteRequest, handleVoteResponse, handleAppendEntries,
                handleAppendEntriesResponse, Stays, Becomes
  <2> QED
    BY <2>1, NowTypes DEF NodesOK
<1> QED
  BY Zenon, <1>1, <1>2, <1>3, <1>4 DEF RaftNext

\* A torn request is not forgotten.
LEMMA TornStays == RaftNext /\ ~torn' => ~torn
<1> SUFFICES ASSUME RaftNext PROVE torn => torn'
  BY Zenon
<1> USE DEF electionVars, taskVars, pastVars
<1>1. ASSUME \/ \E n \in Node : \/ onElectionTimeout(n) \/ HeartbeatCheck(n) \/ HeartbeatSend(n)
                                \/ ProposeCheck(n) \/ ProposeLog(n) \/ ProposePersist(n)
                                \/ \E p \in Node : ProposeNext(n, p)
                                \/ ProposePrev(n) \/ ProposeSend(n) \/ ApplyCommitted(n) \/ Restart(n)
             \/ \E m \in msgs : handleMessage(m)
      PROVE  torn' = torn
  BY Zenon, <1>1 DEF onElectionTimeout, HeartbeatCheck, HeartbeatSend, ProposeCheck, ProposeLog, ProposePersist,
              ProposeNext, ProposePrev, ProposeSend, ApplyCommitted, Restart, handleMessage,
              handleVoteRequest, handleVoteResponse, handleAppendEntries, handleAppendEntriesResponse
<1>2. ASSUME NEW n \in Node, ProposeEntries(n) PROVE torn => torn'
  BY Zenon, <1>2 DEF ProposeEntries
<1> QED
  BY Zenon, <1>1, <1>2 DEF RaftNext

\* The entries of a request being built follow its previous one, when the log before
\* them is still what it was.
LEMMA BuildsFollowStep ==
    ASSUME NodesOK, BuildsOK, LogsOrdered, NextKnown, BuildsFollow, RaftNext, restarts' = 0, ~torn'
    PROVE  BuildsFollow'
<1> USE DEF electionVars, leaderVars, logVars, applyVars, proposeVars, taskVars, pastVars
<1>1. /\ \A n \in Node : currentTerm[n] \in Nat /\ currentTerm'[n] \in Nat /\ currentTerm[n] <= currentTerm'[n]
      /\ request \in [Node -> Request]
  BY Zenon, NodesStep, TermGrows DEF NodesOK, BuildsOK
<1>2. ASSUME NEW n \in Node PROVE BuildOK(request[n], currentTerm'[n])
  <2>1. PICK r \in Request, t \in Nat, u \in Nat :
            r = request[n] /\ t = currentTerm[n] /\ u = currentTerm'[n] /\ t <= u
    BY Zenon, <1>1
  <2>2. BuildOK(r, t)
    BY Zenon, <2>1 DEF BuildsFollow
  <2>3. PICK es \in Seq(Entry) : es = r.entries
    BY Zenon DEF Request
  <2>4. \A j \in DOMAIN es : es[j].term <= t => es[j].term <= u
    <3>1. \A j \in DOMAIN es : es[j] \in Entry
      OBVIOUS
    <3>2. \A j \in DOMAIN es : es[j].term \in Nat
      BY Zenon, <3>1 DEF Entry
    <3> QED
      BY <2>1, <3>2
  <2>5. Follow(es, r.next - 1, r.prevTerm, t) => Follow(es, r.next - 1, r.prevTerm, u)
    BY Zenon, <2>4 DEF Follow
  <2> QED
    BY Zenon, <2>1, <2>2, <2>3, <2>5 DEF BuildOK
<1>3. ASSUME NEW n \in Node, \A p \in Node \ {n} : request'[p] = request[p], BuildOK(request'[n], currentTerm'[n])
      PROVE  BuildsFollow'
  BY Zenon, <1>2, <1>3 DEF BuildsFollow
<1>4. ASSUME NEW n \in Node, NEW p \in Node, ProposeNext(n, p) PROVE BuildsFollow'
  <2>0. nextIndex \in [Node -> [Node -> Nat]] /\ nextIndex[n][p] >= 1
    BY Zenon, <1>4 DEF NodesOK, NextKnown, ProposeNext
  <2>1. PICK next \in Nat : next = nextIndex[n][p] /\ next >= 1
    BY <2>0
  <2>2. PICK r : /\ r = [stage |-> IF next > 1 THEN "next" ELSE "prev", to |-> p,
                         next |-> next, prevTerm |-> 0, entries |-> <<>>]
                 /\ request' = [request EXCEPT ![n] = r]
    BY Zenon, <1>4, <2>1 DEF ProposeNext
  <2>3. r.stage # "entries" /\ r.next = next
    BY <2>2
  <2>4. request'[n] = r /\ \A q \in Node \ {n} : request'[q] = request[q]
    BY Zenon, <1>1, <2>2
  <2> QED
    BY Zenon, <1>3, <2>1, <2>3, <2>4 DEF BuildOK
<1>5. ASSUME NEW n \in Node, ProposePrev(n) PROVE BuildsFollow'
  <2>1. PICK r \in Request : r = request[n] /\ r.stage = "next" /\ r.next >= 1
    BY Zenon, <1>1, <1>5 DEF ProposePrev, BuildsFollow, BuildOK
  <2>2. /\ request'[n].stage = "prev" /\ request'[n].next = r.next
        /\ \A p \in Node \ {n} : request'[p] = request[p]
    BY <1>1, <1>5, <2>1 DEF ProposePrev, Request
  <2> QED
    BY Zenon, <1>3, <2>1, <2>2 DEF BuildOK
<1>6. ASSUME NEW n \in Node, ProposeEntries(n) PROVE BuildsFollow'
  <2>1. PICK r \in Request : r = request[n] /\ r.stage = "prev" /\ r.next >= 1
    BY Zenon, <1>1, <1>6 DEF ProposeEntries, BuildsFollow, BuildOK
  <2>2. PICK l \in Seq(Entry), last \in Nat, t \in Nat :
            /\ l = logEntries[n] /\ last = sendLast[n] /\ t = currentTerm[n] /\ currentTerm'[n] = t
            /\ Ordered(l) /\ UpToTerm(l, t)
    BY Zenon, <1>6 DEF ProposeEntries, NodesOK, LogsOrdered
  <2>3. PICK next \in Nat \ {0} : next = r.next
    BY <2>1 DEF Request
  <2>4. PICK es : es = EntriesBetween(l, next, last)
    BY Zenon
  <2>5. TermAt(l, next - 1) = r.prevTerm
    BY Zenon, <1>6, <2>1, <2>2, <2>3 DEF ProposeEntries
  <2>6. Follow(es, next - 1, r.prevTerm, t)
    BY Zenon, <2>2, <2>4, <2>5, RequestBuilt
  <2>7. request' = [request EXCEPT ![n].stage = "entries", ![n].entries = es]
    BY Zenon, <1>6, <2>1, <2>2, <2>3, <2>4 DEF ProposeEntries
  <2>8. /\ request'[n].next = r.next /\ request'[n].prevTerm = r.prevTerm /\ request'[n].entries = es
        /\ \A p \in Node \ {n} : request'[p] = request[p]
    BY <1>1, <2>1, <2>7 DEF Request
  <2> QED
    BY Zenon, <1>3, <2>1, <2>2, <2>3, <2>6, <2>8 DEF BuildOK
<1>7. ASSUME NEW n \in Node, ProposeSend(n) PROVE BuildsFollow'
  <2>1. request' = [request EXCEPT ![n] = NoRequest]
    BY Zenon, <1>7 DEF ProposeSend
  <2>2. request'[n].stage = "none" /\ \A p \in Node \ {n} : request'[p] = request[p]
    BY Zenon, <1>1, <2>1, NoRequestType
  <2> QED
    BY Zenon, <1>3, <2>2 DEF BuildOK
<1>8. ASSUME NEW n \in Node, Restart(n) PROVE FALSE
  BY <1>8 DEF Restart, NodesOK
<1>9. ASSUME \/ \E n \in Node : \/ onElectionTimeout(n) \/ HeartbeatCheck(n) \/ HeartbeatSend(n)
                                \/ ProposeCheck(n) \/ ProposeLog(n) \/ ProposePersist(n) \/ ApplyCommitted(n)
             \/ \E m \in msgs : handleMessage(m)
      PROVE  request' = request
  BY Zenon, <1>9 DEF onElectionTimeout, HeartbeatCheck, HeartbeatSend, ProposeCheck, ProposeLog, ProposePersist,
              ApplyCommitted, handleMessage, handleVoteRequest, handleVoteResponse, handleAppendEntries,
              handleAppendEntriesResponse
<1>10. CASE request' = request
  BY Zenon, <1>2, <1>10 DEF BuildsFollow
<1> QED
  BY Zenon, <1>4, <1>5, <1>6, <1>7, <1>8, <1>9, <1>10 DEF RaftNext

\* Every step keeps the logs ordered, and with them the requests and next indexes.
LEMMA OrderStep == NodesOK /\ BuildsOK /\ OrderInv /\ [RaftNext]_rvars => OrderInv'
<1> SUFFICES ASSUME NodesOK, BuildsOK, NodesOK', OrderInv, RaftNext, restarts' = 0, ~torn'
             PROVE  LogsOrdered' /\ RequestsOK' /\ NextKnown'
  <2>1. ASSUME UNCHANGED rvars, OrderInv PROVE OrderInv'
    BY Zenon, <2>1 DEF rvars, electionVars, leaderVars, logVars, taskVars, pastVars, proposeVars, OrderInv, LogsOrdered,
                RequestsOK, NextKnown, BuildsFollow
  <2>2. ASSUME NodesOK, BuildsOK, OrderInv, RaftNext, restarts' = 0, ~torn' PROVE BuildsFollow'
    BY Zenon, <2>2, TermGrows, TornStays, BuildsFollowStep DEF OrderInv
  <2> QED
    BY Zenon, <2>1, <2>2, NodesStep DEF OrderInv
<1>1. /\ LogsOrdered /\ RequestsOK /\ NextKnown /\ BuildsFollow
      /\ \A n \in Node : currentTerm[n] <= currentTerm'[n]
  BY Zenon, TermGrows, TornStays DEF OrderInv
<1> USE DEF electionVars, leaderVars, logVars, applyVars, proposeVars, taskVars, pastVars
<1>2. logEntries' = logEntries => LogsOrdered'
  BY Zenon, <1>1, OrderKept
<1>3. msgs' \subseteq msgs => RequestsOK'
  BY Zenon, <1>1 DEF RequestsOK
<1>4. ASSUME NEW n \in Node, onElectionTimeout(n) PROVE LogsOrdered' /\ RequestsOK' /\ NextKnown'
  <2>1. PICK new : /\ Send({}, new)
                   /\ \A m \in new : m.type = "voteRequest"
    BY <1>4 DEF onElectionTimeout
  <2>2. RequestsOK'
    BY Zenon, <1>1, <2>1, RequestsKept DEF RequestOK
  <2>3. NextKnown'
    BY Zenon, <1>1, <1>4, NextKept DEF onElectionTimeout, NodesOK
  <2> QED
    BY Zenon, <1>2, <1>4, <2>2, <2>3 DEF onElectionTimeout
<1>5. ASSUME NEW n \in Node, \/ HeartbeatCheck(n) \/ ProposeCheck(n) \/ ApplyCommitted(n)
                             \/ ProposePrev(n) \/ ProposeEntries(n) \/ \E p \in Node : ProposeNext(n, p)
      PROVE  LogsOrdered' /\ RequestsOK' /\ NextKnown'
  <2>1. /\ UNCHANGED <<logEntries, msgs, state, nextIndex>>
        /\ \/ proposing' = proposing
           \/ state[n] = "leader" /\ proposing' = [proposing EXCEPT ![n] = "checked"]
    BY Zenon, <1>5 DEF HeartbeatCheck, ProposeCheck, ApplyCommitted, ProposePrev, ProposeEntries, ProposeNext
  <2>2. ASSUME NEW p \in Node PROVE proposing'[p] = proposing[p] \/ state[p] = "leader"
    <3>1. proposing \in [Node -> {"no", "checked", "logged", "sending"}]
      BY Zenon DEF NodesOK
    <3> QED
      BY Zenon, <2>1, <3>1
  <2>3. NextKnown'
    BY Zenon, <1>1, <2>1, <2>2, NextKept
  <2> QED
    BY Zenon, <1>2, <1>3, <2>1, <2>3
<1>6. ASSUME NEW n \in Node, HeartbeatSend(n) PROVE LogsOrdered' /\ RequestsOK' /\ NextKnown'
  <2>1. PICK l \in Seq(Entry) : l = logEntries[n]
    BY Zenon DEF NodesOK
  <2>2. PICK new : /\ new = {AppendMsg(n, p, LastIndex(l), LastTerm(l), <<>>) : p \in Peers(n)}
                   /\ Send({}, new)
    BY Zenon, <1>6, <2>1 DEF HeartbeatSend
  <2>3. ASSUME NEW m \in new PROVE RequestOK(m)
    <3>1. m.prevIndex = LastIndex(l) /\ m.entries = <<>>
      BY <2>2 DEF AppendMsg
    <3>2. DOMAIN m.entries = {}
      BY <3>1
    <3> QED
      BY Zenon, <3>1, <3>2, LastNumbers DEF RequestOK, Follow
  <2>4. RequestsOK'
    BY Zenon, <1>1, <2>2, <2>3, RequestsKept
  <2>5. NextKnown'
    BY Zenon, <1>1, <1>6, NextKept DEF HeartbeatSend
  <2> QED
    BY Zenon, <1>2, <1>6, <2>4, <2>5 DEF HeartbeatSend
<1>7. ASSUME NEW n \in Node, ProposeLog(n) PROVE LogsOrdered' /\ RequestsOK' /\ NextKnown'
  <2>1. PICK l \in Seq(Entry), t \in Nat : l = logEntries[n] /\ t = currentTerm[n]
    BY Zenon DEF NodesOK
  <2>2. Ordered(l) /\ UpToTerm(l, t)
    BY Zenon, <1>1, <2>1 DEF LogsOrdered
  <2>3. PICK e : e = [term |-> t, index |-> Len(l) + 1]
    BY Zenon
  <2>4. e \in Entry /\ e.index = Len(l) + 1 /\ e.term = t
    BY <2>3 DEF Entry
  <2>5. /\ logEntries' = [logEntries EXCEPT ![n] = Append(l, e)] /\ proposing[n] = "checked"
        /\ proposing' = [proposing EXCEPT ![n] = "logged"]
        /\ UNCHANGED <<state, currentTerm, nextIndex, msgs>>
    <3>1. LastIndex(logEntries[n]) = Len(l)
      BY Zenon, <2>1, <2>2, OrderedLast
    <3> QED
      BY Zenon, <1>7, <2>1, <2>3, <3>1 DEF ProposeLog
  <2>6. Ordered(Append(l, e)) /\ UpToTerm(Append(l, e), t)
    <3>1. Places(l, e.index) = {}
      BY <2>2, <2>4 DEF Places, Ordered
    <3>2. appendEntry(l, e) = Append(l, e)
      BY Zenon, <3>1 DEF appendEntry
    <3>3. e.index > 1 => l[e.index - 1].term <= e.term
      BY <2>2, <2>4 DEF UpToTerm
    <3>4. e.term <= t /\ e.index <= Len(l) + 1
      BY <2>4
    <3> QED
      BY Zenon, <2>2, <2>4, <3>2, <3>3, <3>4, AppendEntryOrdered
  <2>7. LogsOrdered'
    <3>1. logEntries'[n] = Append(l, e) /\ \A p \in Node \ {n} : logEntries'[p] = logEntries[p]
      BY Zenon, <2>5 DEF NodesOK
    <3> QED
      BY Zenon, <1>1, <2>1, <2>5, <2>6, <3>1 DEF LogsOrdered
  <2>8. NextKnown'
    BY <1>1, <2>5, NextKept DEF NodesOK
  <2> QED
    BY Zenon, <1>3, <2>5, <2>7, <2>8
<1>8. ASSUME NEW n \in Node, ProposePersist(n) PROVE LogsOrdered' /\ RequestsOK' /\ NextKnown'
  <2>1. /\ UNCHANGED <<logEntries, msgs, state, nextIndex>> /\ proposing[n] = "logged"
        /\ \A p \in Node \ {n} : proposing'[p] = proposing[p]
    BY <1>8 DEF ProposePersist, NodesOK
  <2>2. NextKnown'
    BY Zenon, <1>1, <2>1, NextKept
  <2> QED
    BY Zenon, <1>2, <1>3, <2>1, <2>2
<1>9. ASSUME NEW n \in Node, ProposeSend(n)
      PROVE  LogsOrdered' /\ RequestsOK' /\ NextKnown'
  <2>1. PICK r \in Request : /\ r = request[n] /\ r.stage = "entries" /\ proposing[n] = "sending"
                             /\ BuildOK(r, currentTerm[n])
    BY Zenon, <1>1, <1>9 DEF ProposeSend, BuildsOK, BuildsFollow
  <2>2. UNCHANGED <<logEntries, state, nextIndex>> /\ \E x : proposing' = [proposing EXCEPT ![n] = x]
    BY Zenon, <1>9 DEF ProposeSend
  <2>3. \A q \in Node \ {n} : proposing'[q] = proposing[q]
    <3>1. proposing \in [Node -> {"no", "checked", "logged", "sending"}]
      BY Zenon DEF NodesOK
    <3> QED
      BY Zenon, <2>2, <3>1
  <2>4. PICK m : m = AppendMsg(n, r.to, r.next - 1, r.prevTerm, r.entries) /\ Send({}, {m})
    BY Zenon, <1>9, <2>1 DEF ProposeSend
  <2>5. RequestOK(m)
    <3>1. r.next - 1 \in Nat
      BY <2>1 DEF BuildOK, Request
    <3>2. /\ m.prevIndex = r.next - 1 /\ m.prevTerm = r.prevTerm /\ m.term = currentTerm[n]
          /\ m.entries = r.entries
      BY Zenon, <2>4 DEF AppendMsg
    <3> QED
      BY Zenon, <2>1, <3>1, <3>2 DEF RequestOK, BuildOK
  <2>6. RequestsOK'
    BY Zenon, <1>1, <2>4, <2>5, RequestsKept
  <2>7. NextKnown'
    BY Zenon, <1>1, <2>1, <2>2, <2>3, NextKept
  <2> QED
    BY Zenon, <1>2, <2>2, <2>6, <2>7
<1>10. ASSUME NEW n \in Node, Restart(n) PROVE FALSE
  BY <1>10 DEF Restart, NodesOK
<1>11. ASSUME NEW m \in msgs, handleVoteRequest(m) PROVE LogsOrdered' /\ RequestsOK' /\ NextKnown'
  <2>1. PICK r : r.type = "voteResponse" /\ Send({m}, {r})
    BY Zenon, <1>11 DEF handleVoteRequest, Reply
  <2>2. RequestsOK'
    BY Zenon, <1>1, <2>1, RequestsKept DEF RequestOK
  <2>3. /\ UNCHANGED <<logEntries, nextIndex, proposing>>
        /\ state' = [state EXCEPT ![m.to] = StateNow(m)]
    BY Zenon, <1>11 DEF handleVoteRequest, Becomes
  <2>4. NextKnown'
    BY Zenon, <1>1, <2>3, NextKept DEF NodesOK, StateNow
  <2> QED
    BY Zenon, <1>2, <2>2, <2>3, <2>4
<1>12. ASSUME NEW m \in msgs, handleVoteResponse(m) PROVE LogsOrdered' /\ RequestsOK' /\ NextKnown'
  <2>1. PICK n \in Node : n = m.to
    BY Zenon, NowTypes
  <2>2. LastIndex(logEntries[n]) \in Nat
    BY Zenon, LastNumbers DEF NodesOK
  <2>3. /\ UNCHANGED <<logEntries, proposing>> /\ msgs' = msgs \ {m}
        /\ \/ /\ state' = [state EXCEPT ![n] = "leader"]
              /\ nextIndex' = [nextIndex EXCEPT ![n] = [p \in Node |-> LastIndex(logEntries[n]) + 1]]
           \/ state' = [state EXCEPT ![n] = StateNow(m)] /\ nextIndex' = nextIndex
    BY Zenon, <1>12, <2>1 DEF handleVoteResponse, Becomes
  <2>4. NextKnown'
    <3>1. CASE state' = [state EXCEPT ![n] = StateNow(m)] /\ nextIndex' = nextIndex
      BY Zenon, <1>1, <2>1, <2>3, <3>1, NextKept DEF NodesOK, StateNow
    <3>2. CASE /\ state' = [state EXCEPT ![n] = "leader"]
               /\ nextIndex' = [nextIndex EXCEPT ![n] = [p \in Node |-> LastIndex(logEntries[n]) + 1]]
      <4>1. /\ \A p \in Node : nextIndex'[n][p] >= 1
            /\ \A q \in Node \ {n} : nextIndex'[q] = nextIndex[q] /\ state'[q] = state[q]
        BY <2>2, <3>2 DEF NodesOK
      <4> QED
        BY Zenon, <1>1, <2>3, <4>1 DEF NextKnown
    <3> QED
      BY Zenon, <2>3, <3>1, <3>2
  <2> QED
    BY Zenon, <1>2, <1>3, <2>3, <2>4
<1>13. ASSUME NEW m \in msgs, handleAppendEntries(m) PROVE LogsOrdered' /\ RequestsOK' /\ NextKnown'
  <2>1. PICK n \in Node, t \in Nat : n = m.to /\ t = TermNow(m)
    BY Zenon, NowTypes
  <2>2. m.type = "append" /\ MessageOK(m) /\ RequestOK(m)
    BY Zenon, <1>1, <1>13 DEF handleAppendEntries, NodesOK, RequestsOK
  <2>3. PICK l \in Seq(Entry), es \in Seq(Entry), prev \in Nat, prevTerm \in Nat :
          l = logEntries[n] /\ es = m.entries /\ prev = m.prevIndex /\ prevTerm = m.prevTerm
    BY Zenon, <2>2 DEF MessageOK, RequestOK, NodesOK
  <2>4. PICK log :
          /\ \/ log = l
             \/ /\ m.term >= t /\ (prev = 0 \/ hasLogEntry(l, prev, prevTerm))
                /\ log = AppendAll(l, es).log
          /\ logEntries' = [logEntries EXCEPT ![n] = log]
    BY Zenon, <1>13, <2>1, <2>3 DEF handleAppendEntries
  <2>5. /\ state' = [state EXCEPT ![n] = StateNow(m)] /\ currentTerm' = [currentTerm EXCEPT ![n] = t]
        /\ UNCHANGED <<nextIndex, proposing>>
    BY Zenon, <1>13, <2>1 DEF handleAppendEntries, Becomes
  <2>6. Ordered(l) /\ UpToTerm(l, t)
    <3>1. Ordered(l) /\ UpToTerm(l, currentTerm[n])
      BY Zenon, <1>1, <2>3 DEF LogsOrdered
    <3>2. currentTerm[n] <= t /\ currentTerm[n] \in Nat
      BY Zenon, <2>1, NowTypes DEF NodesOK
    <3>3. \A i \in DOMAIN l : l[i].term \in Nat
      <4>1. \A i \in DOMAIN l : l[i] \in Entry
        OBVIOUS
      <4> QED
        BY Zenon, <4>1 DEF Entry
    <3> QED
      BY <3>1, <3>2, <3>3 DEF UpToTerm
  <2>7. Ordered(log) /\ UpToTerm(log, t)
    <3>1. CASE /\ m.term >= t /\ (prev = 0 \/ hasLogEntry(l, prev, prevTerm))
               /\ log = AppendAll(l, es).log
      <4>1. m.term = t
        BY <2>1, <3>1, NowTypes
      <4>2. Follow(es, prev, prevTerm, t)
        BY Zenon, <2>2, <2>3, <4>1 DEF RequestOK
      <4> QED
        BY Zenon, <2>6, <3>1, <4>2, AppendAllOrdered
    <3> QED
      BY Zenon, <2>4, <2>6, <3>1
  <2>8. LogsOrdered'
    <3>1. ASSUME NEW p \in Node, p # n
          PROVE  logEntries'[p] = logEntries[p] /\ currentTerm'[p] = currentTerm[p]
      BY ZenonT(30), <2>4, <2>5, <3>1 DEF NodesOK
    <3>2. logEntries'[n] = log /\ currentTerm'[n] = t
      BY Zenon, <2>4, <2>5 DEF NodesOK
    <3> QED
      BY Zenon, <1>1, <2>7, <3>1, <3>2 DEF LogsOrdered
  <2>9. NextKnown'
    BY Zenon, <1>1, <2>1, <2>5, NextKept DEF NodesOK, StateNow
  <2>10. PICK r : r.type = "appendResponse" /\ Send({m}, {r})
    BY Zenon, <1>13 DEF handleAppendEntries, Reply
  <2>11. RequestsOK'
    BY Zenon, <1>1, <2>10, RequestsKept DEF RequestOK
  <2> QED
    BY Zenon, <2>8, <2>9, <2>11
<1>14. ASSUME NEW m \in msgs, handleAppendEntriesResponse(m)
       PROVE  LogsOrdered' /\ RequestsOK' /\ NextKnown'
  <2>1. PICK n \in Node, p \in Node : n = m.to /\ p = m.from
    BY Zenon, NowTypes
  <2>2. m.type = "appendResponse" /\ MessageOK(m)
    BY Zenon, <1>14 DEF handleAppendEntriesResponse, NodesOK
  <2>3. PICK i \in Nat : i = m.index
    BY Zenon, <2>2 DEF MessageOK
  <2>4. /\ UNCHANGED <<logEntries, proposing>> /\ msgs' = msgs \ {m}
        /\ state' = [state EXCEPT ![n] = StateNow(m)]
        /\ \/ nextIndex' = [nextIndex EXCEPT ![n][p] = i + 1]
           \/ nextIndex' = [nextIndex EXCEPT ![n][p] = IF StateNow(m) = "leader" /\ @ > 1 THEN @ - 1 ELSE @]
    BY Zenon, <1>14, <2>1, <2>3 DEF handleAppendEntriesResponse, Stays, Becomes
  <2>5. \A q, r \in Node : nextIndex[q][r] >= 1 => nextIndex'[q][r] >= 1
    <3> SUFFICES ASSUME NEW q \in Node, NEW r \in Node, nextIndex[q][r] >= 1 PROVE nextIndex'[q][r] >= 1
      BY Zenon
    <3>1. nextIndex[q] \in [Node -> Nat] /\ nextIndex[q][r] \in Nat /\ nextIndex \in [Node -> [Node -> Nat]]
      <4>1. nextIndex \in [Node -> [Node -> Nat]]
        BY Zenon DEF NodesOK
      <4> QED
        BY Zenon, <4>1
    <3>2. CASE q = n /\ r = p
      BY <2>4, <3>1, <3>2
    <3>3. CASE ~(q = n /\ r = p)
      BY <2>4, <3>1, <3>3
    <3> QED
      BY Zenon, <3>2, <3>3
  <2>6. \A q \in Node : state'[q] = "leader" => state[q] = "leader"
    BY Zenon, <2>1, <2>4 DEF NodesOK, StateNow
  <2>7. NextKnown'
    BY Zenon, <1>1, <2>4, <2>5, <2>6 DEF NextKnown
  <2> QED
    BY Zenon, <1>2, <1>3, <2>4, <2>7
<1> QED
  BY <1>4, <1>5, <1>6, <1>7, <1>8, <1>9, <1>10, <1>11, <1>12, <1>13, <1>14
  DEF RaftNext, handleMessage

\* At first the logs are empty.
LEMMA OrderInit == RaftInit => OrderInv
<1> SUFFICES ASSUME RaftInit PROVE OrderInv
  BY Zenon
<1>1. \A n \in Node : logEntries[n] = <<>> /\ DOMAIN logEntries[n] = {}
  BY DEF RaftInit
<1>2. LogsOrdered
  BY Zenon, <1>1 DEF LogsOrdered, Ordered, UpToTerm
<1>3. RequestsOK /\ NextKnown /\ BuildsFollow
  BY Zenon, NoRequestType DEF RaftInit, RequestsOK, NextKnown, BuildsFollow, BuildOK
<1> QED
  BY Zenon, <1>2, <1>3 DEF OrderInv

\* Without a restart and without a request whose parts are of two logs, a log has every
\* index once and in order, with terms that never decrease nor exceed the node's, whatever
\* leaders, and nodes that no longer are, send in whatever order.
THEOREM RaftLogOrdered == RaftSpec => []LogOrdered
<1>1. RaftInit => NodesOK /\ BuildsOK /\ OrderInv
  BY Zenon, NodesInit, BuildsInit, OrderInit
<1>2. OrderInv => LogOrdered
  BY Zenon DEF OrderInv, LogsOrdered, LogOrdered, Ordered, UpToTerm
<1> QED
  BY <1>1, <1>2, NodesStep, BuildsStep, OrderStep, PTL DEF RaftSpec
=============================================================================
