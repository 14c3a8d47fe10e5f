-------------------------- MODULE Shared_proofs -----------------------------
(***************************************************************************)
(* What is proved of what the sessions of a proxy share: the health        *)
(* records of the backends and the caches; for every set of backends,      *)
(* queries, names and tables and every bound.                              *)
(***************************************************************************)
EXTENDS BackendHealth, StmtCache, ResultCache, FiniteSetTheorems, Lists_proofs

\* The provers get more time than by default; a step that is left to Zenon says so.
USE SMTT(20), ZenonT(20)

(***************************************************************************)
(* The health records stay consistent although the checker and any number  *)
(* of dials write them without a common lock, for every list of backends   *)
(* and all thresholds.                                                     *)
(***************************************************************************)

\* The types of what the proof needs of the records.  No step makes a circuit half open:
\* that is why a failure never opens the circuit of a backend nothing is known of.
RecordTypeOK ==
    /\ status \in [Backend -> {"unknown", "healthy", "degraded", "unhealthy"}]
    /\ fails \in [Backend -> Nat]
    /\ circuit \in [Backend -> {"closed", "open"}]

RecordInv == RecordTypeOK /\ StatusSound

\* Counting a failure, saturated, never lowers the count.
LEMMA OneMoreGrows == \A n \in Nat : OneMore(n) \in Nat /\ OneMore(n) >= n
BY DEF OneMore

\* A dial that fails raises the count before it compares it with the threshold.
LEMMA RecordFailureStep ==
    ASSUME RecordInv, NEW d \in Dialer, RecordFailure(d)
    PROVE  RecordInv'
<1> DEFINE b == dial[d].to
           n == OneMore(fails[b])
<1> USE DEF RecordInv, RecordTypeOK
<1>1. CASE b \in Listed /\ b \in Backend
  <2>1. n \in Nat /\ n >= fails[b] /\ fails[b] \in Nat
    BY Zenon, <1>1, OneMoreGrows
  <2> HIDE DEF n
  <2>2. /\ fails' = [fails EXCEPT ![b] = n]
        /\ circuit' = [circuit EXCEPT ![b] =
                          IF @ = "halfOpen" \/ n >= Threshold THEN "open" ELSE @]
        /\ status' = [status EXCEPT ![b] =
                          IF circuit[b] # "halfOpen" /\ n >= Threshold THEN "unhealthy" ELSE @]
    BY Zenon, <1>1 DEF RecordFailure, n
  <2> HIDE DEF b
  <2>3. RecordTypeOK'
    BY Zenon, <1>1, <2>1, <2>2
  <2>4. \A c \in Backend \ {b} : /\ status'[c] = status[c] /\ fails'[c] = fails[c]
                                 /\ circuit'[c] = circuit[c]
    BY Zenon, <2>2
  <2>5. /\ fails'[b] = n
        /\ circuit'[b] = IF n >= Threshold THEN "open" ELSE circuit[b]
        /\ status'[b] = IF n >= Threshold THEN "unhealthy" ELSE status[b]
    BY Zenon, <1>1, <2>2
  <2>6. /\ status'[b] = "unhealthy" => fails'[b] >= MaxFailures \/ fails'[b] >= Threshold
        /\ circuit'[b] = "open" => status'[b] # "unknown"
    BY <1>1, <2>1, <2>5, HealthAssumption DEF StatusSound
  <2> QED
    BY Zenon, <2>3, <2>4, <2>6 DEF StatusSound
<1>2. CASE ~(b \in Listed /\ b \in Backend)
  <2>1. UNCHANGED <<status, fails, circuit>>
    BY <1>2 DEF RecordFailure
  <2> QED
    BY Zenon, <2>1 DEF StatusSound
<1> QED
  BY Zenon, <1>1, <1>2

\* The checker sets the status by the count it has just raised or reset.
LEMMA CheckBackendStep ==
    ASSUME RecordInv, NEW b \in Backend, checkBackend(b)
    PROVE  RecordInv'
<1> USE DEF RecordInv, RecordTypeOK
<1>1. circuit' = circuit
  BY Zenon DEF checkBackend
<1>2. CASE check[b] = "ok"
  BY <1>1, <1>2 DEF checkBackend, StatusSound
<1>3. CASE check[b] = "error"
  <2> DEFINE n == OneMore(fails[b])
  <2>1. n \in Nat
    BY Zenon, OneMoreGrows
  <2> HIDE DEF n
  <2>2. fails' = [fails EXCEPT ![b] = n]
    BY Zenon, <1>3 DEF checkBackend, n
  <2>3. status' = [status EXCEPT ![b] = IF n >= MaxFailures THEN "unhealthy" ELSE "degraded"]
    <3>1. fails'[b] = n
      BY Zenon, <2>2
    <3> QED
      BY Zenon, <1>3, <3>1 DEF checkBackend
  <2> QED
    BY Zenon, <1>1, <2>1, <2>2, <2>3 DEF StatusSound
<1>4. CASE check[b] = "old"
  BY Zenon, <1>1, <1>4 DEF checkBackend, StatusSound
<1> QED
  BY Zenon, <1>2, <1>3, <1>4 DEF checkBackend

\* A new backend starts with a new record.
LEMMA RenewStep ==
    ASSUME RecordInv, NEW S, NEW T, NEW ok, Renew(S, T, ok)
    PROVE  RecordInv'
BY Zenon DEF RecordInv, RecordTypeOK, StatusSound, Renew

\* Every step keeps the records consistent.
LEMMA RecordStep == RecordInv /\ [HealthNext]_hvars => RecordInv'
<1> SUFFICES ASSUME RecordInv, [HealthNext]_hvars PROVE RecordInv'
  BY Zenon
<1>0. ASSUME UNCHANGED <<status, fails, circuit>> PROVE RecordInv'
  BY Zenon, <1>0 DEF RecordInv, RecordTypeOK, StatusSound
<1>1. ASSUME NEW d \in Dialer, NEW r, StartDial(d, r) PROVE RecordInv'
  BY Zenon, <1>0, <1>1 DEF StartDial, healthVars
<1>2. ASSUME NEW d \in Dialer,
             SelectBackend(d) \/ CheckCircuit(d) \/ tryConnect(d) \/ MarkUnhealthy(d)
      PROVE  RecordInv'
  BY Zenon, <1>0, <1>2 DEF SelectBackend, CheckCircuit, tryConnect, MarkUnhealthy, healthVars
<1>3. ASSUME NEW d \in Dialer, RecordSuccess(d) PROVE RecordInv'
  BY <1>3 DEF RecordSuccess, RecordInv, RecordTypeOK, StatusSound
<1>4. ASSUME NEW b \in Backend, performCheck(b) \/ DrainBackend(b) \/ CancelDrain(b) PROVE RecordInv'
  BY Zenon, <1>0, <1>4 DEF performCheck, DrainBackend, CancelDrain, healthVars
<1>5. ASSUME NEW b \in Backend, RemoveBackend(b) \/ AddBackend(b) PROVE RecordInv'
  BY Zenon, <1>5, RenewStep DEF RemoveBackend, AddBackend
<1>6. ASSUME NEW b \in Backend, NEW now, Outage(b, now) PROVE RecordInv'
  BY Zenon, <1>0, <1>6 DEF Outage, healthVars
<1>7. ASSUME NEW S \in SUBSET Backend, updateBackends(S) PROVE RecordInv'
  BY Zenon, <1>7, RenewStep DEF updateBackends
<1>8. CASE runChecks \/ UNCHANGED hvars
  BY Zenon, <1>0, <1>8 DEF runChecks, hvars, healthVars
<1> QED
  BY <1>1, <1>2, <1>3, <1>4, <1>5, <1>6, <1>7, <1>8, RecordFailureStep, CheckBackendStep
  DEF HealthNext, DialStep, CheckStep

\* Whatever the checker, dials, operators and reloads do in between, a backend is
\* unhealthy only after enough failures since its last success, and an open circuit is
\* that of a backend declared unhealthy once.
THEOREM HealthStatusSound == HealthSpec => []StatusSound
<1>1. HealthInit => RecordInv
  BY DEF HealthInit, RecordInv, RecordTypeOK, StatusSound
<1>2. RecordInv /\ [HealthNext]_hvars => RecordInv'
  BY Zenon, RecordStep
<1>3. RecordInv => StatusSound
  BY Zenon DEF RecordInv
<1> QED
  BY <1>1, <1>2, <1>3, PTL DEF HealthSpec

----------------------------------------------------------------------------
(* The result cache: what it answers is what the database would *)

Versions == [Table -> Nat]
EntryType == [seen : Versions, raced : BOOLEAN]

RTypeOK ==
    /\ DOMAIN entries \subseteq Select
    /\ \A q \in DOMAIN entries : entries[q] \in EntryType
    /\ version \in Versions /\ seen \in [Client -> Versions] /\ raced \in [Client -> BOOLEAN]
    /\ dirty \in [Client -> SUBSET Write]
    /\ rpc \in [Client -> {"idle", "query", "store"}]
    /\ \A s \in Client : rpc[s] # "idle" => qry[s] \in Select
    /\ DOMAIN qry = Client

\* An answer that is still to be stored is up to date, and no write of its tables is
\* under way, unless it met one.
AnswerFresh ==
    \A s \in Client : rpc[s] = "store" /\ ~raced[s] =>
        /\ \A t \in Reads[qry[s]] : seen[s][t] = version[t]
        /\ Reads[qry[s]] \cap UnderWay = {}

\* A write under way that names the table has invalidated the entries of it.
EntryClear ==
    \A q \in DOMAIN entries : ~entries[q].raced =>
        \A s \in Client : \A w \in dirty[s] :
            w.named /\ w.table \in From[q] => w.table \notin Reads[q]

FreshInv == RTypeOK /\ AnswerFresh /\ EntryClear /\ CachedFresh

\* Entries are removed, none is added or changed.
Shrinks == DOMAIN entries' \subseteq DOMAIN entries /\ \A q \in DOMAIN entries' : entries'[q] = entries[q]

\* removeEntry removes.
LEMMA RemoveShrinks == \A gone : RemoveEntries(gone) => Shrinks
BY Zenon DEF RemoveEntries, Restrict, Shrinks

\* One entry is added, or replaced, and others may be removed.
Adds(q, e) ==
    /\ DOMAIN entries' \subseteq DOMAIN entries \cup {q}
    /\ \A p \in DOMAIN entries' : entries'[p] = IF p = q THEN e ELSE entries[p]

\* Set adds, if the answer fits; else it does nothing.
LEMMA SetAdds == \A q, e : Set(q, e) => Shrinks \/ Adds(q, e)
<1> SUFFICES ASSUME NEW q, NEW e, Set(q, e) PROVE Shrinks \/ Adds(q, e)
  BY Zenon
<1>1. CASE SizeOf[q] > MaxMemory
  BY Zenon, <1>1 DEF Set, storeVars, Shrinks
<1>2. CASE ~(SizeOf[q] > MaxMemory)
  <2>1. \E gone : entries' = [p \in (DOMAIN entries \ gone) \cup {q} |->
                               IF p = q THEN e ELSE entries[p]]
    BY Zenon, <1>2 DEF Set
  <2> QED
    BY Zenon, <2>1 DEF Adds
<1> QED
  BY Zenon, <1>1, <1>2

\* A step that at most removes entries and forgets writes, and leaves the answers that
\* are to be stored alone.
LEMMA FreshKept ==
    ASSUME FreshInv, Shrinks, RTypeOK', version' = version,
           \A s \in Client : dirty'[s] \subseteq dirty[s],
           \A s \in Client : rpc'[s] = "store" => /\ rpc[s] = "store" /\ qry'[s] = qry[s]
                                                /\ seen'[s] = seen[s] /\ raced'[s] = raced[s]
    PROVE  FreshInv'
<1>1. UnderWay' \subseteq UnderWay
  BY DEF UnderWay, Changed
<1>2. AnswerFresh'
  BY <1>1 DEF FreshInv, AnswerFresh
<1>3. EntryClear' /\ CachedFresh'
  BY DEF FreshInv, EntryClear, CachedFresh, Shrinks
<1> QED
  BY Zenon, <1>2, <1>3 DEF FreshInv

\* The types hold on.
LEMMA ResultTypeStep == RTypeOK /\ [CacheNext]_cacheVars => RTypeOK'
<1> SUFFICES ASSUME RTypeOK, [CacheNext]_cacheVars PROVE RTypeOK'
  BY Zenon
<1>1. ASSUME Shrinks PROVE /\ DOMAIN entries' \subseteq Select
                           /\ \A q \in DOMAIN entries' : entries'[q] \in EntryType
  BY Zenon, <1>1 DEF Shrinks, RTypeOK
<1>2. entries' = entries => Shrinks
  BY Zenon DEF Shrinks
<1>3. ASSUME NEW s \in Client, NEW q \in Select, SelectHit(s, q) PROVE RTypeOK'
  BY Zenon, <1>3 DEF SelectHit, RTypeOK
<1>4. ASSUME NEW s \in Client, NEW q \in Select, SelectMiss(s, q) PROVE RTypeOK'
  <2>1. Shrinks
    BY Zenon, <1>2, <1>4, RemoveShrinks DEF SelectMiss, storeVars
  <2> QED
    BY Zenon, <1>1, <1>4, <2>1 DEF SelectMiss, RTypeOK
<1>5. ASSUME NEW s \in Client, NEW w \in Write, Modify(s, w) PROVE RTypeOK'
  <2>1. Shrinks
    BY Zenon, <1>5, RemoveShrinks DEF Modify, InvalidateTables
  <2>2. raced' \in [Client -> BOOLEAN]
    BY Zenon, <1>5 DEF Modify, Meets, RTypeOK
  <2> QED
    BY Zenon, <1>1, <1>5, <2>1, <2>2 DEF Modify, RTypeOK
<1>6. ASSUME NEW s \in Client, Answered(s) PROVE RTypeOK'
  <2>1. [t \in Table |-> version[t] + IF t \in Changed(s) THEN 1 ELSE 0] \in Versions
    BY DEF RTypeOK, Versions
  <2>2. seen' \in [Client -> Versions] /\ raced' \in [Client -> BOOLEAN]
    BY Zenon, <1>6, <2>1 DEF Answered, RTypeOK
  <2> QED
    BY Zenon, <1>6, <2>2 DEF Answered, RTypeOK, storeVars
<1>7. ASSUME NEW s \in Client, StoreAnswer(s) PROVE RTypeOK'
  <2>1. PICK e : e = [seen |-> seen[s], raced |-> raced[s]]
    BY Zenon
  <2>2. e \in EntryType /\ qry[s] \in Select
    BY Zenon, <1>7, <2>1 DEF EntryType, RTypeOK, StoreAnswer
  <2>3. /\ DOMAIN entries' \subseteq Select
        /\ \A q \in DOMAIN entries' : entries'[q] \in EntryType
    <3>1. Shrinks \/ Adds(qry[s], e)
      BY Zenon, <1>7, <2>1, SetAdds DEF StoreAnswer
    <3> QED
      BY Zenon, <1>1, <2>2, <3>1 DEF Adds, RTypeOK
  <2>4. [t \in Table |-> 0] \in Versions
    BY Zenon DEF Versions
  <2> QED
    BY Zenon, <1>7, <2>3, <2>4 DEF StoreAnswer, RTypeOK
<1>8. ASSUME NEW s \in Client, AnswerFails(s) PROVE RTypeOK'
  BY Zenon, <1>8 DEF AnswerFails, RTypeOK, storeVars
<1>9. ASSUME NEW s \in Client, Commit(s) PROVE RTypeOK'
  <2>1. /\ DOMAIN entries' = DOMAIN entries
        /\ \A q \in DOMAIN entries : \E b \in BOOLEAN : entries'[q] = [entries[q] EXCEPT !.raced = b]
    BY Zenon, <1>9 DEF Commit, RTypeOK, EntryType
  <2>2. \A q \in DOMAIN entries' : entries'[q] \in EntryType
    BY <2>1 DEF RTypeOK, EntryType
  <2>3. version' \in Versions
    BY <1>9 DEF Commit, RTypeOK, Versions
  <2>4. raced' \in [Client -> BOOLEAN]
    BY Zenon, <1>9 DEF Commit, Meets, RTypeOK
  <2> QED
    BY Zenon, <1>9, <2>1, <2>2, <2>3, <2>4 DEF Commit, RTypeOK
<1>10. ASSUME NEW s \in Client, Rollback(s) PROVE RTypeOK'
  BY Zenon, <1>10 DEF Rollback, RTypeOK, storeVars
<1>11. CASE CleanupExpired
  BY Zenon, <1>1, <1>11, RemoveShrinks DEF CleanupExpired, RTypeOK
<1>12. CASE UNCHANGED cacheVars
  BY Zenon, <1>12 DEF cacheVars, storeVars, RTypeOK
<1> QED
  BY Zenon, <1>3, <1>4, <1>5, <1>6, <1>7, <1>8, <1>9, <1>10, <1>11, <1>12 DEF CacheNext
\* Every step keeps what the cache answers fresh.
LEMMA FreshStep == FreshInv /\ [CacheNext]_cacheVars => FreshInv'
<1> SUFFICES ASSUME FreshInv, [CacheNext]_cacheVars PROVE FreshInv'
  BY Zenon
<1>1. RTypeOK /\ RTypeOK'
  BY Zenon, ResultTypeStep DEF FreshInv
<1>2. entries' = entries => Shrinks
  BY Zenon DEF Shrinks
<1>3. ASSUME NEW s \in Client, NEW q \in Select, SelectHit(s, q) PROVE FreshInv'
  BY Zenon, <1>1, <1>2, <1>3, FreshKept DEF SelectHit
<1>4. ASSUME NEW s \in Client, NEW q \in Select, SelectMiss(s, q) PROVE FreshInv'
  <2>1. Shrinks
    BY Zenon, <1>2, <1>4, RemoveShrinks DEF SelectMiss, storeVars
  <2>2. \A c \in Client : rpc'[c] = "store" => rpc[c] = "store" /\ qry'[c] = qry[c]
    BY Zenon, <1>1, <1>4 DEF SelectMiss, RTypeOK
  <2> QED
    BY Zenon, <1>1, <1>4, <2>1, <2>2, FreshKept DEF SelectMiss
<1>5. ASSUME NEW s \in Client, NEW w \in Write, Modify(s, w) PROVE FreshInv'
  <2>1. Shrinks /\ \A q \in DOMAIN entries' : w.named => w.table \notin From[q]
    BY Zenon, <1>5, RemoveShrinks DEF Modify, InvalidateTables, RemoveEntries, Restrict
  <2>2. /\ dirty'[s] = dirty[s] \cup {w} /\ \A c \in Client \ {s} : dirty'[c] = dirty[c]
        /\ UNCHANGED <<version, rpc, qry, seen>>
    BY Zenon, <1>1, <1>5 DEF Modify, RTypeOK
  <2>3. UnderWay' \subseteq UnderWay \cup {w.table}
    <3>1. \A c \in Client : Changed(c)' \subseteq Changed(c) \cup {w.table}
      BY Zenon, <2>2 DEF Changed
    <3> QED
      BY Zenon, <3>1 DEF UnderWay
  <2>4. \A c \in Client : rpc[c] = "store" /\ ~raced'[c] => ~raced[c] /\ w.table \notin Reads[qry[c]]
    BY Zenon, <1>5 DEF Modify, Meets
  <2>5. AnswerFresh'
    <3> SUFFICES ASSUME NEW c \in Client, rpc[c] = "store", ~raced'[c]
                 PROVE  /\ \A t \in Reads[qry[c]] : seen[c][t] = version[t]
                        /\ Reads[qry[c]] \cap UnderWay' = {}
      BY Zenon, <2>2 DEF AnswerFresh
    <3>1. ~raced[c] /\ w.table \notin Reads[qry[c]]
      BY Zenon, <2>4
    <3>2. /\ \A t \in Reads[qry[c]] : seen[c][t] = version[t]
          /\ Reads[qry[c]] \cap UnderWay = {}
      BY Zenon, <3>1 DEF FreshInv, AnswerFresh
    <3> QED
      BY Zenon, <2>3, <3>1, <3>2
  <2>6. EntryClear'
    BY Zenon, <2>1, <2>2 DEF FreshInv, EntryClear, Shrinks
  <2>7. CachedFresh'
    BY <2>1, <2>2 DEF FreshInv, CachedFresh, Shrinks
  <2> QED
    BY Zenon, <1>1, <2>5, <2>6, <2>7 DEF FreshInv
<1>6. ASSUME NEW s \in Client, Answered(s) PROVE FreshInv'
  <2>1. /\ UNCHANGED <<entries, version, dirty, qry>> /\ qry[s] \in Select
        /\ \A c \in Client \ {s} : rpc'[c] = rpc[c] /\ seen'[c] = seen[c] /\ raced'[c] = raced[c]
        /\ seen'[s] = [t \in Table |-> version[t] + IF t \in Changed(s) THEN 1 ELSE 0]
        /\ raced'[s] = (Reads[qry[s]] \cap UnderWay # {})
    BY Zenon, <1>1, <1>6 DEF Answered, RTypeOK, storeVars
  <2>2. UnderWay' = UnderWay /\ Changed(s) \subseteq UnderWay
    BY <2>1 DEF UnderWay, Changed
  <2>3. Reads[qry[s]] \subseteq Table
    BY Zenon, <2>1, CacheAssumption
  <2>4. ~raced'[s] => /\ \A t \in Reads[qry[s]] : seen'[s][t] = version[t]
                      /\ Reads[qry[s]] \cap UnderWay = {}
    BY <1>1, <2>1, <2>2, <2>3 DEF RTypeOK, Versions
  <2>5. AnswerFresh'
    BY <2>1, <2>2, <2>4 DEF FreshInv, AnswerFresh
  <2>6. EntryClear' /\ CachedFresh'
    BY Zenon, <2>1 DEF FreshInv, EntryClear, CachedFresh
  <2> QED
    BY Zenon, <1>1, <2>5, <2>6 DEF FreshInv
<1>7. ASSUME NEW s \in Client, StoreAnswer(s) PROVE FreshInv'
  <2>1. PICK e : e = [seen |-> seen[s], raced |-> raced[s]]
    BY Zenon
  <2>2. PICK q : q = qry[s]
    BY Zenon
  <2>3. Shrinks \/ Adds(q, e)
    BY Zenon, <1>7, <2>1, <2>2, SetAdds DEF StoreAnswer
  <2>4. /\ UNCHANGED <<version, dirty>> /\ rpc[s] = "store"
        /\ \A c \in Client : rpc'[c] = "store" => /\ rpc[c] = "store" /\ qry'[c] = qry[c]
                                                  /\ seen'[c] = seen[c] /\ raced'[c] = raced[c]
    BY Zenon, <1>1, <1>7 DEF StoreAnswer, RTypeOK
  <2>5. CASE Shrinks
    BY Zenon, <1>1, <2>4, <2>5, FreshKept
  <2>6. CASE Adds(q, e)
    <3>1. ~e.raced => /\ \A t \in Reads[q] : e.seen[t] = version[t]
                      /\ \A c \in Client : \A w \in dirty[c] : w.table \notin Reads[q]
      <4>1. ~e.raced => /\ \A t \in Reads[q] : seen[s][t] = version[t]
                        /\ Reads[q] \cap UnderWay = {}
        BY Zenon, <2>1, <2>2, <2>4 DEF FreshInv, AnswerFresh
      <4>2. \A c \in Client : \A w \in dirty[c] : w.table \in UnderWay
        BY DEF UnderWay, Changed
      <4> QED
        BY Zenon, <2>1, <4>1, <4>2
    <3>2. AnswerFresh'
      <4>1. UnderWay' = UnderWay
        BY Zenon, <2>4 DEF UnderWay, Changed
      <4> QED
        BY <2>4, <4>1 DEF FreshInv, AnswerFresh
    <3>3. EntryClear'
      BY Zenon, <2>4, <2>6, <3>1 DEF FreshInv, EntryClear, Adds
    <3>4. CachedFresh'
      BY <2>4, <2>6, <3>1 DEF FreshInv, CachedFresh, Adds
    <3> QED
      BY Zenon, <1>1, <3>2, <3>3, <3>4 DEF FreshInv
  <2> QED
    BY Zenon, <2>3, <2>5, <2>6
<1>8. ASSUME NEW s \in Client, AnswerFails(s) \/ Rollback(s) PROVE FreshInv'
  <2>1. /\ entries' = entries /\ version' = version
        /\ \A c \in Client : dirty'[c] \subseteq dirty[c]
        /\ \A c \in Client : rpc'[c] = "store" => /\ rpc[c] = "store" /\ qry'[c] = qry[c]
                                                  /\ seen'[c] = seen[c] /\ raced'[c] = raced[c]
    BY <1>1, <1>8 DEF AnswerFails, Rollback, RTypeOK, storeVars
  <2> QED
    BY Zenon, <1>1, <1>2, <2>1, FreshKept
<1>9. ASSUME NEW s \in Client, Commit(s) PROVE FreshInv'
  <2> DEFINE unnamed == {w.table : w \in {v \in dirty[s] : ~v.named}}
             blind(q) == Reads[q] \cap (unnamed \cup (Changed(s) \ From[q])) # {}
  <2>1. /\ UNCHANGED <<rpc, qry, seen>> /\ DOMAIN entries' = DOMAIN entries
        /\ \A q \in DOMAIN entries : entries'[q] = [entries[q] EXCEPT !.raced = @ \/ blind(q)]
        /\ raced' = Meets(Changed(s))
    BY Zenon, <1>9 DEF Commit
  <2>2. version' = [t \in Table |-> version[t] + IF t \in Changed(s) THEN 1 ELSE 0]
    BY Zenon, <1>9 DEF Commit
  <2>3. \A t \in Table \ Changed(s) : version'[t] = version[t]
    BY <1>1, <2>2 DEF RTypeOK, Versions
  <2>4. dirty'[s] = {} /\ \A c \in Client \ {s} : dirty'[c] = dirty[c]
    BY Zenon, <1>1, <1>9 DEF Commit, RTypeOK
  <2>5. \A q \in DOMAIN entries :
            entries'[q].seen = entries[q].seen /\ (~entries'[q].raced => ~entries[q].raced /\ ~blind(q))
    BY <1>1, <2>1 DEF RTypeOK, EntryType
  <2>6. \A q \in DOMAIN entries : ~entries'[q].raced => Reads[q] \cap Changed(s) = {}
    <3> SUFFICES ASSUME NEW q \in DOMAIN entries, ~entries'[q].raced, NEW w \in dirty[s],
                        w.table \in Reads[q]
                 PROVE  FALSE
      BY Zenon DEF Changed
    <3>1. ~entries[q].raced /\ ~blind(q)
      BY Zenon, <2>5
    <3>2. w.named /\ w.table \in From[q]
      BY Zenon, <3>1 DEF Changed
    <3> QED
      BY Zenon, <3>1, <3>2 DEF FreshInv, EntryClear
  <2>7. \A q \in DOMAIN entries : Reads[q] \subseteq Table
    BY Zenon, <1>1, CacheAssumption DEF RTypeOK
  <2>8. CachedFresh'
    <3> SUFFICES ASSUME NEW q \in DOMAIN entries, ~entries'[q].raced, NEW t \in Reads[q]
                 PROVE  entries'[q].seen[t] = version'[t]
      BY Zenon, <2>1 DEF CachedFresh
    <3>1. version'[t] = version[t]
      BY Zenon, <2>3, <2>6, <2>7
    <3> QED
      BY Zenon, <2>5, <3>1 DEF FreshInv, CachedFresh
  <2>9. EntryClear'
    BY Zenon, <2>1, <2>4, <2>5 DEF FreshInv, EntryClear
  <2>10. AnswerFresh'
    <3> SUFFICES ASSUME NEW c \in Client, rpc[c] = "store", ~raced'[c]
                 PROVE  /\ \A t \in Reads[qry[c]] : seen[c][t] = version'[t]
                        /\ Reads[qry[c]] \cap UnderWay' = {}
      BY Zenon, <2>1 DEF AnswerFresh
    <3>1. ~raced[c] /\ Reads[qry[c]] \cap Changed(s) = {}
      BY Zenon, <2>1 DEF Meets
    <3>2. /\ \A t \in Reads[qry[c]] : seen[c][t] = version[t]
          /\ Reads[qry[c]] \cap UnderWay = {}
      BY Zenon, <3>1 DEF FreshInv, AnswerFresh
    <3>3. UnderWay' \subseteq UnderWay
      BY Zenon, <2>4 DEF UnderWay, Changed
    <3>4. Reads[qry[c]] \subseteq Table
      BY Zenon, <1>1, CacheAssumption DEF RTypeOK
    <3> QED
      BY Zenon, <2>3, <3>1, <3>2, <3>3, <3>4
  <2> QED
    BY Zenon, <1>1, <2>8, <2>9, <2>10 DEF FreshInv
<1>10. CASE CleanupExpired
  BY Zenon, <1>1, <1>10, RemoveShrinks, FreshKept DEF CleanupExpired
<1>11. CASE UNCHANGED cacheVars
  BY Zenon, <1>1, <1>2, <1>11, FreshKept DEF cacheVars, storeVars
<1> QED
  BY Zenon, <1>3, <1>4, <1>5, <1>6, <1>7, <1>8, <1>9, <1>10, <1>11 DEF CacheNext

\* What the cache answers is what the database would answer now, unless the answer was
\* computed or stored while a modification of its tables was between its invalidation and
\* its commit, or extractTablesFromQuery did not find the table in one of the two.
THEOREM ResultFresh == CacheSpec => []CachedFresh
<1>1. CacheInit => FreshInv
  <2> SUFFICES ASSUME CacheInit PROVE FreshInv
    BY Zenon
  <2>1. DOMAIN entries = {} /\ version \in Versions
    BY DEF CacheInit, Versions
  <2>2. RTypeOK
    BY Zenon, <2>1 DEF CacheInit, RTypeOK
  <2> QED
    BY Zenon, <2>1, <2>2 DEF CacheInit, FreshInv, AnswerFresh, EntryClear, CachedFresh
<1>2. FreshInv => CachedFresh
  BY Zenon DEF FreshInv
<1> QED
  BY <1>1, <1>2, FreshStep, PTL DEF CacheSpec
----------------------------------------------------------------------------
(* cache.Store: sums *)

Pick(s) == CHOOSE x \in s : TRUE

\* The sum of the sizes of a finite set of queries is found by taking one after another.
LEMMA SumRounds ==
    ASSUME NEW S, IsFiniteSet(S)
    PROVE  \E f : /\ \A s \in SUBSET S :
                       f[s] = IF s = {} THEN 0 ELSE SizeOf[Pick(s)] + f[s \ {Pick(s)}]
                  /\ SizeOfAll(S) = f[S]
<1> DEFINE Small(k) == {s \in SUBSET S : Cardinality(s) <= k}
           Is(f, D) == f = [s \in D |-> IF s = {} THEN 0 ELSE SizeOf[Pick(s)] + f[s \ {Pick(s)}]]
           K == {k \in Nat : \E f : Is(f, Small(k))}
<1>1. \A s \in SUBSET S : IsFiniteSet(s) /\ Cardinality(s) \in Nat
  BY Zenon, FS_Subset, FS_CardinalityType
<1>2. \A s \in SUBSET S : s # {} => Pick(s) \in s
  BY Zenon DEF Pick
<1>3. \A s \in SUBSET S : s # {} => Cardinality(s \ {Pick(s)}) = Cardinality(s) - 1
  BY Zenon, <1>1, <1>2, FS_RemoveElement
<1>4. 0 \in K
  <2>1. Small(0) = {{}}
    <3>1. \A s \in SUBSET S : Cardinality(s) <= 0 <=> s = {}
      BY <1>1, FS_EmptySet
    <3> QED
      BY Zenon, <3>1
  <2>2. Is([s \in {{}} |-> 0], {{}})
    BY Zenon
  <2> HIDE DEF Is, Small
  <2> QED
    BY Zenon, <2>1, <2>2
<1>5. ASSUME NEW k \in Nat, k \in K PROVE k + 1 \in K
  <2>1. PICK f : Is(f, Small(k))
    BY Zenon, <1>5
  <2> DEFINE g == [s \in Small(k + 1) |-> IF s = {} THEN 0 ELSE SizeOf[Pick(s)] + f[s \ {Pick(s)}]]
             h == [s \in Small(k + 1) |-> IF s = {} THEN 0 ELSE SizeOf[Pick(s)] + g[s \ {Pick(s)}]]
  <2>2. ASSUME NEW s \in Small(k + 1), s # {} PROVE g[s \ {Pick(s)}] = f[s \ {Pick(s)}]
    <3>1. PICK r : r = s \ {Pick(s)}
      BY Zenon
    <3>2. r \in SUBSET S /\ Cardinality(r) <= k /\ Cardinality(r) \in Nat
      BY <1>1, <1>3, <2>2, <3>1
    <3>3. r \in Small(k) /\ r \in Small(k + 1)
      BY <3>2
    <3>4. f[r] = IF r = {} THEN 0 ELSE SizeOf[Pick(r)] + f[r \ {Pick(r)}]
      BY Zenon, <2>1, <3>3
    <3>5. g[r] = IF r = {} THEN 0 ELSE SizeOf[Pick(r)] + f[r \ {Pick(r)}]
      BY Zenon, <3>3
    <3> QED
      BY Zenon, <3>1, <3>4, <3>5
  <2>3. g = h
    <3> HIDE DEF Small
    <3>1. \A s \in Small(k + 1) : s # {} => g[s \ {Pick(s)}] = f[s \ {Pick(s)}]
      BY Zenon, <2>2
    <3> QED
      BY Zenon, <3>1
  <2>4. Is(g, Small(k + 1))
    BY Zenon, <2>3
  <2> HIDE DEF g, h, Is, Small
  <2>5. \E x : Is(x, Small(k + 1))
    BY Zenon, <2>4
  <2> QED
    BY <2>5
<1>6. Cardinality(S) \in K
  <2> HIDE DEF K
  <2>1. Nat \subseteq K
    BY Zenon, <1>4, <1>5, NaturalInduction
  <2> QED
    BY Zenon, <1>1, <2>1
<1>7. Small(Cardinality(S)) = SUBSET S
  BY Zenon, FS_Subset
<1>8. \E f : Is(f, SUBSET S)
  <2> HIDE DEF Is, Small
  <2> QED
    BY Zenon, <1>6, <1>7
<1>9. PICK f : f = CHOOSE g : Is(g, SUBSET S)
  BY Zenon
<1>10. Is(f, SUBSET S)
  BY Zenon, <1>8, <1>9
<1>11. SizeOfAll(S) = f[S]
  BY Zenon, <1>9 DEF SizeOfAll, MapThenSumSet, MapThenFoldSet, Pick
<1>12. \A s \in SUBSET S : f[s] = IF s = {} THEN 0 ELSE SizeOf[Pick(s)] + f[s \ {Pick(s)}]
  BY Zenon, <1>10
<1> QED
  BY Zenon, <1>11, <1>12

\* Two sets take the same values on a set they share, so that the sum can be unfolded.
LEMMA SumUnfold ==
    ASSUME NEW S, IsFiniteSet(S)
    PROVE  SizeOfAll(S) = IF S = {} THEN 0 ELSE SizeOf[Pick(S)] + SizeOfAll(S \ {Pick(S)})
<1>1. CASE S = {}
  <2>1. PICK f : /\ \A s \in SUBSET S :
                       f[s] = IF s = {} THEN 0 ELSE SizeOf[Pick(s)] + f[s \ {Pick(s)}]
                 /\ SizeOfAll(S) = f[S]
    BY Zenon, SumRounds
  <2> QED
    BY Zenon, <1>1, <2>1
<1>2. CASE S # {}
  <2>1. PICK T : T = S \ {Pick(S)}
    BY Zenon
  <2>2. T \subseteq S /\ IsFiniteSet(T)
    BY Zenon, <2>1, FS_Subset
  <2>3. PICK f : /\ \A s \in SUBSET S :
                       f[s] = IF s = {} THEN 0 ELSE SizeOf[Pick(s)] + f[s \ {Pick(s)}]
                 /\ SizeOfAll(S) = f[S]
    BY Zenon, SumRounds
  <2>4. PICK g : /\ \A s \in SUBSET T :
                       g[s] = IF s = {} THEN 0 ELSE SizeOf[Pick(s)] + g[s \ {Pick(s)}]
                 /\ SizeOfAll(T) = g[T]
    BY Zenon, <2>2, SumRounds
  <2> DEFINE K == {k \in Nat : \A s \in SUBSET T : Cardinality(s) = k => f[s] = g[s]}
  <2>5. \A s \in SUBSET T : IsFiniteSet(s) /\ Cardinality(s) \in Nat
    BY Zenon, <2>2, FS_Subset, FS_CardinalityType
  <2>6. 0 \in K
    <3> SUFFICES ASSUME NEW s \in SUBSET T, Cardinality(s) = 0 PROVE f[s] = g[s]
      BY Zenon
    <3>1. s = {}
      BY Zenon, <2>5, FS_EmptySet
    <3> QED
      BY Zenon, <2>2, <2>3, <2>4, <3>1
  <2>7. ASSUME NEW k \in Nat, k \in K PROVE k + 1 \in K
    <3> SUFFICES ASSUME NEW s \in SUBSET T, Cardinality(s) = k + 1 PROVE f[s] = g[s]
      OBVIOUS
    <3>1. s # {}
      BY FS_EmptySet
    <3>2. Pick(s) \in s
      BY Zenon, <3>1 DEF Pick
    <3>3. PICK r : r = s \ {Pick(s)}
      BY Zenon
    <3>4. r \in SUBSET T /\ Cardinality(r) = k
      BY <2>5, <3>2, <3>3, FS_RemoveElement
    <3>5. f[r] = g[r]
      BY Zenon, <2>7, <3>4
    <3>6. f[s] = SizeOf[Pick(s)] + f[r] /\ g[s] = SizeOf[Pick(s)] + g[r]
      BY <2>2, <2>3, <2>4, <3>1, <3>3
    <3> QED
      BY Zenon, <3>5, <3>6
  <2>8. Cardinality(T) \in K
    <3> HIDE DEF K
    <3>1. Nat \subseteq K
      BY Zenon, <2>6, <2>7, NaturalInduction
    <3> QED
      BY Zenon, <2>5, <3>1
  <2>9. f[T] = g[T]
    BY Zenon, <2>8
  <2>10. f[S] = SizeOf[Pick(S)] + f[T]
    BY Zenon, <1>2, <2>1, <2>3
  <2> QED
    BY Zenon, <1>2, <2>1, <2>3, <2>4, <2>9, <2>10
<1> QED
  BY Zenon, <1>1, <1>2

\* A sum of sizes is a natural number.
LEMMA SumNatural ==
    ASSUME NEW S \in SUBSET Select, IsFiniteSet(S)
    PROVE  SizeOfAll(S) \in Nat
<1> DEFINE K == {k \in Nat : \A s \in SUBSET Select :
                               IsFiniteSet(s) /\ Cardinality(s) = k => SizeOfAll(s) \in Nat}
<1>1. 0 \in K
  <2> SUFFICES ASSUME NEW s \in SUBSET Select, IsFiniteSet(s), Cardinality(s) = 0
               PROVE  SizeOfAll(s) \in Nat
    BY Zenon
  <2>1. s = {}
    BY Zenon, FS_EmptySet
  <2>2. SizeOfAll(s) = 0
    BY Zenon, <2>1, SumUnfold
  <2> QED
    BY <2>2
<1>2. ASSUME NEW k \in Nat, k \in K PROVE k + 1 \in K
  <2> SUFFICES ASSUME NEW s \in SUBSET Select, IsFiniteSet(s), Cardinality(s) = k + 1
               PROVE  SizeOfAll(s) \in Nat
    OBVIOUS
  <2>1. s # {}
    BY FS_EmptySet
  <2>2. Pick(s) \in s
    BY Zenon, <2>1 DEF Pick
  <2>3. PICK r \in SUBSET Select : r = s \ {Pick(s)}
    BY Zenon
  <2>4. IsFiniteSet(r) /\ Cardinality(r) = k
    <3>1. IsFiniteSet(r) /\ Cardinality(r) = (k + 1) - 1
      BY Zenon, <2>2, <2>3, FS_RemoveElement
    <3> QED
      BY <3>1
  <2>5. SizeOfAll(r) \in Nat
    BY Zenon, <1>2, <2>4
  <2>6. SizeOf[Pick(s)] \in Nat
    BY Zenon, <2>2, CacheAssumption
  <2>7. SizeOfAll(s) = SizeOf[Pick(s)] + SizeOfAll(r)
    BY Zenon, <2>1, <2>3, SumUnfold
  <2> QED
    BY <2>5, <2>6, <2>7
<1>3. Cardinality(S) \in K
  <2> HIDE DEF K
  <2>1. Nat \subseteq K
    BY Zenon, <1>1, <1>2, NaturalInduction
  <2> QED
    BY Zenon, <2>1, FS_CardinalityType
<1> QED
  BY Zenon, <1>3

\* A query more adds its size.
LEMMA SumAdd ==
    ASSUME NEW S \in SUBSET Select, IsFiniteSet(S), NEW x \in Select \ S
    PROVE  SizeOfAll(S \cup {x}) = SizeOfAll(S) + SizeOf[x]
<1> DEFINE K == {k \in Nat : \A s \in SUBSET Select : \A y \in Select \ s :
                               IsFiniteSet(s) /\ Cardinality(s) <= k =>
                                   SizeOfAll(s \cup {y}) = SizeOfAll(s) + SizeOf[y]}
<1>1. ASSUME NEW k \in Nat, NEW s \in SUBSET Select, NEW y \in Select \ s, IsFiniteSet(s),
             Cardinality(s) <= k,
             \A r \in SUBSET Select : \A z \in Select \ r :
                 IsFiniteSet(r) /\ Cardinality(r) < k => SizeOfAll(r \cup {z}) = SizeOfAll(r) + SizeOf[z]
      PROVE  SizeOfAll(s \cup {y}) = SizeOfAll(s) + SizeOf[y]
  <2>1. PICK u \in SUBSET Select : u = s \cup {y}
    BY Zenon
  <2>2. IsFiniteSet(u) /\ u # {}
    BY Zenon, <1>1, <2>1, FS_AddElement
  <2>3. PICK c \in u : c = Pick(u)
    BY Zenon, <2>2 DEF Pick
  <2>4. SizeOfAll(u) = SizeOf[c] + SizeOfAll(u \ {c})
    BY Zenon, <2>2, <2>3, SumUnfold
  <2>5. SizeOfAll(s) \in Nat /\ SizeOf[y] \in Nat /\ SizeOf[c] \in Nat
    BY Zenon, <1>1, SumNatural, CacheAssumption
  <2>6. CASE c = y
    <3>1. u \ {c} = s
      BY Zenon, <2>1, <2>6
    <3>2. SizeOfAll(u) = SizeOf[y] + SizeOfAll(s)
      BY Zenon, <2>4, <2>6, <3>1
    <3>3. SizeOfAll(u) = SizeOfAll(s) + SizeOf[y]
      BY <2>5, <3>2
    <3> QED
      BY Zenon, <2>1, <3>3
  <2>7. CASE c # y
    <3>1. c \in s
      BY Zenon, <2>1, <2>7
    <3>2. PICK r \in SUBSET Select : r = s \ {c}
      BY Zenon
    <3>3. IsFiniteSet(r) /\ Cardinality(r) = Cardinality(s) - 1 /\ Cardinality(s) \in Nat
      BY Zenon, <1>1, <3>1, <3>2, FS_RemoveElement, FS_CardinalityType
    <3>4. Cardinality(r) < k
      BY <1>1, <3>3
    <3>5. u \ {c} = r \cup {y} /\ y \notin r /\ s = r \cup {c} /\ c \notin r
      BY Zenon, <2>1, <2>7, <3>1, <3>2
    <3>6. SizeOfAll(r \cup {y}) = SizeOfAll(r) + SizeOf[y]
      BY Zenon, <1>1, <3>3, <3>4, <3>5
    <3>7. SizeOfAll(r \cup {c}) = SizeOfAll(r) + SizeOf[c]
      BY Zenon, <1>1, <3>3, <3>4, <3>5
    <3>8. SizeOfAll(r) \in Nat
      BY <3>3, SumNatural
    <3>9. SizeOfAll(u) = SizeOf[c] + (SizeOfAll(r) + SizeOf[y]) /\ SizeOfAll(s) = SizeOfAll(r) + SizeOf[c]
      BY Zenon, <2>4, <3>5, <3>6, <3>7
    <3>10. SizeOfAll(u) = SizeOfAll(s) + SizeOf[y]
      BY <2>5, <3>8, <3>9
    <3> QED
      BY Zenon, <2>1, <3>10
  <2> QED
    BY Zenon, <2>6, <2>7
<1>2. 0 \in K
  <2> SUFFICES ASSUME NEW s \in SUBSET Select, NEW y \in Select \ s, IsFiniteSet(s), Cardinality(s) <= 0
               PROVE  SizeOfAll(s \cup {y}) = SizeOfAll(s) + SizeOf[y]
    BY Zenon
  <2>1. \A r \in SUBSET Select : IsFiniteSet(r) => ~(Cardinality(r) < 0)
    BY FS_CardinalityType
  <2> QED
    BY Zenon, <1>1, <2>1
<1>3. ASSUME NEW k \in Nat, k \in K PROVE k + 1 \in K
  <2> SUFFICES ASSUME NEW s \in SUBSET Select, NEW y \in Select \ s, IsFiniteSet(s), Cardinality(s) <= k + 1
               PROVE  SizeOfAll(s \cup {y}) = SizeOfAll(s) + SizeOf[y]
    OBVIOUS
  <2>1. \A r \in SUBSET Select : IsFiniteSet(r) /\ Cardinality(r) < k + 1 => Cardinality(r) <= k
    BY FS_CardinalityType
  <2>2. \A r \in SUBSET Select : \A z \in Select \ r :
            IsFiniteSet(r) /\ Cardinality(r) < k + 1 => SizeOfAll(r \cup {z}) = SizeOfAll(r) + SizeOf[z]
    BY Zenon, <1>3, <2>1
  <2> QED
    BY <1>1, <2>2
<1>4. Cardinality(S) \in K /\ Cardinality(S) <= Cardinality(S)
  <2> HIDE DEF K
  <2>1. Nat \subseteq K
    BY Zenon, <1>2, <1>3, NaturalInduction
  <2> QED
    BY <2>1, FS_CardinalityType
<1> QED
  BY Zenon, <1>4

\* What is removed takes its sizes with it.
LEMMA SumMinus ==
    ASSUME NEW S \in SUBSET Select, IsFiniteSet(S), NEW gone \in SUBSET S
    PROVE  SizeOfAll(S \ gone) = SizeOfAll(S) - SizeOfAll(gone)
<1> DEFINE K == {k \in Nat : \A g \in SUBSET S :
                               Cardinality(g) = k => SizeOfAll(S \ g) = SizeOfAll(S) - SizeOfAll(g)}
<1>1. \A g \in SUBSET S : /\ IsFiniteSet(g) /\ Cardinality(g) \in Nat /\ SizeOfAll(g) \in Nat
                          /\ IsFiniteSet(S \ g) /\ SizeOfAll(S \ g) \in Nat
  <2>1. \A g \in SUBSET S : IsFiniteSet(g) /\ Cardinality(g) \in Nat
    BY Zenon, FS_Subset, FS_CardinalityType
  <2>2. \A g \in SUBSET S : SizeOfAll(g) \in Nat
    BY Zenon, <2>1, SumNatural
  <2>3. \A g \in SUBSET S : S \ g \in SUBSET S
    BY Zenon
  <2> QED
    BY Zenon, <2>1, <2>2, <2>3
<1>2. 0 \in K
  <2> SUFFICES ASSUME NEW g \in SUBSET S, Cardinality(g) = 0
               PROVE  SizeOfAll(S \ g) = SizeOfAll(S) - SizeOfAll(g)
    BY Zenon
  <2>1. g = {}
    BY Zenon, <1>1, FS_EmptySet
  <2>2. SizeOfAll(g) = 0
    BY Zenon, <1>1, <2>1, SumUnfold
  <2>3. S \ g = S /\ SizeOfAll(S) \in Nat
    BY Zenon, <2>1, SumNatural
  <2> QED
    BY <2>2, <2>3
<1>3. ASSUME NEW k \in Nat, k \in K PROVE k + 1 \in K
  <2> SUFFICES ASSUME NEW g \in SUBSET S, Cardinality(g) = k + 1
               PROVE  SizeOfAll(S \ g) = SizeOfAll(S) - SizeOfAll(g)
    OBVIOUS
  <2>1. PICK x : x \in g
    BY FS_EmptySet
  <2>2. PICK r \in SUBSET S : r = g \ {x}
    BY Zenon
  <2>3. IsFiniteSet(r) /\ Cardinality(r) = k
    <3>1. IsFiniteSet(g)
      BY Zenon, <1>1
    <3>2. Cardinality(g \ {x}) = Cardinality(g) - 1
      BY Zenon, <2>1, <3>1, FS_RemoveElement
    <3>3. Cardinality(r) = (k + 1) - 1
      BY Zenon, <2>2, <3>2
    <3>4. IsFiniteSet(r)
      BY Zenon, <1>1
    <3> QED
      BY <3>3, <3>4
  <2>4. SizeOfAll(S \ r) = SizeOfAll(S) - SizeOfAll(r)
    BY Zenon, <1>3, <2>3
  <2>5. g = r \cup {x} /\ x \in Select \ r /\ S \ r = (S \ g) \cup {x} /\ x \in Select \ (S \ g)
    BY Zenon, <2>1, <2>2
  <2>6. SizeOfAll(g) = SizeOfAll(r) + SizeOf[x]
    BY Zenon, <2>3, <2>5, SumAdd
  <2>7. SizeOfAll(S \ r) = SizeOfAll(S \ g) + SizeOf[x]
    <3>1. S \ g \in SUBSET Select /\ IsFiniteSet(S \ g)
      BY Zenon, <1>1
    <3> QED
      BY Zenon, <2>5, <3>1, SumAdd
  <2>8. /\ SizeOfAll(S) \in Nat /\ SizeOfAll(r) \in Nat /\ SizeOfAll(g) \in Nat
        /\ SizeOfAll(S \ g) \in Nat /\ SizeOf[x] \in Nat
    BY Zenon, <1>1, <2>5, CacheAssumption
  <2> QED
    BY <2>4, <2>6, <2>7, <2>8
<1>4. Cardinality(gone) \in K
  <2> HIDE DEF K
  <2>1. Nat \subseteq K
    BY Zenon, <1>2, <1>3, NaturalInduction
  <2> QED
    BY Zenon, <1>1, <2>1
<1> QED
  BY Zenon, <1>4

----------------------------------------------------------------------------
(* cache.Store: the list *)

\* A query that is not in the list may be put in front of it.
LEMMA FrontListed ==
    ASSUME NEW s \in Seq(Select), Distinct(s), NEW q \in Select, q \notin Elements(s)
    PROVE  /\ <<q>> \o s \in Seq(Select)
           /\ Distinct(<<q>> \o s)
           /\ Elements(<<q>> \o s) = Elements(s) \cup {q}
<1>1. PICK l : l = <<q>> \o s
  BY Zenon
<1>2. /\ l \in Seq(Select) /\ Len(l) = Len(s) + 1 /\ Len(s) \in Nat /\ l[1] = q
      /\ \A i \in 1..Len(s) : l[i + 1] = s[i]
  BY <1>1
<1>3. \A i \in 1..Len(l) : i # 1 => i - 1 \in 1..Len(s) /\ l[i] = s[i - 1]
  BY <1>2
<1>4. Elements(l) = Elements(s) \cup {q}
  <2>1. Elements(l) \subseteq Elements(s) \cup {q}
    BY <1>2, <1>3 DEF Elements
  <2>2. Elements(s) \cup {q} \subseteq Elements(l)
    BY <1>2 DEF Elements
  <2> QED
    BY Zenon, <2>1, <2>2
<1>5. Distinct(l)
  <2> SUFFICES ASSUME NEW i \in 1..Len(l), NEW j \in 1..Len(l), l[i] = l[j] PROVE i = j
    BY Zenon DEF Distinct
  <2>1. CASE i = 1 /\ j # 1
    BY Zenon, <1>2, <1>3, <2>1 DEF Elements
  <2>2. CASE i # 1 /\ j = 1
    BY Zenon, <1>2, <1>3, <2>2 DEF Elements
  <2>3. CASE i # 1 /\ j # 1
    <3>1. i - 1 = j - 1
      BY <1>3, <2>3 DEF Distinct
    <3> QED
      BY <3>1
  <2> QED
    BY Zenon, <2>1, <2>2, <2>3
<1> QED
  BY Zenon, <1>1, <1>2, <1>4, <1>5

\* removeEntry leaves the other queries of the list, each once.
LEMMA KeepsListed ==
    ASSUME NEW l \in Seq(Select), Distinct(l), NEW gone
    PROVE  /\ Keeps(l, gone) \in Seq(Select)
           /\ Distinct(Keeps(l, gone))
           /\ Elements(Keeps(l, gone)) = Elements(l) \ gone
<1>1. PICK T : T = Range(l) \ gone
  BY Zenon
<1>2. Keeps(l, gone) = Only(l, T)
  BY Zenon, <1>1 DEF Keeps
<1>3. Range(l) = Elements(l)
  BY DEF Range, Elements
<1>4. Elements(l) \cap T = Elements(l) \ gone
  BY Zenon, <1>1, <1>3
<1> QED
  BY <1>2, <1>4, OnlyListed

\* A list without repetitions is as long as it has members.
LEMMA ListedCount ==
    ASSUME NEW l \in Seq(Select), Distinct(l)
    PROVE  /\ IsFiniteSet(Elements(l))
           /\ Len(l) = Cardinality(Elements(l))
<1>1. PICK n \in Nat : n = Len(l)
  OBVIOUS
<1>2. PICK f : f = [i \in 1..n |-> l[i]]
  BY Zenon
<1>3. f \in Bijection(1..n, Elements(l))
  BY <1>1, <1>2 DEF Bijection, Injection, Surjection, IsInjective, Distinct, Elements
<1>4. IsFiniteSet(1..n) /\ Cardinality(1..n) = n
  <2>1. 1 \in Int /\ n \in Int
    OBVIOUS
  <2>2. IsFiniteSet(1..n) /\ Cardinality(1..n) = IF 1 > n THEN 0 ELSE n - 1 + 1
    BY Zenon, <2>1, FS_Interval
  <2> QED
    BY <2>2
<1>5. ExistsBijection(1..n, Elements(l))
  BY Zenon, <1>3 DEF ExistsBijection
<1> QED
  BY Zenon, <1>1, <1>4, <1>5, FS_Bijection

----------------------------------------------------------------------------
(* cache.Store: the operations *)

\* A state of the store: its entries, its list and its memory counter agree.
Agree(queries, l, memory) ==
    /\ queries \subseteq Select
    /\ l \in Seq(Select) /\ Distinct(l) /\ Elements(l) = queries
    /\ memory = SizeOfAll(queries) /\ memory <= MaxMemory

StoreInv == RTypeOK /\ Agree(DOMAIN entries, evictionList, currentMemory)

\* What the counter is, and what it becomes when entries are removed.
LEMMA AgreeSums ==
    ASSUME NEW D, NEW l, NEW m, Agree(D, l, m), NEW gone \in SUBSET D
    PROVE  /\ IsFiniteSet(D) /\ IsFiniteSet(gone) /\ IsFiniteSet(D \ gone)
           /\ m \in Nat /\ SizeOfAll(gone) \in Nat /\ SizeOfAll(D \ gone) \in Nat
           /\ SizeOfAll(D \ gone) = m - SizeOfAll(gone)
<1>1. IsFiniteSet(D) /\ D \in SUBSET Select
  BY Zenon, ListedCount DEF Agree
<1>2. IsFiniteSet(gone) /\ IsFiniteSet(D \ gone) /\ gone \in SUBSET Select /\ D \ gone \in SUBSET Select
  BY Zenon, <1>1, FS_Subset
<1>3. m = SizeOfAll(D)
  BY Zenon DEF Agree
<1>4. SizeOfAll(D) \in Nat /\ SizeOfAll(gone) \in Nat /\ SizeOfAll(D \ gone) \in Nat
  BY Zenon, <1>1, <1>2, SumNatural
<1>5. SizeOfAll(D \ gone) = SizeOfAll(D) - SizeOfAll(gone)
  BY Zenon, <1>1, SumMinus
<1> QED
  BY Zenon, <1>1, <1>2, <1>3, <1>4, <1>5

\* removeEntry keeps the three in agreement.
LEMMA RemoveAgrees ==
    ASSUME NEW D, NEW l, NEW m, Agree(D, l, m), NEW gone \in SUBSET D
    PROVE  Agree(D \ gone, Keeps(l, gone), m - SizeOfAll(gone))
<1>1. /\ m \in Nat /\ SizeOfAll(gone) \in Nat
      /\ SizeOfAll(D \ gone) = m - SizeOfAll(gone)
  BY AgreeSums
<1>2. m <= MaxMemory /\ MaxMemory \in Nat
  BY Zenon, CacheAssumption DEF Agree
<1>3. m - SizeOfAll(gone) <= MaxMemory
  BY <1>1, <1>2
<1>4. l \in Seq(Select) /\ Distinct(l) /\ Elements(l) = D /\ D \ gone \subseteq Select
  BY Zenon DEF Agree
<1>5. /\ Keeps(l, gone) \in Seq(Select) /\ Distinct(Keeps(l, gone))
      /\ Elements(Keeps(l, gone)) = D \ gone
  BY Zenon, <1>4, KeepsListed
<1> QED
  BY Zenon, <1>1, <1>3, <1>4, <1>5 DEF Agree

\* The eviction ends with the list used up, or with room for the new entry.
LEMMA EvictLRUEnd ==
    ASSUME NEW l \in Seq(Select), NEW memory, NEW size
    PROVE  \E ev \in SUBSET Elements(l) :
               /\ EvictLRU(l, memory, size) = ev
               /\ ev = Elements(l) \/ memory - SizeOfAll(ev) + size <= MaxMemory
<1> DEFINE Last(k) == {l[i] : i \in (Len(l) - k + 1)..Len(l)}
           T == {n \in 0..Len(l) : n = Len(l) \/ memory - SizeOfAll(Last(n)) + size <= MaxMemory}
<1>1. T \subseteq Nat /\ Len(l) \in T
  OBVIOUS
<1>2. PICK k : k = Min(T)
  BY Zenon
<1>3. EvictLRU(l, memory, size) = Last(k)
  BY Zenon, <1>2 DEF EvictLRU
<1>4. k \in T
  <2> HIDE DEF T
  <2>1. \E n \in T : \A j \in T : n <= j
    BY Zenon, <1>1, LeastNatural
  <2> QED
    BY Zenon, <1>2, <2>1 DEF Min
<1>5. k \in 0..Len(l) /\ (k = Len(l) \/ memory - SizeOfAll(Last(k)) + size <= MaxMemory)
  BY Zenon, <1>4
<1>6. Last(k) \subseteq Elements(l)
  BY <1>5 DEF Elements
<1>7. k = Len(l) => Last(k) = Elements(l)
  BY <1>5 DEF Elements
<1> HIDE DEF Last, T
<1> QED
  BY Zenon, <1>3, <1>5, <1>6, <1>7

\* Set keeps them in agreement: what it evicts, after the old entry, is enough.
LEMMA SetAgrees ==
    ASSUME NEW D, NEW l, NEW m, Agree(D, l, m), NEW q \in Select, SizeOf[q] <= MaxMemory,
           NEW old, old = {q} \cap D,
           NEW gone, gone = old \cup EvictLRU(Keeps(l, old), m - SizeOfAll(old), SizeOf[q])
    PROVE  Agree((D \ gone) \cup {q}, <<q>> \o Keeps(l, gone), m - SizeOfAll(gone) + SizeOf[q])
<1>1. PICK l1, m1 : l1 = Keeps(l, old) /\ m1 = m - SizeOfAll(old)
  BY Zenon
<1>2. Agree(D \ old, l1, m1)
  BY Zenon, <1>1, RemoveAgrees
<1>3. PICK ev \in SUBSET Elements(l1) :
          /\ EvictLRU(l1, m1, SizeOf[q]) = ev
          /\ ev = Elements(l1) \/ m1 - SizeOfAll(ev) + SizeOf[q] <= MaxMemory
  BY <1>2, EvictLRUEnd DEF Agree
<1>4. Elements(l1) = D \ old
  BY Zenon, <1>2 DEF Agree
<1>5. gone = old \cup ev /\ gone \in SUBSET D /\ D \ gone = (D \ old) \ ev
  BY Zenon, <1>1, <1>3, <1>4
<1>6. Agree(D \ gone, Keeps(l, gone), m - SizeOfAll(gone))
  BY Zenon, <1>5, RemoveAgrees
<1>7. q \in Select \ (D \ gone)
  BY Zenon, <1>5
<1>8. /\ D \ gone \in SUBSET Select /\ Keeps(l, gone) \in Seq(Select)
      /\ Distinct(Keeps(l, gone)) /\ Elements(Keeps(l, gone)) = D \ gone
      /\ m - SizeOfAll(gone) = SizeOfAll(D \ gone)
  BY Zenon, <1>6 DEF Agree
<1>9. /\ <<q>> \o Keeps(l, gone) \in Seq(Select) /\ Distinct(<<q>> \o Keeps(l, gone))
      /\ Elements(<<q>> \o Keeps(l, gone)) = (D \ gone) \cup {q}
  <2>1. PICK s : s = Keeps(l, gone)
    BY Zenon
  <2>2. s \in Seq(Select) /\ Distinct(s) /\ Elements(s) = D \ gone /\ q \in Select /\ q \notin Elements(s)
    BY Zenon, <1>7, <1>8, <2>1
  <2>3. <<q>> \o s \in Seq(Select) /\ Distinct(<<q>> \o s) /\ Elements(<<q>> \o s) = Elements(s) \cup {q}
    BY Zenon, <2>2, FrontListed
  <2> QED
    BY Zenon, <2>1, <2>2, <2>3
<1>10. SizeOfAll((D \ gone) \cup {q}) = SizeOfAll(D \ gone) + SizeOf[q]
  BY Zenon, <1>5, <1>7, <1>8, AgreeSums, SumAdd
<1>11. SizeOfAll(D \ gone) + SizeOf[q] <= MaxMemory
  <2>1. SizeOf[q] \in Nat /\ MaxMemory \in Nat
    BY Zenon, CacheAssumption
  <2>2. CASE ev = Elements(l1)
    <3>1. D \ gone = {}
      BY Zenon, <1>4, <1>5, <2>2
    <3>2. SizeOfAll(D \ gone) = 0
      BY Zenon, <3>1, FS_EmptySet, SumUnfold
    <3> QED
      BY <2>1, <3>2
  <2>3. CASE m1 - SizeOfAll(ev) + SizeOf[q] <= MaxMemory
    <3>1. SizeOfAll((D \ old) \ ev) = m1 - SizeOfAll(ev)
      <4>1. PICK D1 : D1 = D \ old
        BY Zenon
      <4>2. Agree(D1, l1, m1) /\ ev \in SUBSET D1
        BY Zenon, <1>2, <1>3, <1>4, <4>1
      <4>3. Agree(D1 \ ev, Keeps(l1, ev), m1 - SizeOfAll(ev))
        BY Zenon, <4>2, RemoveAgrees
      <4> QED
        BY Zenon, <4>1, <4>3 DEF Agree
    <3> QED
      BY Zenon, <1>5, <2>3, <3>1
  <2> QED
    BY Zenon, <1>3, <2>2, <2>3
<1> QED
  BY Zenon, <1>8, <1>9, <1>10, <1>11 DEF Agree

\* Get moves the query to the front.
LEMMA FrontAgrees ==
    ASSUME NEW D, NEW l, NEW m, Agree(D, l, m), NEW q \in D
    PROVE  Agree(D, <<q>> \o Keeps(l, {q}), m)
<1>1. l \in Seq(Select) /\ Distinct(l) /\ Elements(l) = D /\ D \subseteq Select
  BY Zenon DEF Agree
<1>2. /\ Keeps(l, {q}) \in Seq(Select) /\ Distinct(Keeps(l, {q}))
      /\ Elements(Keeps(l, {q})) = D \ {q}
  BY Zenon, <1>1, KeepsListed
<1>3. q \in Select /\ q \notin Elements(Keeps(l, {q}))
  BY Zenon, <1>1, <1>2
<1>4. /\ <<q>> \o Keeps(l, {q}) \in Seq(Select) /\ Distinct(<<q>> \o Keeps(l, {q}))
      /\ Elements(<<q>> \o Keeps(l, {q})) = (D \ {q}) \cup {q}
  BY Zenon, <1>2, <1>3, FrontListed
<1>5. (D \ {q}) \cup {q} = D
  BY Zenon
<1> QED
  BY Zenon, <1>4, <1>5 DEF Agree

\* Every step keeps them in agreement.
LEMMA StoreStep == StoreInv /\ [CacheNext]_cacheVars => StoreInv'
<1> SUFFICES ASSUME StoreInv, [CacheNext]_cacheVars PROVE StoreInv'
  BY Zenon
<1>1. RTypeOK'
  BY Zenon, ResultTypeStep DEF StoreInv
<1>2. PICK D, l, m : D = DOMAIN entries /\ l = evictionList /\ m = currentMemory
  BY Zenon
<1>3. Agree(D, l, m)
  BY Zenon, <1>2 DEF StoreInv
<1> DEFINE Good == \E D2, l2, m2 : /\ D2 = DOMAIN entries' /\ l2 = evictionList' /\ m2 = currentMemory'
                                  /\ Agree(D2, l2, m2)
<1>4. ASSUME NEW gone \in SUBSET DOMAIN entries, RemoveEntries(gone) PROVE Good
  <2>1. DOMAIN entries' = D \ gone
    BY Zenon, <1>2, <1>4 DEF RemoveEntries, Restrict
  <2>2. evictionList' = Keeps(l, gone) /\ currentMemory' = m - SizeOfAll(gone)
    BY Zenon, <1>2, <1>4 DEF RemoveEntries
  <2>3. Agree(D \ gone, Keeps(l, gone), m - SizeOfAll(gone))
    BY Zenon, <1>2, <1>3, RemoveAgrees
  <2> QED
    BY Zenon, <2>1, <2>2, <2>3
<1>5. ASSUME UNCHANGED storeVars PROVE Good
  BY Zenon, <1>2, <1>3, <1>5 DEF storeVars
<1>6. ASSUME NEW q \in Select, NEW e, Set(q, e) PROVE Good
  <2>1. CASE SizeOf[q] > MaxMemory
    BY Zenon, <1>5, <1>6, <2>1 DEF Set
  <2>2. CASE ~(SizeOf[q] > MaxMemory)
    <3>1. PICK old : old = {q} \cap D
      BY Zenon
    <3>2. PICK gone : gone = old \cup EvictLRU(Keeps(l, old), m - SizeOfAll(old), SizeOf[q])
      BY Zenon
    <3>3. /\ entries' = [p \in (D \ gone) \cup {q} |-> IF p = q THEN e ELSE entries[p]]
          /\ evictionList' = <<q>> \o Keeps(l, gone)
          /\ currentMemory' = m - SizeOfAll(gone) + SizeOf[q]
      BY Zenon, <1>2, <1>6, <2>2, <3>1, <3>2 DEF Set
    <3>4. SizeOf[q] <= MaxMemory
      BY <2>2, CacheAssumption
    <3>5. Agree((D \ gone) \cup {q}, <<q>> \o Keeps(l, gone), m - SizeOfAll(gone) + SizeOf[q])
      BY Zenon, <1>3, <3>1, <3>2, <3>4, SetAgrees
    <3>6. DOMAIN entries' = (D \ gone) \cup {q}
      BY Zenon, <3>3
    <3> QED
      BY Zenon, <3>3, <3>5, <3>6
  <2> QED
    BY Zenon, <2>1, <2>2
<1>7. ASSUME NEW s \in Client, NEW q \in Select, SelectHit(s, q) PROVE Good
  <2>1. /\ q \in D /\ DOMAIN entries' = D /\ currentMemory' = m
        /\ evictionList' = <<q>> \o Keeps(l, {q})
    BY Zenon, <1>2, <1>7 DEF SelectHit
  <2>2. Agree(D, <<q>> \o Keeps(l, {q}), m)
    BY Zenon, <1>3, <2>1, FrontAgrees
  <2> QED
    BY Zenon, <2>1, <2>2
<1>8. ASSUME NEW s \in Client, NEW q \in Select, SelectMiss(s, q) PROVE Good
  <2>1. CASE q \in DOMAIN entries
    <3>1. RemoveEntries({q}) /\ {q} \in SUBSET DOMAIN entries
      BY Zenon, <1>8, <2>1 DEF SelectMiss
    <3> QED
      BY Zenon, <1>4, <3>1
  <2>2. CASE q \notin DOMAIN entries
    BY Zenon, <1>5, <1>8, <2>2 DEF SelectMiss
  <2> QED
    BY Zenon, <2>1, <2>2
<1>9. ASSUME NEW s \in Client, NEW w \in Write, Modify(s, w) PROVE Good
  <2>1. \E gone \in SUBSET DOMAIN entries : RemoveEntries(gone)
    BY Zenon, <1>9 DEF Modify, InvalidateTables
  <2> QED
    BY Zenon, <1>4, <2>1
<1>10. ASSUME NEW s \in Client, StoreAnswer(s) PROVE Good
  <2>1. qry[s] \in Select
    BY Zenon, <1>10 DEF StoreAnswer, StoreInv, RTypeOK
  <2>2. \E e : Set(qry[s], e)
    BY Zenon, <1>10 DEF StoreAnswer
  <2> QED
    BY Zenon, <1>6, <2>1, <2>2
<1>11. ASSUME NEW s \in Client, Commit(s) PROVE Good
  <2>1. DOMAIN entries' = D /\ evictionList' = l /\ currentMemory' = m
    BY Zenon, <1>2, <1>11 DEF Commit
  <2> QED
    BY Zenon, <1>3, <2>1
<1>12. ASSUME CleanupExpired PROVE Good
  BY Zenon, <1>4, <1>12 DEF CleanupExpired
<1>13. Good
  <2>1. ASSUME NEW s \in Client, Answered(s) \/ AnswerFails(s) \/ Rollback(s) PROVE UNCHANGED storeVars
    BY Zenon, <2>1 DEF Answered, AnswerFails, Rollback
  <2>2. UNCHANGED cacheVars => UNCHANGED storeVars
    BY Zenon DEF cacheVars
  <2> HIDE DEF Good
  <2> QED
    BY Zenon, <1>5, <1>7, <1>8, <1>9, <1>10, <1>11, <1>12, <2>1, <2>2 DEF CacheNext
<1> QED
  BY Zenon, <1>1, <1>13 DEF StoreInv

\* The list of cache.Store has each entry once and nothing else, and its memory counter
\* is the sum of the sizes and never above the maximum, whatever Get, Set, the
\* invalidations and the cleanup do in which order.
THEOREM ResultStoreConsistent == CacheSpec => []StoreConsistent
<1>1. CacheInit => StoreInv
  <2> SUFFICES ASSUME CacheInit PROVE StoreInv
    BY Zenon
  <2>1. DOMAIN entries = {} /\ version \in Versions
    BY DEF CacheInit, Versions
  <2>2. RTypeOK
    BY Zenon, <2>1 DEF CacheInit, RTypeOK
  <2>3. evictionList = <<>> /\ currentMemory = 0 /\ evictionList \in Seq(Select)
    BY DEF CacheInit
  <2>4. Len(evictionList) = 0
    BY Zenon, <2>3
  <2>5. Elements(evictionList) = {} /\ Distinct(evictionList)
    BY <2>4 DEF Elements, Distinct
  <2>6. SizeOfAll({}) = 0
    BY Zenon, FS_EmptySet, SumUnfold
  <2>7. currentMemory <= MaxMemory
    BY <2>3, CacheAssumption
  <2> QED
    BY Zenon, <2>1, <2>2, <2>3, <2>5, <2>6, <2>7 DEF StoreInv, Agree
<1>2. StoreInv => StoreConsistent
  <2> SUFFICES ASSUME StoreInv PROVE StoreConsistent
    BY Zenon
  <2>1. Agree(DOMAIN entries, evictionList, currentMemory)
    BY Zenon DEF StoreInv
  <2>2. /\ evictionList \in Seq(Select) /\ Distinct(evictionList)
        /\ Elements(evictionList) = DOMAIN entries
        /\ currentMemory = SizeOfAll(DOMAIN entries) /\ currentMemory <= MaxMemory
    BY Zenon, <2>1 DEF Agree
  <2>3. Len(evictionList) = Cardinality(DOMAIN entries)
    BY Zenon, <2>2, ListedCount
  <2>4. DOMAIN evictionList = 1..Len(evictionList)
    BY <2>2
  <2> QED
    BY Zenon, <2>2, <2>3, <2>4 DEF StoreConsistent, Elements
<1> QED
  BY <1>1, <1>2, StoreStep, PTL DEF CacheSpec

----------------------------------------------------------------------------
(* stmt.Cache *)

\* Names are not assumed to be finitely many: that the cache holds finitely many
\* statements is part of the invariant.
StmtTypeOK ==
    /\ stmtSql \in [Name -> Sql \cup {NoSql}]
    /\ sqlToName \in [Sql -> Name \cup {NoStmtName}]
    /\ lruList \in Seq(Name)
    /\ currentSize \in Int
    /\ putAgain \in BOOLEAN
    /\ IsFiniteSet(Stored)

StmtInv == StmtTypeOK /\ StmtBounded

\* The loop of Put ends with the list used up, or with room for one statement.
LEMMA EvictionsEnd ==
    ASSUME lruList \in Seq(Name)
    PROVE  /\ Evictions \in 0..Len(lruList)
           /\ \/ Evictions = Len(lruList)
              \/ currentSize - Cardinality(Evicted(Evictions)) < Capacity
<1> DEFINE T == {k \in 0..Len(lruList) : k = Len(lruList)
                    \/ currentSize - Cardinality(Evicted(k)) < Capacity}
<1>1. T \subseteq Nat /\ Len(lruList) \in T
  OBVIOUS
<1> HIDE DEF T
<1>2. \E k \in T : \A j \in T : k <= j
  BY Zenon, <1>1, LeastNatural
<1>3. Min(T) \in T
  BY Zenon, <1>2 DEF Min
<1>4. Evictions = Min(T)
  BY Zenon DEF Evictions, T
<1> QED
  BY Zenon, <1>3, <1>4 DEF T

\* What is left when some names are evicted, and how many.
LEMMA WithoutPresent ==
    ASSUME StmtTypeOK, NEW gone, gone \subseteq Stored
    PROVE  /\ IsFiniteSet(gone) /\ IsFiniteSet(Stored \ gone)
           /\ Cardinality(gone) \in Nat /\ Cardinality(Stored) \in Nat
           /\ Cardinality(Stored \ gone) = Cardinality(Stored) - Cardinality(gone)
           /\ \A n \in Name : StmtsWithout(gone)[n] = IF n \in gone THEN NoSql ELSE stmtSql[n]
<1>1. IsFiniteSet(Stored) /\ IsFiniteSet(gone)
  BY Zenon, FS_Subset DEF StmtTypeOK
<1>2. IsFiniteSet(Stored \ gone)
  BY Zenon, <1>1, FS_Difference
<1>3. Cardinality(Stored \ gone) = Cardinality(Stored) - Cardinality(gone)
  <2>1. Stored \cap gone = gone
    BY Zenon
  <2> QED
    BY <1>1, <2>1, FS_Difference
<1>4. Cardinality(gone) \in Nat /\ Cardinality(Stored) \in Nat
  BY Zenon, <1>1, FS_CardinalityType
<1> QED
  BY Zenon, <1>1, <1>2, <1>3, <1>4 DEF StmtsWithout

\* Put keeps the bound, the counter, the list and the index by SQL text.
LEMMA PutBounded ==
    ASSUME StmtInv, NEW n \in Name, NEW q \in Sql, Put(n, q)
    PROVE  StmtInv'
<1>1. PICK k : k = Evictions
  BY Zenon
<1>2. PICK gone : gone = Evicted(k)
  BY Zenon
<1>3. /\ stmtSql' = [StmtsWithout(gone) EXCEPT ![n] = q]
      /\ sqlToName' = [NamesWithout(gone) EXCEPT ![q] = n]
      /\ lruList' = <<n>> \o SubSeq(lruList, 1, Len(lruList) - k)
      /\ currentSize' = currentSize - Cardinality(gone) + 1
      /\ putAgain' = (putAgain \/ n \in Stored \ gone)
  BY Zenon, <1>1, <1>2 DEF Put
<1>4. StmtTypeOK /\ StmtBounded
  BY Zenon DEF StmtInv
<1>5. /\ k \in 0..Len(lruList)
      /\ k = Len(lruList) \/ currentSize - Cardinality(gone) < Capacity
  BY Zenon, <1>1, <1>2, <1>4, EvictionsEnd DEF StmtTypeOK
<1>6. gone \subseteq Stored
  BY Zenon, <1>2 DEF Evicted
<1>7. /\ IsFiniteSet(gone) /\ IsFiniteSet(Stored \ gone)
      /\ Cardinality(gone) \in Nat /\ Cardinality(Stored) \in Nat
      /\ Cardinality(Stored \ gone) = Cardinality(Stored) - Cardinality(gone)
      /\ \A m \in Name : StmtsWithout(gone)[m] = IF m \in gone THEN NoSql ELSE stmtSql[m]
  BY Zenon, <1>4, <1>6, WithoutPresent
<1>8. /\ stmtSql' \in [Name -> Sql \cup {NoSql}]
      /\ stmtSql'[n] = q
      /\ \A m \in Name \ {n} : stmtSql'[m] = IF m \in gone THEN NoSql ELSE stmtSql[m]
  BY Zenon, <1>3, <1>4 DEF StmtTypeOK, StmtsWithout
<1>9. Stored' = (Stored \ gone) \cup {n}
  BY Zenon, <1>6, <1>8, StmtAssumption DEF Stored
<1>10. /\ IsFiniteSet(Stored')
       /\ Cardinality(Stored') = IF n \in Stored \ gone THEN Cardinality(Stored \ gone)
                                  ELSE Cardinality(Stored \ gone) + 1
  BY Zenon, <1>7, <1>9, FS_AddElement
<1>11. /\ sqlToName' \in [Sql -> Name \cup {NoStmtName}]
       /\ sqlToName'[q] = n
       /\ \A p \in Sql \ {q} :
             sqlToName'[p] = IF \E m \in gone : stmtSql[m] = p THEN NoStmtName ELSE sqlToName[p]
  BY Zenon, <1>3, <1>4 DEF StmtTypeOK, NamesWithout
<1>12. /\ lruList' \in Seq(Name) /\ Len(lruList') = Len(lruList) - k + 1
       /\ lruList'[1] = n
       /\ \A i \in 1..(Len(lruList) - k) : lruList'[i + 1] = lruList[i]
  BY <1>3, <1>4, <1>5 DEF StmtTypeOK
<1>13. StmtTypeOK'
  BY <1>3, <1>4, <1>7, <1>8, <1>10, <1>11, <1>12 DEF StmtTypeOK
<1>14. Cardinality(Stored \ gone) < Capacity
  <2>1. CASE k = Len(lruList)
    <3>1. gone = Stored
      BY <1>2, <1>4, <2>1 DEF Evicted, StmtBounded, StmtTypeOK
    <3> QED
      BY <1>7, <3>1, StmtAssumption
  <2>2. CASE currentSize - Cardinality(gone) < Capacity
    BY <1>4, <1>7, <2>2, StmtAssumption DEF StmtBounded, StmtTypeOK
  <2> QED
    BY Zenon, <1>5, <2>1, <2>2
<1>15. Cardinality(Stored') <= Capacity /\ Cardinality(Stored') <= currentSize'
  BY <1>3, <1>4, <1>7, <1>10, <1>14, StmtAssumption DEF StmtBounded, StmtTypeOK
<1>16. Stored' \subseteq {lruList'[i] : i \in DOMAIN lruList'}
  <2> SUFFICES ASSUME NEW m \in Stored' PROVE \E i \in DOMAIN lruList' : lruList'[i] = m
    BY Zenon
  <2>1. CASE m = n
    <3>1. 1 \in DOMAIN lruList' /\ lruList'[1] = n
      BY <1>5, <1>12
    <3> QED
      BY Zenon, <2>1, <3>1
  <2>2. CASE m \in Stored \ gone
    <3>1. PICK i \in 1..Len(lruList) : lruList[i] = m
      BY <1>4, <2>2 DEF StmtBounded, StmtTypeOK
    <3>2. i \notin (Len(lruList) - k + 1)..Len(lruList)
      BY Zenon, <1>2, <2>2, <3>1 DEF Evicted
    <3>3. i \in 1..(Len(lruList) - k) /\ i + 1 \in DOMAIN lruList'
      BY <1>4, <1>5, <1>12, <3>1, <3>2 DEF StmtTypeOK
    <3> QED
      BY Zenon, <1>12, <3>1, <3>3
  <2> QED
    BY Zenon, <1>9, <2>1, <2>2
<1>17. ASSUME ~putAgain' PROVE /\ currentSize' = Cardinality(Stored')
                              /\ \A p \in Sql : sqlToName'[p] # NoStmtName =>
                                                  stmtSql'[sqlToName'[p]] = p
  <2>1. ~putAgain /\ n \notin Stored \ gone
    BY Zenon, <1>3, <1>17
  <2>2. currentSize' = Cardinality(Stored')
    BY Zenon, <1>3, <1>4, <1>7, <1>10, <2>1 DEF StmtBounded, StmtTypeOK
  <2>3. ASSUME NEW p \in Sql, sqlToName'[p] # NoStmtName PROVE stmtSql'[sqlToName'[p]] = p
    <3>1. CASE p = q
      BY Zenon, <1>8, <1>11, <3>1
    <3>2. CASE p # q
      <4>1. sqlToName'[p] = sqlToName[p] /\ ~\E m \in gone : stmtSql[m] = p
        BY Zenon, <1>11, <2>3, <3>2
      <4>2. PICK m \in Name : m = sqlToName[p] /\ stmtSql[m] = p
        BY Zenon, <1>4, <2>1, <2>3, <4>1 DEF StmtBounded, StmtTypeOK
      <4>3. m \in Stored \ gone
        BY Zenon, <4>1, <4>2, StmtAssumption DEF Stored
      <4> QED
        BY Zenon, <1>8, <2>1, <4>1, <4>2, <4>3
    <3> QED
      BY Zenon, <3>1, <3>2
  <2> QED
    BY Zenon, <2>2, <2>3
<1> QED
  BY Zenon, <1>13, <1>15, <1>16, <1>17 DEF StmtInv, StmtBounded

\* So do Remove, which leaves the name in the list, and Clear.
LEMMA StmtStep == StmtInv /\ [StmtNext]_stmtVars => StmtInv'
<1> SUFFICES ASSUME StmtInv, [StmtNext]_stmtVars PROVE StmtInv'
  BY Zenon
<1>1. StmtTypeOK /\ StmtBounded
  BY Zenon DEF StmtInv
<1>2. ASSUME NEW n \in Name, RemoveStmt(n) PROVE StmtInv'
  <2>1. n \in Stored /\ {n} \subseteq Stored
    BY Zenon, <1>2 DEF RemoveStmt
  <2>2. /\ stmtSql' \in [Name -> Sql \cup {NoSql}]
        /\ \A m \in Name : stmtSql'[m] = IF m = n THEN NoSql ELSE stmtSql[m]
    BY Zenon, <1>1, <1>2 DEF RemoveStmt, StmtsWithout, StmtTypeOK
  <2>3. Stored' = Stored \ {n}
    BY Zenon, <2>2 DEF Stored
  <2>4. /\ IsFiniteSet(Stored') /\ Cardinality(Stored) \in Nat
        /\ Cardinality(Stored') = Cardinality(Stored) - 1
    BY Zenon, <1>1, <2>1, <2>3, FS_RemoveElement, FS_CardinalityType DEF StmtTypeOK
  <2>5. /\ sqlToName' \in [Sql -> Name \cup {NoStmtName}]
        /\ \A p \in Sql : sqlToName'[p] = IF stmtSql[n] = p THEN NoStmtName ELSE sqlToName[p]
    BY Zenon, <1>1, <1>2 DEF RemoveStmt, NamesWithout, StmtTypeOK
  <2>6. currentSize' = currentSize - 1 /\ UNCHANGED <<lruList, putAgain>>
    BY Zenon, <1>2 DEF RemoveStmt
  <2>7. StmtTypeOK'
    BY <1>1, <2>2, <2>4, <2>5, <2>6 DEF StmtTypeOK
  <2>8. ASSUME ~putAgain, NEW p \in Sql, sqlToName'[p] # NoStmtName
        PROVE  stmtSql'[sqlToName'[p]] = p
    <3>1. sqlToName'[p] = sqlToName[p] /\ stmtSql[n] # p
      BY Zenon, <2>5, <2>8
    <3>2. sqlToName[p] \in Name /\ stmtSql[sqlToName[p]] = p
      BY Zenon, <1>1, <2>8, <3>1 DEF StmtBounded, StmtTypeOK
    <3> QED
      BY Zenon, <2>2, <3>1, <3>2
  <2>9. StmtBounded'
    BY <1>1, <2>3, <2>4, <2>6, <2>8, StmtAssumption DEF StmtBounded, StmtTypeOK
  <2> QED
    BY Zenon, <2>7, <2>9 DEF StmtInv
<1>3. CASE ClearStmts
  <2>1. Stored' = {} /\ IsFiniteSet(Stored') /\ Cardinality(Stored') = 0
    <3>1. Stored' = {}
      BY Zenon, <1>3 DEF ClearStmts, Stored
    <3> QED
      BY Zenon, <3>1, FS_EmptySet
  <2>2. StmtTypeOK'
    <3>1. /\ stmtSql' \in [Name -> Sql \cup {NoSql}]
          /\ sqlToName' \in [Sql -> Name \cup {NoStmtName}]
      BY Zenon, <1>3 DEF ClearStmts
    <3>2. lruList' = <<>> /\ currentSize' = 0 /\ putAgain' = FALSE
      BY Zenon, <1>3 DEF ClearStmts
    <3>3. lruList' \in Seq(Name) /\ currentSize' \in Int
      BY <3>2
    <3>4. putAgain' \in BOOLEAN
      BY Zenon, <3>2, Zenon
    <3> QED
      BY Zenon, <2>1, <3>1, <3>3, <3>4 DEF StmtTypeOK
  <2>3. StmtBounded'
    <3>1. \A q \in Sql : sqlToName'[q] = NoStmtName
      BY Zenon, <1>3 DEF ClearStmts
    <3> QED
      BY <1>3, <2>1, <3>1, StmtAssumption DEF ClearStmts, StmtBounded
  <2> QED
    BY Zenon, <2>2, <2>3 DEF StmtInv
<1>4. CASE UNCHANGED stmtVars
  <2>1. Stored' = Stored
    BY Zenon, <1>4 DEF stmtVars, Stored
  <2> QED
    BY <1>1, <1>4, <2>1 DEF stmtVars, StmtInv, StmtTypeOK, StmtBounded
<1> QED
  BY Zenon, <1>2, <1>3, <1>4, PutBounded DEF StmtNext

\* The cache of prepared statements never holds more than maxSize of them, whatever is
\* put again or removed; until a name is put again its size is exact and its index by
\* SQL text sound.
THEOREM StmtCacheBounded == StmtSpec => []StmtBounded
<1>1. StmtInit => StmtInv
  <2> SUFFICES ASSUME StmtInit PROVE StmtInv
    BY Zenon
  <2>1. Stored = {}
    BY Zenon DEF StmtInit, Stored
  <2>2. IsFiniteSet(Stored) /\ Cardinality(Stored) = 0
    BY Zenon, <2>1, FS_EmptySet
  <2>3. StmtTypeOK
    <3>1. /\ stmtSql \in [Name -> Sql \cup {NoSql}]
          /\ sqlToName \in [Sql -> Name \cup {NoStmtName}]
      BY Zenon DEF StmtInit
    <3>2. lruList = <<>> /\ currentSize = 0 /\ putAgain = FALSE
      BY Zenon DEF StmtInit
    <3>3. lruList \in Seq(Name) /\ currentSize \in Int
      BY <3>2
    <3>4. putAgain \in BOOLEAN
      BY Zenon, <3>2, Zenon
    <3> QED
      BY Zenon, <2>2, <3>1, <3>3, <3>4 DEF StmtTypeOK
  <2>4. StmtBounded
    <3>1. \A q \in Sql : sqlToName[q] = NoStmtName
      BY Zenon DEF StmtInit
    <3> QED
      BY <2>1, <2>2, <3>1, StmtAssumption DEF StmtInit, StmtBounded
  <2> QED
    BY Zenon, <2>3, <2>4 DEF StmtInv
<1>2. StmtInv => StmtBounded
  BY Zenon DEF StmtInv
<1> QED
  BY <1>1, <1>2, StmtStep, PTL DEF StmtSpec
=============================================================================
