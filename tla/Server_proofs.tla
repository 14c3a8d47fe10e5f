----------------------------- MODULE Server_proofs -----------------------------
(***************************************************************************)
(* What is proved of a server and the members of its cluster: the          *)
(* listener, hot reload, the accusations of the SWIM membership and what   *)
(* the coordinator knows of the members.  Then the start-ups: what a       *)
(* session takes it gives back, whatever way it ends, for any sessions,    *)
(* connections, users and limits and each of the six start-ups.            *)
(***************************************************************************)
EXTENDS Startup, Listener, Reload, Swim, Coordinator, TLAPS

\* The provers get more time than by default; a step that is left to Zenon says so.
USE SMTT(20), ZenonT(20)

----------------------------------------------------------------------------
(* The listener *)

Phase == {"none", "spawned", "added", "created", "registered", "leaving", "over"}

\* The types of the listener's state.
ListenerTypeOK ==
    /\ phase \in [ClientConn -> Phase]
    /\ sessions \subseteq ClientConn /\ closed \subseteq ClientConn
    /\ stop \in {"no", "draining", "closing", "done"}
    /\ forced \in BOOLEAN /\ poolsClosed \in BOOLEAN
    /\ list \in 0..MaxLists
    /\ admin \in [Admin -> [pc : {"idle", "changed", "read"}, list : 0..MaxLists]]
    /\ overlap \in BOOLEAN /\ reloaded \in BOOLEAN
    /\ router \in 0..MaxLists \cup {NoRouter}
    /\ has \in [ClientConn -> 0..MaxLists \cup {NoRouter}]
    /\ late \subseteq ClientConn /\ stale \subseteq ClientConn

\* The sessions in the map are registered, and a registered one that is not in the map
\* was closed by StopContext.
Registration ==
    \A c \in ClientConn : /\ c \in sessions => phase[c] = "registered"
                    /\ phase[c] = "registered" => c \in sessions \cup closed

\* After a wait that ended in time, whoever is counted came late or is closed; and the
\* pools are closed after that.
Drained ==
    /\ poolsClosed => stop = "done"
    /\ stop \in {"closing", "done"} /\ ~forced =>
          \A c \in ClientConn : phase[c] \in {"none", "spawned", "over"} \/ c \in closed \cup late

\* Until two admin requests overlap, one at most is in progress, and, unless a reload
\* came between, the list it has read is the list.
Refreshing ==
    ~overlap =>
        /\ \A d, e \in Admin : admin[d].pc # "idle" /\ admin[e].pc # "idle" => d = e
        /\ \A d \in Admin : admin[d].pc = "read" /\ ~reloaded => admin[d].list = list

\* The inductive invariant.
ListenerInv ==
    /\ ListenerTypeOK /\ Registration /\ Drained /\ StopCloses
    /\ RouterShared /\ Refreshing /\ RouterCurrent

----------------------------------------------------------------------------
\* Every step keeps the types.
LEMMA ListenerTypeStep == ListenerTypeOK /\ [ListenerNext]_listenerVars => ListenerTypeOK'
<1> SUFFICES ASSUME ListenerTypeOK, [ListenerNext]_listenerVars PROVE ListenerTypeOK'
  BY Zenon
<1> USE ListenerAssumption DEF ListenerTypeOK, Phase, stopVars, routeVars
<1>1. ASSUME NEW c \in ClientConn, AcceptConn(c) PROVE ListenerTypeOK'
  BY Zenon, <1>1 DEF AcceptConn
<1>2. ASSUME NEW c \in ClientConn, AddConn(c) PROVE ListenerTypeOK'
  BY Zenon, <1>2 DEF AddConn
<1>3. ASSUME NEW c \in ClientConn, CreateSession(c) PROVE ListenerTypeOK'
  BY <1>3 DEF CreateSession
<1>4. ASSUME NEW c \in ClientConn, Register(c) PROVE ListenerTypeOK'
  BY Zenon, <1>4 DEF Register
<1>5. ASSUME NEW c \in ClientConn, Deregister(c) PROVE ListenerTypeOK'
  BY Zenon, <1>5 DEF Deregister
<1>6. ASSUME NEW c \in ClientConn, CloseSession(c) PROVE ListenerTypeOK'
  BY Zenon, <1>6 DEF CloseSession
<1>7. ASSUME NEW d \in Admin, ChangeBackends(d) PROVE ListenerTypeOK'
  <2>1. admin' \in [Admin -> [pc : {"idle", "changed", "read"}, list : 0..MaxLists]]
    BY Zenon, <1>7 DEF ChangeBackends
  <2>2. list' \in 0..MaxLists
    BY <1>7 DEF ChangeBackends
  <2> QED
    BY Zenon, <1>7, <2>1, <2>2 DEF ChangeBackends
<1>8. ASSUME NEW d \in Admin, RefreshRead(d) PROVE ListenerTypeOK'
  BY Zenon, <1>8 DEF RefreshRead
<1>9. ASSUME NEW d \in Admin, RefreshRouter(d) PROVE ListenerTypeOK'
  <2>1. admin' \in [Admin -> [pc : {"idle", "changed", "read"}, list : 0..MaxLists]]
    BY <1>9 DEF RefreshRouter
  <2>2. router' \in 0..MaxLists \cup {NoRouter} /\ has' \in [ClientConn -> 0..MaxLists \cup {NoRouter}]
    BY <1>9 DEF RefreshRouter
  <2>3. stale' \subseteq ClientConn
    BY Zenon, <1>9 DEF RefreshRouter
  <2> QED
    BY Zenon, <1>9, <2>1, <2>2, <2>3 DEF RefreshRouter
<1>10. CASE ReloadBackends
  BY <1>10 DEF ReloadBackends
<1>11. CASE StopBegin
  BY Zenon, <1>11 DEF StopBegin
<1>12. CASE StopWait
  BY Zenon, <1>12 DEF StopWait
<1>13. CASE StopSessions
  BY Zenon, <1>13 DEF StopSessions
<1>14. CASE ClosePools
  BY Zenon, <1>14 DEF ClosePools
<1>15. CASE UNCHANGED listenerVars
  BY Zenon, <1>15 DEF listenerVars
<1> QED
  BY Zenon, <1>1, <1>2, <1>3, <1>4, <1>5, <1>6, <1>7, <1>8,
     <1>9, <1>10, <1>11, <1>12, <1>13, <1>14, <1>15 DEF ListenerNext

\* Register and Deregister keep the map in step with the goroutines, and StopContext
\* empties it only into closed.
LEMMA RegistrationStep ==
    ListenerTypeOK /\ Registration /\ [ListenerNext]_listenerVars => Registration'
<1> SUFFICES ASSUME ListenerTypeOK, Registration, [ListenerNext]_listenerVars
             PROVE  Registration'
  BY Zenon
<1> USE DEF ListenerTypeOK, Registration, stopVars, routeVars
<1>1. ASSUME NEW c \in ClientConn, AcceptConn(c) PROVE Registration'
  BY Zenon, <1>1 DEF AcceptConn
<1>2. ASSUME NEW c \in ClientConn, AddConn(c) PROVE Registration'
  BY Zenon, <1>2 DEF AddConn
<1>3. ASSUME NEW c \in ClientConn, CreateSession(c) PROVE Registration'
  BY Zenon, <1>3 DEF CreateSession
<1>4. ASSUME NEW c \in ClientConn, Register(c) PROVE Registration'
  BY Zenon, <1>4 DEF Register
<1>5. ASSUME NEW c \in ClientConn, Deregister(c) PROVE Registration'
  BY Zenon, <1>5 DEF Deregister
<1>6. ASSUME NEW c \in ClientConn, CloseSession(c) PROVE Registration'
  BY Zenon, <1>6 DEF CloseSession
<1>7. ASSUME NEW d \in Admin, ChangeBackends(d) PROVE Registration'
  BY Zenon, <1>7 DEF ChangeBackends
<1>8. ASSUME NEW d \in Admin, RefreshRead(d) PROVE Registration'
  BY Zenon, <1>8 DEF RefreshRead
<1>9. ASSUME NEW d \in Admin, RefreshRouter(d) PROVE Registration'
  BY Zenon, <1>9 DEF RefreshRouter
<1>10. CASE ReloadBackends
  BY Zenon, <1>10 DEF ReloadBackends
<1>11. CASE StopBegin
  BY Zenon, <1>11 DEF StopBegin
<1>12. CASE StopWait
  BY Zenon, <1>12 DEF StopWait
<1>13. CASE StopSessions
  BY Zenon, <1>13 DEF StopSessions
<1>14. CASE ClosePools
  BY Zenon, <1>14 DEF ClosePools
<1>15. CASE UNCHANGED listenerVars
  BY Zenon, <1>15 DEF listenerVars
<1> QED
  BY Zenon, <1>1, <1>2, <1>3, <1>4, <1>5, <1>6, <1>7, <1>8,
     <1>9, <1>10, <1>11, <1>12, <1>13, <1>14, <1>15 DEF ListenerNext

\* After the wait no goroutine is accepted, and one that is counted only now is late.
LEMMA DrainedStep == ListenerTypeOK /\ Drained /\ [ListenerNext]_listenerVars => Drained'
<1> SUFFICES ASSUME ListenerTypeOK, Drained, [ListenerNext]_listenerVars PROVE Drained'
  BY Zenon
<1> USE DEF ListenerTypeOK, Drained, Phase, stopVars, routeVars
<1>1. ASSUME NEW c \in ClientConn, AcceptConn(c) PROVE Drained'
  BY Zenon, <1>1 DEF AcceptConn
<1>2. ASSUME NEW c \in ClientConn, AddConn(c) PROVE Drained'
  BY Zenon, <1>2 DEF AddConn
<1>3. ASSUME NEW c \in ClientConn, CreateSession(c) PROVE Drained'
  BY Zenon, <1>3 DEF CreateSession
<1>4. ASSUME NEW c \in ClientConn, Register(c) PROVE Drained'
  BY Zenon, <1>4 DEF Register
<1>5. ASSUME NEW c \in ClientConn, Deregister(c) PROVE Drained'
  BY Zenon, <1>5 DEF Deregister
<1>6. ASSUME NEW c \in ClientConn, CloseSession(c) PROVE Drained'
  BY Zenon, <1>6 DEF CloseSession
<1>7. ASSUME NEW d \in Admin, ChangeBackends(d) PROVE Drained'
  BY Zenon, <1>7 DEF ChangeBackends
<1>8. ASSUME NEW d \in Admin, RefreshRead(d) PROVE Drained'
  BY Zenon, <1>8 DEF RefreshRead
<1>9. ASSUME NEW d \in Admin, RefreshRouter(d) PROVE Drained'
  BY Zenon, <1>9 DEF RefreshRouter
<1>10. CASE ReloadBackends
  BY Zenon, <1>10 DEF ReloadBackends
<1>11. CASE StopBegin
  BY Zenon, <1>11 DEF StopBegin
<1>12. CASE StopWait
  BY Zenon, <1>12 DEF StopWait, Counted
<1>13. CASE StopSessions
  BY Zenon, <1>13 DEF StopSessions
<1>14. CASE ClosePools
  BY Zenon, <1>14 DEF ClosePools
<1>15. CASE UNCHANGED listenerVars
  BY Zenon, <1>15 DEF listenerVars
<1> QED
  BY Zenon, <1>1, <1>2, <1>3, <1>4, <1>5, <1>6, <1>7, <1>8,
     <1>9, <1>10, <1>11, <1>12, <1>13, <1>14, <1>15 DEF ListenerNext

\* A session that outlives StopContext was not registered when its map was emptied.
LEMMA StopClosesStep ==
    ListenerTypeOK /\ Registration /\ Drained /\ StopCloses /\ [ListenerNext]_listenerVars
        => StopCloses'
<1> SUFFICES ASSUME ListenerTypeOK, Registration, Drained, StopCloses,
                    [ListenerNext]_listenerVars
             PROVE  StopCloses'
  BY Zenon
<1> USE DEF ListenerTypeOK, Registration, Drained, StopCloses, Phase, stopVars, routeVars
<1>1. ASSUME NEW c \in ClientConn, AcceptConn(c) PROVE StopCloses'
  BY Zenon, <1>1 DEF AcceptConn
<1>2. ASSUME NEW c \in ClientConn, AddConn(c) PROVE StopCloses'
  BY Zenon, <1>2 DEF AddConn
<1>3. ASSUME NEW c \in ClientConn, CreateSession(c) PROVE StopCloses'
  BY Zenon, <1>3 DEF CreateSession
<1>4. ASSUME NEW c \in ClientConn, Register(c) PROVE StopCloses'
  BY Zenon, <1>4 DEF Register
<1>5. ASSUME NEW c \in ClientConn, Deregister(c) PROVE StopCloses'
  BY Zenon, <1>5 DEF Deregister
<1>6. ASSUME NEW c \in ClientConn, CloseSession(c) PROVE StopCloses'
  BY Zenon, <1>6 DEF CloseSession
<1>7. ASSUME NEW d \in Admin, ChangeBackends(d) PROVE StopCloses'
  BY Zenon, <1>7 DEF ChangeBackends
<1>8. ASSUME NEW d \in Admin, RefreshRead(d) PROVE StopCloses'
  BY Zenon, <1>8 DEF RefreshRead
<1>9. ASSUME NEW d \in Admin, RefreshRouter(d) PROVE StopCloses'
  BY Zenon, <1>9 DEF RefreshRouter
<1>10. CASE ReloadBackends
  BY Zenon, <1>10 DEF ReloadBackends
<1>11. CASE StopBegin
  BY Zenon, <1>11 DEF StopBegin
<1>12. CASE StopWait
  BY Zenon, <1>12 DEF StopWait
<1>13. CASE StopSessions
  BY Zenon, <1>13 DEF StopSessions
<1>14. CASE ClosePools
  BY Zenon, <1>14 DEF ClosePools
<1>15. CASE UNCHANGED listenerVars
  BY Zenon, <1>15 DEF listenerVars
<1> QED
  BY Zenon, <1>1, <1>2, <1>3, <1>4, <1>5, <1>6, <1>7, <1>8,
     <1>9, <1>10, <1>11, <1>12, <1>13, <1>14, <1>15 DEF ListenerNext

\* Every step that changes a router, or the map, changes both or notes the session.
LEMMA RouterSharedStep ==
    ListenerTypeOK /\ Registration /\ RouterShared /\ [ListenerNext]_listenerVars
        => RouterShared'
<1> SUFFICES ASSUME ListenerTypeOK, Registration, RouterShared, [ListenerNext]_listenerVars
             PROVE  RouterShared'
  BY Zenon
<1> USE DEF ListenerTypeOK, Registration, RouterShared, stopVars, routeVars
<1>1. ASSUME NEW c \in ClientConn, AcceptConn(c) PROVE RouterShared'
  BY Zenon, <1>1 DEF AcceptConn
<1>2. ASSUME NEW c \in ClientConn, AddConn(c) PROVE RouterShared'
  BY Zenon, <1>2 DEF AddConn
<1>3. ASSUME NEW c \in ClientConn, CreateSession(c) PROVE RouterShared'
  BY Zenon, <1>3 DEF CreateSession
<1>4. ASSUME NEW c \in ClientConn, Register(c) PROVE RouterShared'
  BY Zenon, <1>4 DEF Register
<1>5. ASSUME NEW c \in ClientConn, Deregister(c) PROVE RouterShared'
  BY Zenon, <1>5 DEF Deregister
<1>6. ASSUME NEW c \in ClientConn, CloseSession(c) PROVE RouterShared'
  BY Zenon, <1>6 DEF CloseSession
<1>7. ASSUME NEW d \in Admin, ChangeBackends(d) PROVE RouterShared'
  BY Zenon, <1>7 DEF ChangeBackends
<1>8. ASSUME NEW d \in Admin, RefreshRead(d) PROVE RouterShared'
  BY Zenon, <1>8 DEF RefreshRead
<1>9. ASSUME NEW d \in Admin, RefreshRouter(d) PROVE RouterShared'
  BY Zenon, <1>9 DEF RefreshRouter
<1>10. CASE ReloadBackends
  BY Zenon, <1>10 DEF ReloadBackends
<1>11. CASE StopBegin
  BY Zenon, <1>11 DEF StopBegin
<1>12. CASE StopWait
  BY Zenon, <1>12 DEF StopWait
<1>13. CASE StopSessions
  BY Zenon, <1>13 DEF StopSessions
<1>14. CASE ClosePools
  BY Zenon, <1>14 DEF ClosePools
<1>15. CASE UNCHANGED listenerVars
  BY Zenon, <1>15 DEF listenerVars
<1> QED
  BY Zenon, <1>1, <1>2, <1>3, <1>4, <1>5, <1>6, <1>7, <1>8,
     <1>9, <1>10, <1>11, <1>12, <1>13, <1>14, <1>15 DEF ListenerNext

\* A request that begins while another is in progress is noted, and so is a reload.
LEMMA RefreshingStep ==
    ListenerTypeOK /\ Refreshing /\ [ListenerNext]_listenerVars => Refreshing'
<1> SUFFICES ASSUME ListenerTypeOK, Refreshing, [ListenerNext]_listenerVars PROVE Refreshing'
  BY Zenon
<1> USE DEF ListenerTypeOK, Refreshing, stopVars, routeVars
<1>1. ASSUME NEW c \in ClientConn, AcceptConn(c) PROVE Refreshing'
  BY Zenon, <1>1 DEF AcceptConn
<1>2. ASSUME NEW c \in ClientConn, AddConn(c) PROVE Refreshing'
  BY Zenon, <1>2 DEF AddConn
<1>3. ASSUME NEW c \in ClientConn, CreateSession(c) PROVE Refreshing'
  BY Zenon, <1>3 DEF CreateSession
<1>4. ASSUME NEW c \in ClientConn, Register(c) PROVE Refreshing'
  BY Zenon, <1>4 DEF Register
<1>5. ASSUME NEW c \in ClientConn, Deregister(c) PROVE Refreshing'
  BY Zenon, <1>5 DEF Deregister
<1>6. ASSUME NEW c \in ClientConn, CloseSession(c) PROVE Refreshing'
  BY Zenon, <1>6 DEF CloseSession
<1>7. ASSUME NEW d \in Admin, ChangeBackends(d) PROVE Refreshing'
  BY Zenon, <1>7 DEF ChangeBackends
<1>8. ASSUME NEW d \in Admin, RefreshRead(d) PROVE Refreshing'
  BY Zenon, <1>8 DEF RefreshRead
<1>9. ASSUME NEW d \in Admin, RefreshRouter(d) PROVE Refreshing'
  BY Zenon, <1>9 DEF RefreshRouter
<1>10. CASE ReloadBackends
  BY Zenon, <1>10 DEF ReloadBackends
<1>11. CASE StopBegin
  BY Zenon, <1>11 DEF StopBegin
<1>12. CASE StopWait
  BY Zenon, <1>12 DEF StopWait
<1>13. CASE StopSessions
  BY Zenon, <1>13 DEF StopSessions
<1>14. CASE ClosePools
  BY Zenon, <1>14 DEF ClosePools
<1>15. CASE UNCHANGED listenerVars
  BY Zenon, <1>15 DEF listenerVars
<1> QED
  BY Zenon, <1>1, <1>2, <1>3, <1>4, <1>5, <1>6, <1>7, <1>8,
     <1>9, <1>10, <1>11, <1>12, <1>13, <1>14, <1>15 DEF ListenerNext

\* The refresh that ends last installs the router of the list as it is.
LEMMA RouterCurrentStep ==
    ListenerTypeOK /\ Refreshing /\ RouterCurrent /\ [ListenerNext]_listenerVars
        => RouterCurrent'
<1> SUFFICES ASSUME ListenerTypeOK, Refreshing, RouterCurrent, [ListenerNext]_listenerVars
             PROVE  RouterCurrent'
  BY Zenon
<1> USE ListenerAssumption DEF ListenerTypeOK, Refreshing, RouterCurrent, stopVars, routeVars
<1>1. ASSUME NEW c \in ClientConn, AcceptConn(c) PROVE RouterCurrent'
  BY Zenon, <1>1 DEF AcceptConn
<1>2. ASSUME NEW c \in ClientConn, AddConn(c) PROVE RouterCurrent'
  BY Zenon, <1>2 DEF AddConn
<1>3. ASSUME NEW c \in ClientConn, CreateSession(c) PROVE RouterCurrent'
  BY Zenon, <1>3 DEF CreateSession
<1>4. ASSUME NEW c \in ClientConn, Register(c) PROVE RouterCurrent'
  BY Zenon, <1>4 DEF Register
<1>5. ASSUME NEW c \in ClientConn, Deregister(c) PROVE RouterCurrent'
  BY Zenon, <1>5 DEF Deregister
<1>6. ASSUME NEW c \in ClientConn, CloseSession(c) PROVE RouterCurrent'
  BY Zenon, <1>6 DEF CloseSession
<1>7. ASSUME NEW d \in Admin, ChangeBackends(d) PROVE RouterCurrent'
  BY <1>7 DEF ChangeBackends
<1>8. ASSUME NEW d \in Admin, RefreshRead(d) PROVE RouterCurrent'
  BY Zenon, <1>8 DEF RefreshRead
<1>9. ASSUME NEW d \in Admin, RefreshRouter(d) PROVE RouterCurrent'
  BY Zenon, <1>9 DEF RefreshRouter
<1>10. CASE ReloadBackends
  BY Zenon, <1>10 DEF ReloadBackends
<1>11. CASE StopBegin
  BY Zenon, <1>11 DEF StopBegin
<1>12. CASE StopWait
  BY Zenon, <1>12 DEF StopWait
<1>13. CASE StopSessions
  BY Zenon, <1>13 DEF StopSessions
<1>14. CASE ClosePools
  BY Zenon, <1>14 DEF ClosePools
<1>15. CASE UNCHANGED listenerVars
  BY Zenon, <1>15 DEF listenerVars
<1> QED
  BY Zenon, <1>1, <1>2, <1>3, <1>4, <1>5, <1>6, <1>7, <1>8,
     <1>9, <1>10, <1>11, <1>12, <1>13, <1>14, <1>15 DEF ListenerNext

\* The invariant holds when the listener starts.
LEMMA ListenerInitOK == ListenerInit => ListenerInv
<1> SUFFICES ASSUME ListenerInit PROVE ListenerInv
  BY Zenon
<1> USE ListenerAssumption DEF ListenerInit
<1>1. ListenerTypeOK
  <2>1. 0 \in 0..MaxLists
    OBVIOUS
  <2>2. phase \in [ClientConn -> Phase] /\ has \in [ClientConn -> 0..MaxLists \cup {NoRouter}]
    BY Zenon, <2>1 DEF Phase
  <2>3. admin \in [Admin -> [pc : {"idle", "changed", "read"}, list : 0..MaxLists]]
    BY Zenon, <2>1
  <2> QED
    BY Zenon, <2>1, <2>2, <2>3 DEF ListenerTypeOK
<1>2. Registration /\ Drained /\ StopCloses
  BY Zenon DEF Registration, Drained, StopCloses
<1>3. RouterShared /\ Refreshing /\ RouterCurrent
  BY Zenon DEF RouterShared, Refreshing, RouterCurrent
<1> QED
  BY Zenon, <1>1, <1>2, <1>3 DEF ListenerInv

\* The invariant holds of every behaviour of the listener.
THEOREM ListenerInvariant == ListenerSpec => []ListenerInv
<1>1. ListenerInit => ListenerInv
  BY Zenon, ListenerInitOK
<1>2. ListenerInv /\ [ListenerNext]_listenerVars => ListenerInv'
  BY Zenon, ListenerTypeStep, RegistrationStep, DrainedStep, StopClosesStep, RouterSharedStep,
     RefreshingStep, RouterCurrentStep DEF ListenerInv
<1> QED
  BY <1>1, <1>2, PTL DEF ListenerSpec

\* When StopContext has returned, every session that runs was closed, but those that it
\* could not know of.
THEOREM ListenerStopCloses == ListenerSpec => []StopCloses
<1>1. ListenerInv => StopCloses
  BY Zenon DEF ListenerInv
<1> QED
  BY <1>1, ListenerInvariant, PTL

\* Registered sessions have the listener's router, with the exception RouterShared names.
THEOREM ListenerRouterShared == ListenerSpec => []RouterShared
<1>1. ListenerInv => RouterShared
  BY Zenon DEF ListenerInv
<1> QED
  BY <1>1, ListenerInvariant, PTL

\* When no refresh is in progress the router is the one of the current backend list,
\* with the exception RouterCurrent names.
THEOREM ListenerRouterCurrent == ListenerSpec => []RouterCurrent
<1>1. ListenerInv => RouterCurrent
  BY Zenon DEF ListenerInv
<1> QED
  BY <1>1, ListenerInvariant, PTL

----------------------------------------------------------------------------
(* Hot reload *)

Callers == Caller \cup {Watcher}

\* A call in progress.
Running == [pc : {"users", "list", "pools", "remove"}, v : Version, todo : Seq(Pool),
            known : SUBSET Pool]
Busy(c) == call[c].pc # "idle"

LTypeOK ==
    /\ file \in Version /\ holder \in Version
    /\ DOMAIN call = Callers
    /\ \A c \in Callers : Busy(c) => call[c] \in Running
    /\ pools \in [Pool -> Version \cup {None, ByHand}]

\* The pools are those of configuration v, as v has them.
PoolsAre(v) == \A p \in Pool : pools[p] = IF p \in PoolsIn(v) THEN v ELSE None
Match == PoolsAre(holder) /\ users = holder

\* How far a call has come that nobody disturbs: the users first; then those pools of its
\* configuration that it has not done are to do; then those that its configuration does
\* not have are to be removed.
Progress(r) ==
    CASE r.pc = "users" -> TRUE
      [] r.pc = "list" -> users = r.v
      [] r.pc = "pools" ->
            /\ users = r.v
            /\ \A p \in PoolsIn(r.v) : pools[p] = r.v \/ \E i \in DOMAIN r.todo : r.todo[i] = p
      [] r.pc = "remove" ->
            /\ users = r.v
            /\ \A p \in PoolsIn(r.v) : pools[p] = r.v
            /\ \A p \in Pool \ PoolsIn(r.v) : pools[p] = None \/ p \in r.known
            /\ r.known \cap PoolsIn(r.v) = {}

\* The call that is alone is the only one, and as far as it is: whatever it started from.
Alone == \A c \in Callers :
            alone = c /\ Busy(c) => (\A d \in Callers \ {c} : ~Busy(d)) /\ Progress(call[c])

\* Unless pools and users are mixed, a call is alone, and all is of one configuration
\* until it has changed something.
Unmixed == ~mixed =>
    /\ \A c \in Callers : Busy(c) => alone = c
    /\ (\A c \in Callers : call[c].pc \in {"idle", "users"}) => Match

LoadInv == LTypeOK /\ Alone /\ Unmixed

\* What PoolsOf says.
LEMMA PoolsInPool == \A v \in Version : PoolsOf[v] \in Seq(Pool) /\ PoolsIn(v) \subseteq Pool
BY ReloadAssumption DEF PoolsIn, Range

\* A step of a call that has begun to change things, and it goes on.
LEMMA GoesOn ==
    ASSUME LoadInv, NEW c \in Callers, Busy(c), NEW next \in Running, next.pc # "users",
           Goes(c, next), holder' = holder, pools' \in [Pool -> Version \cup {None, ByHand}],
           alone = c => Progress(next)', mixed' = mixed
    PROVE  LoadInv'
<1>1. /\ DOMAIN call' = Callers /\ call'[c] = next
      /\ \A d \in Callers \ {c} : call'[d] = call[d]
      /\ file' = file /\ alone' = alone
  BY Zenon DEF Goes, LoadInv, LTypeOK, fileVars
<1>2. next.pc # "idle" /\ Busy(c)'
  BY Zenon, <1>1 DEF Running, Busy
<1>3. \A d \in Callers \ {c} : Busy(d)' <=> Busy(d)
  BY Zenon, <1>1 DEF Busy
<1>4. LTypeOK'
  BY Zenon, <1>1, <1>3 DEF LoadInv, LTypeOK
<1>5. Alone'
  <2>1. Progress(call[c])' <=> Progress(next)'
    BY <1>1 DEF Progress
  <2> QED
    BY Zenon, <1>1, <1>3, <2>1 DEF LoadInv, Alone
<1>6. Unmixed'
  <2>1. call'[c].pc \notin {"idle", "users"}
    BY Zenon, <1>1, <1>2
  <2> QED
    BY Zenon, <1>1, <1>3, <2>1 DEF LoadInv, Unmixed
<1> QED
  BY Zenon, <1>4, <1>5, <1>6 DEF LoadInv

\* A call ends; unless things are mixed then, it was alone and has left one configuration.
LEMMA GoesHome ==
    ASSUME LoadInv, NEW c \in Callers, Busy(c), Goes(c, NoCall),
           holder' \in Version, pools' \in [Pool -> Version \cup {None, ByHand}],
           ~mixed' => alone = c /\ Match'
    PROVE  LoadInv'
<1>1. /\ DOMAIN call' = Callers /\ call'[c].pc = "idle"
      /\ \A d \in Callers \ {c} : call'[d] = call[d]
      /\ file' = file /\ alone' = alone
  BY Zenon DEF Goes, LoadInv, LTypeOK, NoCall, fileVars
<1>2. ~Busy(c)' /\ \A d \in Callers \ {c} : Busy(d)' <=> Busy(d)
  BY Zenon, <1>1 DEF Busy
<1>3. LTypeOK'
  BY Zenon, <1>1, <1>2 DEF LoadInv, LTypeOK
<1>4. Alone'
  BY Zenon, <1>1, <1>2 DEF LoadInv, Alone
<1>5. Unmixed'
  BY Zenon, <1>1, <1>2 DEF LoadInv, Alone, Unmixed
<1> QED
  BY Zenon, <1>3, <1>4, <1>5 DEF LoadInv

\* Nothing happens to the calls and what they work on.
LEMMA ReloadElsewhere ==
    ASSUME LoadInv, file' \in Version, UNCHANGED <<call, pools, users, holder, alone, mixed>>
    PROVE  LoadInv'
<1>1. \A c \in Callers : (Progress(call[c])' <=> Progress(call[c])) /\ (Busy(c)' <=> Busy(c))
  BY DEF Progress, Busy
<1>2. Match' <=> Match
  BY Zenon DEF PoolsAre, Match
<1> QED
  BY Zenon, <1>1, <1>2 DEF LoadInv, LTypeOK, Alone, Unmixed

\* An admin API changes a pool or the users: no call is alone any more.
LEMMA AdminElsewhere ==
    ASSUME LoadInv, UNCHANGED <<file, call, holder>>, alone' = Nobody, mixed' = TRUE,
           pools' \in [Pool -> Version \cup {None, ByHand}]
    PROVE  LoadInv'
<1>1. Nobody \notin Callers
  BY ReloadAssumption DEF Nobody, Watcher, Callers
<1> QED
  BY Zenon, <1>1 DEF LoadInv, LTypeOK, Alone, Unmixed, Busy

\* A call begins.
LEMMA StartStep ==
    ASSUME LoadInv, NEW c \in Callers, ReloadStart(c)
    PROVE  LoadInv'
<1>1. PICK r : r = [pc |-> "users", v |-> file, todo |-> <<>>, known |-> {}]
  BY Zenon
<1>2. r \in Running /\ r.pc = "users"
  BY <1>1 DEF Running, LoadInv, LTypeOK
<1> DEFINE Overlaps == \E d \in DOMAIN call : call[d].pc # "idle"
<1>3. /\ call' = [call EXCEPT ![c] = r] /\ UNCHANGED <<file, pools, users, holder>>
      /\ alone' = IF Overlaps THEN Nobody ELSE c
      /\ mixed' = (mixed \/ Overlaps)
  BY Zenon, <1>1 DEF ReloadStart, fileVars, stateVars
<1>4. /\ DOMAIN call' = Callers /\ call'[c] = r
      /\ \A d \in Callers \ {c} : call'[d] = call[d]
  BY Zenon, <1>3 DEF LoadInv, LTypeOK
<1>5. Busy(c)' /\ \A d \in Callers \ {c} : Busy(d)' <=> Busy(d)
  BY Zenon, <1>2, <1>4 DEF Busy
<1>6. (\A d \in Callers : ~Busy(d)) \/ (alone' = Nobody /\ mixed')
  BY Zenon, <1>3 DEF Busy, LoadInv, LTypeOK
<1>7. LTypeOK'
  BY Zenon, <1>2, <1>3, <1>4, <1>5 DEF LoadInv, LTypeOK
<1>8. CASE alone' = Nobody /\ mixed'
  <2>1. Nobody \notin Callers
    BY ReloadAssumption DEF Nobody, Watcher, Callers
  <2> QED
    BY Zenon, <1>7, <1>8, <2>1 DEF LoadInv, Alone, Unmixed
<1>9. CASE \A d \in Callers : ~Busy(d)
  <2>1. alone' = c /\ (~mixed' => ~mixed)
    BY Zenon, <1>3, <1>9 DEF Busy, LoadInv, LTypeOK
  <2>2. Progress(call[c])'
    BY <1>2, <1>4 DEF Progress
  <2>3. Alone'
    BY Zenon, <1>5, <1>9, <2>1, <2>2 DEF Alone
  <2>4. ~mixed => Match
    BY Zenon, <1>9 DEF LoadInv, Unmixed, Busy
  <2>5. Match' <=> Match
    BY Zenon, <1>3 DEF Match, PoolsAre
  <2>6. Unmixed'
    BY Zenon, <1>5, <1>9, <2>1, <2>4, <2>5 DEF Unmixed
  <2> QED
    BY Zenon, <1>7, <2>3, <2>6 DEF LoadInv
<1> QED
  BY Zenon, <1>6, <1>8, <1>9

\* Every step of a call keeps the invariant.
LEMMA CallStep ==
    ASSUME LoadInv, NEW c \in Callers, ReloadStep(c)
    PROVE  LoadInv'
<1>1. PICK r : r = call[c]
  BY Zenon
<1>2. r \in Running /\ Busy(c)
  BY Zenon, <1>1 DEF ReloadStep, ReloadUsers, ReloadList, ReloadPool, ReloadPoolFails, ReloadGone,
              ReloadRemove, ReloadStore, LoadInv, LTypeOK, Busy
<1>3. /\ r.v \in Version /\ r.todo \in Seq(Pool) /\ r.known \subseteq Pool
      /\ holder \in Version /\ pools \in [Pool -> Version \cup {None, ByHand}]
  BY Zenon, <1>2 DEF Running, LoadInv, LTypeOK
<1>4. alone = c => Progress(r)
  BY Zenon, <1>1, <1>2 DEF LoadInv, Alone
<1>5. PoolsOf[r.v] \in Seq(Pool) /\ PoolsIn(r.v) \subseteq Pool
  BY Zenon, <1>3, PoolsInPool
<1>6. ~mixed => alone = c
  BY Zenon, <1>2 DEF LoadInv, Unmixed
<1>7. CASE ReloadUsers(c)
  <2>1. r.pc = "users" /\ UNCHANGED <<pools, holder, mixed>>
    BY Zenon, <1>1, <1>7 DEF ReloadUsers
  <2>2. CASE r.v \in Invalid \/ <<holder, r.v>> \in Unsafe
    <3>1. Goes(c, NoCall) /\ users' = users
      BY Zenon, <1>1, <1>7, <2>2 DEF ReloadUsers
    <3>2. ~mixed => Match
      BY Zenon, <1>1, <1>2, <1>6, <2>1 DEF LoadInv, Alone, Unmixed, Busy
    <3>3. ~mixed' => alone = c /\ Match'
      BY Zenon, <1>6, <2>1, <3>1, <3>2 DEF Match, PoolsAre
    <3> QED
      BY Zenon, <1>2, <1>3, <2>1, <3>1, <3>3, GoesHome
  <2>3. CASE ~(r.v \in Invalid \/ <<holder, r.v>> \in Unsafe)
    <3>1. PICK n : n = [r EXCEPT !.pc = "list"]
      BY Zenon
    <3>2. Goes(c, n) /\ users' = r.v
      BY Zenon, <1>1, <1>7, <2>3, <3>1 DEF ReloadUsers
    <3>3. n \in Running /\ n.pc = "list" /\ n.v = r.v
      BY Zenon, <1>2, <3>1 DEF Running
    <3>4. Progress(n)'
      BY Zenon, <3>2, <3>3 DEF Progress
    <3> QED
      BY Zenon, <1>2, <1>3, <2>1, <3>2, <3>3, <3>4, GoesOn
  <2> QED
    BY Zenon, <2>2, <2>3
<1>8. CASE ReloadList(c)
  <2>1. PICK n : n = [r EXCEPT !.pc = "pools", !.known = Present, !.todo = PoolsOf[r.v]]
    BY Zenon
  <2>2. r.pc = "list" /\ Goes(c, n) /\ UNCHANGED <<pools, users, holder, mixed>>
    BY Zenon, <1>1, <1>8, <2>1 DEF ReloadList, stateVars
  <2>3. n \in Running /\ n.pc = "pools" /\ n.v = r.v /\ n.todo = PoolsOf[r.v]
    BY Zenon, <1>2, <1>5, <2>1 DEF Running, Present
  <2>4. alone = c => users = r.v
    BY Zenon, <1>4, <2>2 DEF Progress
  <2>5. \A p \in PoolsIn(r.v) : \E i \in DOMAIN PoolsOf[r.v] : PoolsOf[r.v][i] = p
    BY Zenon DEF PoolsIn, Range
  <2>6. alone = c => Progress(n)'
    BY <2>2, <2>3, <2>4, <2>5 DEF Progress
  <2> QED
    BY Zenon, <1>2, <1>3, <2>2, <2>3, <2>6, GoesOn
<1>9. CASE ReloadPool(c)
  <2>1. PICK p : p = Head(r.todo)
    BY Zenon
  <2>2. r.pc = "pools" /\ r.todo # <<>> /\ UNCHANGED <<users, holder, mixed>>
    BY Zenon, <1>1, <1>9 DEF ReloadPool
  <2>3. p \in Pool /\ p = r.todo[1] /\ Tail(r.todo) \in Seq(Pool)
    BY <1>3, <2>1, <2>2
  <2>4. PICK n : n = [r EXCEPT !.todo = Tail(r.todo)]
    BY Zenon
  <2>5. Goes(c, n) /\ pools' = [pools EXCEPT ![p] = r.v]
    BY Zenon, <1>1, <1>9, <2>1, <2>4 DEF ReloadPool
  <2>6. n \in Running /\ n.pc = "pools" /\ n.v = r.v /\ n.todo = Tail(r.todo)
    BY Zenon, <1>2, <2>2, <2>3, <2>4 DEF Running
  <2>7. \A q \in Pool : pools'[q] = IF q = p THEN r.v ELSE pools[q]
    BY Zenon, <1>3, <2>3, <2>5
  <2>8. \A i \in DOMAIN r.todo : r.todo[i] = p \/ \E j \in DOMAIN n.todo : n.todo[j] = r.todo[i]
    <3> SUFFICES ASSUME NEW i \in DOMAIN r.todo, i # 1
                 PROVE  i - 1 \in DOMAIN n.todo /\ n.todo[i - 1] = r.todo[i]
      BY Zenon, <2>3
    <3> QED
      BY <1>3, <2>2, <2>6
  <2>9. alone = c => Progress(n)'
    BY <1>4, <1>5, <2>2, <2>6, <2>7, <2>8 DEF Progress
  <2>10. pools' \in [Pool -> Version \cup {None, ByHand}]
    BY Zenon, <1>3, <2>3, <2>5
  <2> QED
    BY Zenon, <1>2, <1>3, <2>2, <2>5, <2>6, <2>9, <2>10, GoesOn
<1>10. CASE ReloadPoolFails(c)
  <2>1. Goes(c, NoCall) /\ mixed' = TRUE /\ UNCHANGED <<pools, holder>>
    BY Zenon, <1>10 DEF ReloadPoolFails, stateVars
  <2> QED
    BY Zenon, <1>2, <1>3, <2>1, GoesHome
<1>11. CASE ReloadGone(c)
  <2>1. PICK n : n = [r EXCEPT !.pc = "remove", !.known = Present \ PoolsIn(r.v)]
    BY Zenon
  <2>2. r.pc = "pools" /\ r.todo = <<>> /\ Goes(c, n) /\ UNCHANGED <<pools, users, holder, mixed>>
    BY Zenon, <1>1, <1>11, <2>1 DEF ReloadGone, stateVars
  <2>3. n \in Running /\ n.pc = "remove" /\ n.v = r.v /\ n.known = Present \ PoolsIn(r.v)
    BY Zenon, <1>2, <2>1 DEF Running, Present
  <2>4. alone = c => Progress(n)'
    BY <1>4, <2>2, <2>3 DEF Progress, Present
  <2> QED
    BY Zenon, <1>2, <1>3, <2>2, <2>3, <2>4, GoesOn
<1>12. CASE ReloadRemove(c)
  <2>1. PICK p \in r.known : /\ Goes(c, [call[c] EXCEPT !.known = @ \ {p}])
                             /\ pools' = [pools EXCEPT ![p] = None]
    BY Zenon, <1>1, <1>12 DEF ReloadRemove
  <2>2. PICK n : n = [r EXCEPT !.known = r.known \ {p}]
    BY Zenon
  <2>3. r.pc = "remove" /\ Goes(c, n) /\ UNCHANGED <<users, holder, mixed>>
    BY Zenon, <1>1, <1>12, <2>1, <2>2 DEF ReloadRemove
  <2>4. n \in Running /\ n.pc = "remove" /\ n.v = r.v /\ n.known = r.known \ {p}
    BY Zenon, <1>2, <2>2, <2>3 DEF Running
  <2>5. p \in Pool /\ \A q \in Pool : pools'[q] = IF q = p THEN None ELSE pools[q]
    BY Zenon, <1>3, <2>1
  <2>6. alone = c => Progress(n)'
    BY Zenon, <1>4, <1>5, <2>3, <2>4, <2>5 DEF Progress
  <2>7. pools' \in [Pool -> Version \cup {None, ByHand}]
    BY Zenon, <1>3, <2>1
  <2> QED
    BY Zenon, <1>2, <1>3, <2>3, <2>4, <2>6, <2>7, GoesOn
<1>13. CASE ReloadStore(c)
  <2>1. /\ r.pc = "remove" /\ r.known = {} /\ Goes(c, NoCall) /\ UNCHANGED <<pools, users>>
        /\ holder' = r.v /\ mixed' = (mixed /\ alone # c)
    BY Zenon, <1>1, <1>13 DEF ReloadStore
  <2>2. ~mixed' => alone = c
    BY Zenon, <1>6, <2>1
  <2>3. alone = c => PoolsAre(r.v) /\ users = r.v
    BY Zenon, <1>4, <1>5, <2>1 DEF Progress, PoolsAre
  <2>4. alone = c => Match'
    BY Zenon, <2>1, <2>3 DEF Match, PoolsAre
  <2> QED
    BY Zenon, <1>2, <1>3, <2>1, <2>2, <2>4, GoesHome
<1> QED
  BY Zenon, <1>7, <1>8, <1>9, <1>10, <1>11, <1>12, <1>13 DEF ReloadStep

\* Between calls of the reload function, pools, users and cfgHolder are of one and the
\* same configuration, unless two calls overlapped, one failed half-way or an admin API
\* changed a pool or the users, and no call alone has ended since.
THEOREM ReloadSettled == ReloadSpec => []SettledMatches
<1>1. ReloadInit => LoadInv
  <2> SUFFICES ASSUME ReloadInit PROVE LoadInv
    BY Zenon
  <2>1. DOMAIN call = Callers /\ \A c \in Callers : ~Busy(c)
    BY Zenon DEF ReloadInit, NoCall, Callers, Busy
  <2>2. LTypeOK /\ Match
    BY Zenon, <2>1, ReloadAssumption DEF ReloadInit, LTypeOK, Match, PoolsAre
  <2> QED
    BY Zenon, <2>1, <2>2 DEF LoadInv, Alone, Unmixed
<1>2. LoadInv /\ [ReloadNext]_reloadVars => LoadInv'
  <2> SUFFICES ASSUME LoadInv, [ReloadNext]_reloadVars PROVE LoadInv'
    BY Zenon
  <2>1. file \in Version /\ pools \in [Pool -> Version \cup {None, ByHand}]
    BY Zenon DEF LoadInv, LTypeOK
  <2>2. CASE \E v \in Version : WriteFile(v)
    BY Zenon, <2>2, ReloadElsewhere DEF WriteFile, stateVars
  <2>3. CASE MarkWrite \/ MarkExpires \/ WatchCheck \/ WatchLoad
    BY Zenon, <2>1, <2>3, ReloadElsewhere
       DEF MarkWrite, MarkExpires, WatchCheck, WatchLoad, fileVars, stateVars, pastVars
  <2>4. CASE WatchStart
    BY Zenon, <2>1, <2>4, ReloadElsewhere DEF WatchStart, fileVars, stateVars
  <2>5. CASE AdminUser
    <3>1. UNCHANGED <<file, call, pools, holder>>
      BY Zenon, <2>5 DEF AdminUser, fileVars
    <3>2. (alone' = Nobody /\ mixed' = TRUE) \/ UNCHANGED <<users, alone, mixed>>
      BY Zenon, <2>5 DEF AdminUser
    <3> QED
      BY Zenon, <2>1, <3>1, <3>2, ReloadElsewhere, AdminElsewhere
  <2>6. CASE \E p \in Pool : AdminPool(p)
    <3>1. PICK p \in Pool : AdminPool(p)
      BY Zenon, <2>6
    <3>2. UNCHANGED <<file, call, holder>> /\ alone' = Nobody /\ mixed' = TRUE
      BY Zenon, <3>1 DEF AdminPool, fileVars
    <3>3. pools' \in [Pool -> Version \cup {None, ByHand}]
      BY Zenon, <2>1, <3>1 DEF AdminPool
    <3> QED
      BY Zenon, <3>2, <3>3, AdminElsewhere
  <2>7. CASE \E c \in Callers : ReloadStart(c)
    BY Zenon, <2>7, StartStep
  <2>8. CASE \E c \in Callers : ReloadStep(c)
    BY Zenon, <2>8, CallStep
  <2>9. CASE UNCHANGED reloadVars
    BY Zenon, <2>1, <2>9, ReloadElsewhere DEF reloadVars, fileVars, stateVars, pastVars
  <2> QED
    BY Zenon, <2>2, <2>3, <2>4, <2>5, <2>6, <2>7, <2>8, <2>9 DEF ReloadNext, Callers
<1>3. LoadInv => SettledMatches
  <2> SUFFICES ASSUME LoadInv, ~mixed, \A c \in Callers : call[c].pc = "idle"
               PROVE  /\ pools = [p \in Pool |-> IF p \in PoolsIn(holder) THEN holder ELSE None]
                      /\ users = holder
    BY Zenon DEF SettledMatches, LoadInv, LTypeOK
  <2>1. Match /\ pools \in [Pool -> Version \cup {None, ByHand}]
    BY Zenon DEF LoadInv, Unmixed, LTypeOK
  <2> QED
    BY Zenon, <2>1 DEF Match, PoolsAre
<1> QED
  BY <1>1, <1>2, <1>3, PTL DEF ReloadSpec

----------------------------------------------------------------------------
(***************************************************************************)
(* Accusations in the SWIM membership are about the right node: for every  *)
(* number of nodes, whatever messages are lost, late or repeated by others *)
(* and whoever crashes and comes back.                                     *)
(***************************************************************************)

Message == [type : {"join", "sync", "ping", "ack", "suspect", "dead"},
            src : Member, dst : Member, target : Member]

NetTypeOK ==
    /\ view \in [Member -> [Member -> MemberState]]
    /\ expired \in [Member -> SUBSET Member]
    /\ net \subseteq Message
    /\ timedOut \subseteq Member

\* An accusation on its way, or collected by checkSuspects, is of a node that timed out:
\* what makes AccusedTimedOut inductive.
AccusationsTimedOut ==
    /\ \A x \in net : x.type \in {"suspect", "dead"} => x.target \in timedOut
    /\ \A n \in Member : expired[n] \subseteq timedOut

AccuseInv == NetTypeOK /\ AccusationsTimedOut /\ AccusedTimedOut

\* What a send can leave on its way.
LEMMA SendOnly ==
    ASSUME NEW old, NEW sent, SendAll(old, sent)
    PROVE  net' \subseteq old \cup sent
BY Zenon DEF SendAll

\* A view in which a member becomes alive accuses nobody else.
LEMMA AliveStep ==
    ASSUME AccuseInv, NEW n \in Member, NEW m \in Member, UpdateMember(n, m)
    PROVE  /\ view' \in [Member -> [Member -> MemberState]]
           /\ \A i, j \in Member : view'[i][j] \in {"suspect", "dead"} => j \in timedOut
BY Zenon DEF AccuseInv, NetTypeOK, AccusedTimedOut, UpdateMember, MemberState

\* A view in which a member that timed out gets a state accuses nobody else.
LEMMA AccuseStep ==
    ASSUME AccuseInv, NEW n \in Member, NEW m \in Member, NEW s \in MemberState, NEW T,
           m \in T, timedOut \subseteq T,
           view' = [view EXCEPT ![n] = [view[n] EXCEPT ![m] = s]]
    PROVE  /\ view' \in [Member -> [Member -> MemberState]]
           /\ \A i, j \in Member : view'[i][j] \in {"suspect", "dead"} => j \in T
BY Zenon DEF AccuseInv, NetTypeOK, AccusedTimedOut

\* A message that is received changes the receiver's view as it says, and what is sent
\* in answer accuses nobody.
LEMMA ReceiveStep ==
    ASSUME AccuseInv, NEW x \in net, Receive(x)
    PROVE  AccuseInv'
<1>0. /\ x.src \in Member /\ x.dst \in Member /\ x.target \in Member
      /\ view \in [Member -> [Member -> MemberState]]
      /\ UNCHANGED <<expired, timedOut>>
  BY Zenon DEF AccuseInv, NetTypeOK, Message, Receive
<1>1. ASSUME view' \in [Member -> [Member -> MemberState]],
             \A i, j \in Member : view'[i][j] \in {"suspect", "dead"} => j \in timedOut,
             net' \subseteq net \cup {Msg("ack", x.dst, x.src, x.dst), Msg("sync", x.dst, x.src, x.dst)}
      PROVE  AccuseInv'
  <2>1. \A y \in net' : /\ y \in Message
                        /\ y.type \in {"suspect", "dead"} => y.target \in timedOut
    BY <1>0, <1>1 DEF AccuseInv, NetTypeOK, AccusationsTimedOut, Msg, Message
  <2> QED
    BY Zenon, <1>0, <1>1, <2>1 DEF AccuseInv, NetTypeOK, AccusationsTimedOut, AccusedTimedOut
<1>2. CASE HandlePing(x) \/ HandleSync(x)
  <2>1. UpdateMember(x.dst, x.src)
    BY Zenon, <1>2 DEF HandlePing, HandleSync
  <2>2. net' \subseteq net \cup {Msg("ack", x.dst, x.src, x.dst), Msg("sync", x.dst, x.src, x.dst)}
    BY <1>2, SendOnly DEF HandlePing, HandleSync
  <2> QED
    BY Zenon, <1>0, <1>1, <2>1, <2>2, AliveStep
<1>3. CASE HandleAck(x)
  <2>1. UpdateMember(x.dst, x.src) \/ UNCHANGED view
    BY Zenon, <1>3 DEF HandleAck
  <2>2. net' \subseteq net
    BY Zenon, <1>3 DEF HandleAck
  <2>3. /\ view' \in [Member -> [Member -> MemberState]]
        /\ \A i, j \in Member : view'[i][j] \in {"suspect", "dead"} => j \in timedOut
    BY Zenon, <1>0, <2>1, AliveStep DEF AccuseInv, AccusedTimedOut
  <2> QED
    BY Zenon, <1>1, <2>2, <2>3
<1>4. CASE HandleSuspect(x) \/ HandleDead(x)
  <2>1. x.target \in timedOut /\ net' \subseteq net
    BY Zenon, <1>4 DEF HandleSuspect, HandleDead, AccuseInv, AccusationsTimedOut
  <2>2. PICK s \in MemberState : view' = [view EXCEPT ![x.dst] = [view[x.dst] EXCEPT ![x.target] = s]]
    <3>1. view[x.dst][x.target] \in MemberState
      BY Zenon, <1>0
    <3>2. \E s \in MemberState : view' = [view EXCEPT ![x.dst][x.target] = s]
      BY Zenon, <1>4, <3>1 DEF HandleSuspect, HandleDead, MemberState
    <3> QED
      BY Zenon, <1>0, <3>2
  <2> QED
    BY Zenon, <1>0, <1>1, <2>1, <2>2, AccuseStep
<1> QED
  BY Zenon, <1>2, <1>3, <1>4 DEF Receive

\* The timer of a probe, and the end of a suspicion, accuse a node of which a probe
\* timed out, in the view and in the messages.
LEMMA TimerStep ==
    ASSUME AccuseInv, NEW n \in Member, NEW m \in Member, ProbeTimeout(n, m) \/ MarkDead(n, m)
    PROVE  AccuseInv'
<1> DEFINE claims == {Msg(t, n, r, m) : t \in {"suspect", "dead"}, r \in Member}
<1>0. view \in [Member -> [Member -> MemberState]] /\ expired \in [Member -> SUBSET Member]
      /\ net \subseteq Message /\ timedOut \subseteq Member
  BY Zenon DEF AccuseInv, NetTypeOK
<1>1. m \in timedOut' /\ timedOut \subseteq timedOut' /\ timedOut' \subseteq Member
  BY Zenon, <1>0 DEF ProbeTimeout, MarkDead, AccuseInv, AccusationsTimedOut
<1>2. expired' \in [Member -> SUBSET Member] /\ \A i \in Member : expired'[i] \subseteq expired[i]
  BY <1>0 DEF ProbeTimeout, MarkDead
<1>3. /\ view' \in [Member -> [Member -> MemberState]]
      /\ \A i, j \in Member : view'[i][j] \in {"suspect", "dead"} => j \in timedOut'
  <2>1. CASE UNCHANGED view
    BY Zenon, <1>0, <1>1, <2>1 DEF AccuseInv, AccusedTimedOut
  <2>2. ASSUME NEW s \in MemberState, view' = [view EXCEPT ![n] = [view[n] EXCEPT ![m] = s]]
        PROVE  /\ view' \in [Member -> [Member -> MemberState]]
               /\ \A i, j \in Member : view'[i][j] \in {"suspect", "dead"} => j \in timedOut'
    BY Zenon, <1>1, <2>2, AccuseStep
  <2> QED
    BY Zenon, <2>1, <2>2 DEF ProbeTimeout, MarkDead, MemberState
<1>4. net' \subseteq net \cup claims
  <2>1. CASE UNCHANGED net
    BY <2>1
  <2>2. \A v : Receivers(n, v) \subseteq Member
    BY Zenon DEF Receivers
  <2>3. ASSUME NEW v, SendAll(net, {Msg("suspect", n, r, m) : r \in Receivers(n, v)})
        PROVE  net' \subseteq net \cup claims
    BY <2>2, <2>3, SendOnly
  <2>4. ASSUME NEW v, SendAll(net, {Msg("dead", n, r, m) : r \in Receivers(n, v)})
        PROVE  net' \subseteq net \cup claims
    BY <2>2, <2>4, SendOnly
  <2>5. CASE ProbeTimeout(n, m)
    <3> DEFINE v == [view[n] EXCEPT ![m] = "suspect"]
    <3>1. UNCHANGED net \/ SendAll(net, {Msg("suspect", n, r, m) : r \in Receivers(n, v)})
      BY Zenon, <2>5 DEF ProbeTimeout
    <3> HIDE DEF v
    <3> QED
      BY <2>1, <2>3, <3>1
  <2>6. CASE MarkDead(n, m)
    <3> DEFINE v == [view[n] EXCEPT ![m] = "dead"]
    <3>1. SendAll(net, {Msg("dead", n, r, m) : r \in Receivers(n, v)})
      BY Zenon, <2>6 DEF MarkDead
    <3> HIDE DEF v
    <3> QED
      BY <2>4, <3>1
  <2> QED
    BY <2>5, <2>6
<1>5. \A x \in claims : x \in Message /\ x.target = m
  BY DEF Msg, Message
<1> HIDE DEF claims
<1>6. \A x \in net' : /\ x \in Message
                      /\ x.type \in {"suspect", "dead"} => x.target \in timedOut'
  BY Zenon, <1>0, <1>1, <1>4, <1>5 DEF AccuseInv, AccusationsTimedOut
<1> QED
  BY Zenon, <1>0, <1>1, <1>2, <1>3, <1>6
  DEF AccuseInv, NetTypeOK, AccusationsTimedOut, AccusedTimedOut

\* The other steps accuse nobody; checkSuspects collects suspects of the view.
LEMMA AccuseInvStep == AccuseInv /\ [SwimNext]_swimVars => AccuseInv'
<1> SUFFICES ASSUME AccuseInv, [SwimNext]_swimVars PROVE AccuseInv'
  BY Zenon
<1>0. view \in [Member -> [Member -> MemberState]] /\ expired \in [Member -> SUBSET Member]
      /\ net \subseteq Message /\ timedOut \subseteq Member
  BY Zenon DEF AccuseInv, NetTypeOK
<1>1. ASSUME UNCHANGED <<view, expired, timedOut>>,
             \A y \in net' : y \in net \/ (y \in Message /\ y.type \in {"join", "sync", "ping"})
      PROVE  AccuseInv'
  BY Zenon, <1>0, <1>1 DEF AccuseInv, NetTypeOK, AccusationsTimedOut, AccusedTimedOut
<1>2. ASSUME NEW n \in Member, Join(n) PROVE AccuseInv'
  <2>1. PICK seed \in Seeds[n] : SendAll(net, {Msg("join", n, seed, n)})
    BY Zenon, <1>2 DEF Join
  <2>2. seed \in Member
    BY Zenon, SwimAssumption
  <2>3. net' \subseteq net \cup {Msg("join", n, seed, n)}
    BY Zenon, <2>1, SendOnly
  <2> QED
    BY <1>1, <1>2, <2>2, <2>3 DEF Join, Msg, Message
<1>3. ASSUME NEW n \in Member, NEW m \in Member, Probe(n, m) \/ Gossip(n, m) PROVE AccuseInv'
  <2>1. net' \subseteq net \cup {Msg("ping", n, m, m), Msg("sync", n, m, n)}
    BY <1>3, SendOnly DEF Probe, Gossip
  <2> QED
    BY <1>1, <1>3, <2>1 DEF Probe, Gossip, Msg, Message
<1>4. ASSUME NEW n \in Member, CheckSuspects(n) PROVE AccuseInv'
  <2>1. PICK due \in SUBSET {m \in Member : view[n][m] = "suspect"} :
               expired' = [expired EXCEPT ![n] = due]
    BY Zenon, <1>4 DEF CheckSuspects
  <2>2. due \subseteq Member /\ due \subseteq timedOut
    BY Zenon, <2>1 DEF AccuseInv, AccusedTimedOut
  <2> QED
    BY Zenon, <1>0, <1>4, <2>1, <2>2
    DEF CheckSuspects, AccuseInv, NetTypeOK, AccusationsTimedOut, AccusedTimedOut
<1>5. ASSUME NEW n \in Member, Crash(n) PROVE AccuseInv'
  <2>1. /\ view' \in [Member -> [Member -> MemberState]]
        /\ \A i, j \in Member : view'[i][j] \in {"suspect", "dead"} => view[i][j] \in {"suspect", "dead"}
    BY Zenon, <1>0, <1>5 DEF Crash, Empty, MemberState
  <2>2. expired' \in [Member -> SUBSET Member] /\ \A i \in Member : expired'[i] \subseteq expired[i]
    BY Zenon, <1>0, <1>5 DEF Crash
  <2>3. UNCHANGED <<net, timedOut>>
    BY Zenon, <1>5 DEF Crash
  <2> QED
    BY Zenon, <2>1, <2>2, <2>3 DEF AccuseInv, NetTypeOK, AccusationsTimedOut, AccusedTimedOut
<1>6. ASSUME NEW n \in Member, RestartNode(n) PROVE AccuseInv'
  BY Zenon, <1>1, <1>6 DEF RestartNode
<1>7. ASSUME NEW x \in net, Lose(x) PROVE AccuseInv'
  BY Zenon, <1>1, <1>7 DEF Lose
<1>8. CASE UNCHANGED swimVars
  BY Zenon, <1>1, <1>8 DEF swimVars
<1> QED
  BY Zenon, <1>2, <1>3, <1>4, <1>5, <1>6, <1>7, <1>8, ReceiveStep, TimerStep DEF SwimNext

\* Whoever is suspect or dead in some view is a member of which a probe timed out
\* somewhere: no handler, loop or crash ever attributes an accusation to another node.
THEOREM SwimAccused == SwimSpec => []AccusedTimedOut
<1>1. SwimInit => AccuseInv
  BY DEF SwimInit, AccuseInv, NetTypeOK, AccusationsTimedOut, AccusedTimedOut, Empty, MemberState
<1>2. AccuseInv /\ [SwimNext]_swimVars => AccuseInv'
  BY Zenon, AccuseInvStep
<1>3. AccuseInv => AccusedTimedOut
  BY Zenon DEF AccuseInv
<1> QED
  BY <1>1, <1>2, <1>3, PTL DEF SwimSpec

----------------------------------------------------------------------------
(* The coordinator *)

Word == [type : {"join", "leave"}, peer : Peer]

CTypeOK ==
    /\ members \in [Peer -> {"none", "alive", "dead"}]
    /\ said \in [Peer -> {"none", "join", "leave"}]
    /\ swimCh \in Seq(Word)

\* The events of peer p that wait in the channel.
Pending(p) == {i \in DOMAIN swimCh : swimCh[i].peer = p}

\* What SWIM said last is the last event that waits ...
LastWord ==
    \A p \in Peer : \A i \in Pending(p) :
        (\A j \in Pending(p) : j <= i) => swimCh[i].type = said[p]

\* ... or what the coordinator made of it.
Told ==
    \A p \in Peer :
        Pending(p) = {} => members[p] = CASE said[p] = "none" -> "none"
                                          [] said[p] = "join" -> "alive"
                                          [] said[p] = "leave" -> "dead"

\* A peer that the coordinator does not know is unknown to SWIM, or its joining is the
\* first of its events that wait: handleMemberFailed never meets an unknown peer.
JoinsFirst ==
    \A p \in Peer : members[p] = "none" =>
        \/ said[p] = "none"
        \/ \E j \in Pending(p) : /\ swimCh[j].type = "join"
                                /\ \A i \in Pending(p) : j <= i

\* Of a peer that SWIM has said nothing of, nothing waits and nothing is known.
SaidKnown == \A p \in Peer : said[p] = "none" => members[p] = "none" /\ Pending(p) = {}

MembersInv == CTypeOK /\ LastWord /\ Told /\ JoinsFirst /\ SaidKnown

\* A new event is the last one of its peer, and follows the joining.
LEMMA SwimEventStep ==
    ASSUME MembersInv, NEW q \in Peer, NEW type \in {"join", "leave"}, SwimEvent(q, type)
    PROVE  MembersInv'
<1> DEFINE n == Len(swimCh) + 1
<1>1. /\ swimCh' = Append(swimCh, [type |-> type, peer |-> q]) /\ members' = members
      /\ said' = [said EXCEPT ![q] = type]
      /\ type = IF said[q] = "none" THEN "join" ELSE "leave"
  BY Zenon DEF SwimEvent
<1>2. CTypeOK'
  BY <1>1 DEF MembersInv, CTypeOK, Word
<1>3. /\ DOMAIN swimCh = 1..Len(swimCh) /\ Len(swimCh) \in Nat /\ DOMAIN swimCh' = 1..n
      /\ swimCh'[n].peer = q /\ swimCh'[n].type = type
      /\ \A i \in DOMAIN swimCh : swimCh'[i] = swimCh[i]
  BY <1>1 DEF MembersInv, CTypeOK
<1>4. \A p \in Peer \ {q} : Pending(p)' = Pending(p)
  BY <1>3 DEF Pending
<1>5. Pending(q)' = Pending(q) \cup {n} /\ \A i \in Pending(q) : i \in Nat /\ i < n
  BY <1>3 DEF Pending
<1>6. said'[q] = type /\ \A p \in Peer \ {q} : said'[p] = said[p]
  BY Zenon, <1>1 DEF MembersInv, CTypeOK
<1>7. LastWord'
  <2>1. ASSUME NEW p \in Peer \ {q}, NEW i \in Pending(p)', \A j \in Pending(p)' : j <= i
        PROVE  swimCh'[i].type = said'[p]
    BY <1>3, <1>4, <1>6, <2>1 DEF MembersInv, LastWord, Pending
  <2>2. ASSUME NEW i \in Pending(q)', \A j \in Pending(q)' : j <= i
        PROVE  swimCh'[i].type = said'[q]
    <3>1. n \in Nat /\ n <= i /\ (i \in Pending(q) \/ i = n)
      BY <1>3, <1>5, <2>2
    <3>2. i = n
      BY <1>5, <3>1
    <3> QED
      BY Zenon, <1>3, <1>6, <3>2
  <2> QED
    BY Zenon, <2>1, <2>2 DEF LastWord
<1>8. Told'
  BY Zenon, <1>1, <1>4, <1>5, <1>6 DEF MembersInv, Told
<1>9. JoinsFirst'
  <2>1. ASSUME NEW p \in Peer \ {q}, members[p] = "none"
        PROVE  \/ said'[p] = "none"
               \/ \E j \in Pending(p)' : /\ swimCh'[j].type = "join"
                                        /\ \A i \in Pending(p)' : j <= i
    BY <1>3, <1>4, <1>6, <2>1 DEF MembersInv, JoinsFirst, Pending
  <2>2. CASE said[q] = "none" /\ members[q] = "none" /\ Pending(q) = {}
    <3>1. n \in Nat /\ Pending(q)' = {n} /\ swimCh'[n].type = "join"
      BY <1>1, <1>3, <1>5, <2>2
    <3>2. \E j \in Pending(q)' : /\ swimCh'[j].type = "join"
                               /\ \A i \in Pending(q)' : j <= i
      BY <3>1
    <3> QED
      BY Zenon, <1>1, <2>1, <3>2 DEF JoinsFirst
  <2>3. ASSUME NEW j \in Pending(q), swimCh[j].type = "join", \A i \in Pending(q) : j <= i
        PROVE  JoinsFirst'
    <3>1. j \in Pending(q)' /\ swimCh'[j].type = "join" /\ \A i \in Pending(q)' : j <= i
      BY <1>3, <1>5, <2>3 DEF Pending
    <3> QED
      BY Zenon, <1>1, <2>1, <3>1 DEF JoinsFirst
  <2>4. CASE members[q] # "none"
    BY Zenon, <1>1, <2>1, <2>4 DEF JoinsFirst
  <2> QED
    BY Zenon, <2>2, <2>3, <2>4 DEF MembersInv, JoinsFirst, SaidKnown
<1>10. SaidKnown'
  BY Zenon, <1>1, <1>4, <1>6 DEF MembersInv, SaidKnown
<1> QED
  BY Zenon, <1>2, <1>7, <1>8, <1>9, <1>10 DEF MembersInv
\* Handling the first event shortens the channel, and tells the coordinator.
LEMMA HandleSWIMStep ==
    ASSUME MembersInv, HandleSWIMEvent
    PROVE  MembersInv'
<1> DEFINE e == Head(swimCh)
<1>1. /\ swimCh # <<>> /\ swimCh' = Tail(swimCh) /\ said' = said
      /\ members' = [members EXCEPT ![e.peer] =
                        IF e.type = "join" THEN "alive" ELSE IF @ = "none" THEN @ ELSE "dead"]
  BY Zenon DEF HandleSWIMEvent
<1>2. e \in Word /\ e = swimCh[1] /\ swimCh' \in Seq(Word)
  BY <1>1 DEF MembersInv, CTypeOK
<1>3. e.peer \in Peer /\ e.type \in {"join", "leave"}
  BY Zenon, <1>2 DEF Word
<1>4. /\ DOMAIN swimCh = 1..Len(swimCh) /\ Len(swimCh) \in Nat /\ 1 \in DOMAIN swimCh
      /\ DOMAIN swimCh' = 1..(Len(swimCh) - 1)
      /\ \A i \in DOMAIN swimCh' : swimCh'[i] = swimCh[i + 1]
  BY <1>1 DEF MembersInv, CTypeOK
<1>5. \A p \in Peer : Pending(p)' = {i \in DOMAIN swimCh' : i + 1 \in Pending(p)}
  BY <1>4 DEF Pending
<1>6. \A p \in Peer : \A i \in Pending(p) : i \in Nat \ {0} /\ (i = 1 \/ i - 1 \in Pending(p)')
  BY <1>4, <1>5 DEF Pending
<1>7. \A p \in Peer : 1 \in Pending(p) <=> p = e.peer
  BY Zenon, <1>2, <1>4 DEF Pending
<1>8. \A p \in Peer : \A i \in Pending(p)' : i \in Nat \ {0} /\ i + 1 \in Pending(p) /\ swimCh'[i] = swimCh[i + 1]
  BY <1>4, <1>5
<1>9. /\ \A p \in Peer \ {e.peer} : members'[p] = members[p]
      /\ members'[e.peer] # "none"
      /\ e.type = "join" => members'[e.peer] = "alive"
      /\ e.type = "leave" => members'[e.peer] = "dead"
  <2>1. members[e.peer] = "none" => e.type = "join"
    <3> SUFFICES ASSUME members[e.peer] = "none" PROVE e.type = "join"
      BY Zenon
    <3>1. 1 \in Pending(e.peer)
      BY Zenon, <1>3, <1>7
    <3>2. said[e.peer] # "none"
      BY Zenon, <1>3, <3>1 DEF MembersInv, SaidKnown
    <3>3. PICK j \in Pending(e.peer) : /\ swimCh[j].type = "join"
                                       /\ \A i \in Pending(e.peer) : j <= i
      BY Zenon, <1>3, <3>2 DEF MembersInv, JoinsFirst
    <3>4. j = 1
      BY <1>3, <1>6, <3>1, <3>3
    <3> QED
      BY Zenon, <1>2, <3>3, <3>4
  <2>2. members \in [Peer -> {"none", "alive", "dead"}]
    BY Zenon DEF MembersInv, CTypeOK
  <2> HIDE DEF e
  <2> QED
    BY Zenon, <1>1, <1>3, <2>1, <2>2
<1>10. CTypeOK'
  BY Zenon, <1>1, <1>2 DEF MembersInv, CTypeOK
<1>11. LastWord'
  <2> SUFFICES ASSUME NEW p \in Peer, NEW i \in Pending(p)', \A j \in Pending(p)' : j <= i
               PROVE  swimCh'[i].type = said[p]
    BY Zenon, <1>1 DEF LastWord
  <2>1. \A j \in Pending(p) : j <= i + 1
    BY <1>6, <1>8
  <2> QED
    BY <1>8, <2>1 DEF MembersInv, LastWord
<1>12. Told'
  <2> SUFFICES ASSUME NEW p \in Peer, Pending(p)' = {}
               PROVE  members'[p] = CASE said[p] = "none" -> "none"
                                      [] said[p] = "join" -> "alive"
                                      [] said[p] = "leave" -> "dead"
    BY Zenon, <1>1 DEF Told
  <2>1. CASE p # e.peer
    <3>1. Pending(p) = {}
      BY Zenon, <1>6, <1>7, <2>1
    <3> QED
      BY Zenon, <1>9, <2>1, <3>1 DEF MembersInv, Told
  <2>2. CASE p = e.peer
    <3>1. Pending(p) = {1}
      BY Zenon, <1>6, <1>7, <2>2
    <3>2. e.type = said[p]
      BY <1>2, <3>1 DEF MembersInv, LastWord
    <3> QED
      BY Zenon, <1>3, <1>9, <2>2, <3>2
  <2> QED
    BY Zenon, <2>1, <2>2
<1>13. JoinsFirst'
  <2> SUFFICES ASSUME NEW p \in Peer, members'[p] = "none"
               PROVE  \/ said[p] = "none"
                      \/ \E j \in Pending(p)' : /\ swimCh'[j].type = "join"
                                               /\ \A i \in Pending(p)' : j <= i
    BY Zenon, <1>1 DEF JoinsFirst
  <2>1. p # e.peer /\ members[p] = "none" /\ 1 \notin Pending(p)
    BY Zenon, <1>7, <1>9
  <2>2. CASE said[p] = "none"
    BY Zenon, <2>2
  <2>3. ASSUME NEW j \in Pending(p), swimCh[j].type = "join", \A i \in Pending(p) : j <= i
        PROVE  \E k \in Pending(p)' : /\ swimCh'[k].type = "join"
                                     /\ \A i \in Pending(p)' : k <= i
    <3>1. j \in Nat /\ j - 1 \in Pending(p)'
      BY Zenon, <1>6, <2>1
    <3>2. swimCh'[j - 1] = swimCh[j]
      BY <1>8, <3>1
    <3>3. \A i \in Pending(p)' : j - 1 <= i
      BY <1>8, <2>3, <3>1
    <3> QED
      BY Zenon, <2>3, <3>1, <3>2, <3>3
  <2> QED
    BY Zenon, <2>1, <2>2, <2>3 DEF MembersInv, JoinsFirst
<1>14. SaidKnown'
  <2>1. said[e.peer] # "none"
    BY Zenon, <1>3, <1>7 DEF MembersInv, SaidKnown
  <2>2. ASSUME NEW p \in Peer, said[p] = "none" PROVE members'[p] = "none" /\ Pending(p)' = {}
    BY Zenon, <1>8, <1>9, <2>1, <2>2 DEF MembersInv, SaidKnown
  <2> QED
    BY Zenon, <1>1, <2>2 DEF SaidKnown
<1> QED
  BY Zenon, <1>10, <1>11, <1>12, <1>13, <1>14 DEF MembersInv
\* Every step keeps the invariant.
LEMMA MembersStep == MembersInv /\ [CoordNext]_coordVars => MembersInv'
<1> SUFFICES ASSUME MembersInv, [CoordNext]_coordVars PROVE MembersInv'
  BY Zenon
<1>1. CASE \E p \in Peer, type \in {"join", "leave"} : SwimEvent(p, type)
  BY Zenon, <1>1, SwimEventStep
<1>2. CASE HandleSWIMEvent
  BY Zenon, <1>2, HandleSWIMStep
<1>3. ASSUME UNCHANGED <<members, said, swimCh>> PROVE MembersInv'
  BY <1>3 DEF MembersInv, CTypeOK, LastWord, Told, JoinsFirst, SaidKnown, Pending
<1>4. CASE RaftFlip \/ ApplyCallback \/ MonitorLeader \/ Stop
  BY Zenon, <1>3, <1>4 DEF RaftFlip, ApplyCallback, MonitorLeader, Stop
<1>5. CASE \E c \in Client : ClientCall(c) \/ Propose(c) \/ ContextDone(c)
  BY Zenon, <1>3, <1>5 DEF ClientCall, Propose, ContextDone
<1>6. CASE HandleEvent \/ RunSend \/ TakeCommand \/ HandleCommand \/ RunStops
  BY Zenon, <1>3, <1>6 DEF HandleEvent, RunSend, TakeCommand, HandleCommand, RunStops
<1>7. CASE UNCHANGED coordVars
  BY Zenon, <1>3, <1>7 DEF coordVars
<1> QED
  BY Zenon, <1>1, <1>2, <1>4, <1>5, <1>6, <1>7 DEF CoordNext

\* The coordinator's view of a member is SWIM's last word, unless that word still waits
\* in the channel.  A peer's joining precedes its leaving there, so handleMemberFailed,
\* which ignores an unknown peer, ignores none.
THEOREM CoordinatorFollows == CoordSpec => []MembersFollow
<1>1. CoordInit => MembersInv
  <2> SUFFICES ASSUME CoordInit PROVE MembersInv
    BY Zenon
  <2>1. CTypeOK /\ \A p \in Peer : Pending(p) = {}
    BY DEF CoordInit, CTypeOK, Pending
  <2>2. \A p \in Peer : members[p] = "none" /\ said[p] = "none"
    BY Zenon DEF CoordInit
  <2> QED
    BY Zenon, <2>1, <2>2 DEF MembersInv, LastWord, Told, JoinsFirst, SaidKnown
<1>2. MembersInv => MembersFollow
  BY Zenon DEF MembersInv, Told, MembersFollow, Pending
<1> QED
  BY <1>1, <1>2, MembersStep, PTL DEF CoordSpec

----------------------------------------------------------------------------
(* The steps of a start-up *)

\* The places in a sequence of steps at which step x is.
Places(steps, x) == {i \in DOMAIN steps : steps[i] = x}

\* What the proofs need of a start-up: the user is counted, and a connection acquired,
\* at most once, and the user's name is read before it is counted.
GoodSteps(steps) ==
    /\ Len(steps) \in Nat /\ DOMAIN steps = 1..Len(steps)
    /\ \A i, j \in Places(steps, "connect") : i = j
    /\ \A i, j \in Places(steps, "count") : i = j
    /\ \A i \in Places(steps, "read"), j \in Places(steps, "count") : i < j

\* The PostgreSQL start-up is put together from parts.
LEMMA PostgreSQLStepsAre ==
    LET P == PostgreSQLSteps
    IN  \/ /\ Len(P) = 9 /\ DOMAIN P = 1..9
           /\ P[1] = "read" /\ P[2] = "lookup" /\ P[3] = "count" /\ P[4] = "access"
           /\ P[5] = "limiter" /\ P[6] = "first" /\ P[7] = "final"
           /\ P[8] = "connect" /\ P[9] = "backend"
        \/ /\ Len(P) = 6 /\ DOMAIN P = 1..6
           /\ P[1] = "read" /\ P[2] = "lookup" /\ P[3] = "count" /\ P[4] = "access"
           /\ P[5] = "connect" /\ P[6] = "backend"
<1>1. CASE cfg.auth = "interception"
  BY <1>1 DEF PostgreSQLSteps, PostgreSQLAuthSteps, ConnectSteps
<1>2. CASE cfg.auth # "interception"
  BY <1>2 DEF PostgreSQLSteps, ConnectSteps
<1> QED
  BY Zenon, <1>1, <1>2

\* Every start-up is good.
LEMMA StepsGood == GoodSteps(Steps)
<1>1. GoodSteps(PostgreSQLSteps)
  <2>1. CASE Len(PostgreSQLSteps) = 9
    BY <2>1, PostgreSQLStepsAre DEF GoodSteps, Places
  <2>2. CASE Len(PostgreSQLSteps) = 6
    BY <2>2, PostgreSQLStepsAre DEF GoodSteps, Places
  <2> QED
    BY Zenon, <2>1, <2>2, PostgreSQLStepsAre
<1>2. GoodSteps(MySQLInterceptionSteps)
  BY DEF GoodSteps, Places, MySQLInterceptionSteps
<1>3. GoodSteps(MySQLPassthroughSteps)
  BY DEF GoodSteps, Places, MySQLPassthroughSteps
<1>4. GoodSteps(MSSQLInterceptionSteps)
  BY DEF GoodSteps, Places, MSSQLInterceptionSteps
<1>5. GoodSteps(MSSQLPassthroughSteps)
  BY DEF GoodSteps, Places, MSSQLPassthroughSteps
<1> QED
  BY Zenon, <1>1, <1>2, <1>3, <1>4, <1>5 DEF Steps, MySQLSteps, MSSQLSteps

\* The configuration is fixed, and so are the steps.
LEMMA StepsFixed == cfg' = cfg => Steps' = Steps
BY Zenon DEF Steps, PostgreSQLSteps, PostgreSQLAuthSteps, ConnectSteps, MySQLSteps,
       MySQLInterceptionSteps, MySQLPassthroughSteps, MSSQLSteps, MSSQLInterceptionSteps,
       MSSQLPassthroughSteps

\* Only MySQL reads a name again.
LEMMA NoReread ==
    ASSUME cfg.body # "mysql", NEW s \in Session, at[s] \in Nat \ {0}
    PROVE  ~At(s, "reread")
<1>1. \A i \in 1..Len(PostgreSQLSteps) : PostgreSQLSteps[i] # "reread"
  BY SMTT(60), PostgreSQLStepsAre
<1>2. \A i \in 1..Len(MSSQLInterceptionSteps) : MSSQLInterceptionSteps[i] # "reread"
  BY DEF MSSQLInterceptionSteps
<1>3. \A i \in 1..Len(MSSQLPassthroughSteps) : MSSQLPassthroughSteps[i] # "reread"
  BY DEF MSSQLPassthroughSteps
<1>4. Len(Steps) \in Nat
  BY Zenon, StepsGood DEF GoodSteps
<1> QED
  BY <1>1, <1>2, <1>3, <1>4 DEF Steps, MSSQLSteps, At

----------------------------------------------------------------------------
(* What the steps do *)

\* A step of handleStartup succeeds, fails, or goes on.
Moves(s) == At(s, Steps[at[s]]) /\ (Advance(s) \/ Fail(s) \/ UNCHANGED <<pc, at>>)

\* The name of the user changes only where it is read.
Names(s) ==
    \/ UNCHANGED user
    \/ /\ At(s, "read") \/ At(s, "reread")
       /\ \E u \in Name \cup {NoName} : user' = [user EXCEPT ![s] = u]

\* What every step of a start-up has in common.
InStartup(s) ==
    /\ Moves(s) /\ Names(s)
    /\ UNCHANGED <<clientCount, fixedVars>>
    /\ Connect(s) \/ UNCHANGED connVars
    /\ CountUser(s) \/ UNCHANGED userCount

\* The client's side of a start-up is like that ...
LEMMA ClientSteps ==
    ASSUME NEW s \in Session, user \in [Session -> Name \cup {NoName}], ClientStep(s)
    PROVE  InStartup(s)
<1> USE DEF InStartup, Moves, Names, At, countVars, limiterVars
<1>1. CASE CheckLimiter(s)
  BY Zenon, <1>1 DEF CheckLimiter
<1>2. CASE SSLRequest(s)
  BY Zenon, <1>2 DEF SSLRequest, Continue
<1>3. CASE ReadFails(s)
  BY Zenon, <1>3 DEF ReadFails
<1>4. CASE Lookup(s)
  BY Zenon, <1>4 DEF Lookup, Refuse
<1>5. CASE CountUser(s)
  BY Zenon, <1>5 DEF CountUser, Refuse
<1>6. CASE CheckAccess(s)
  BY Zenon, <1>6 DEF CheckAccess, Refuse
<1>7. CASE ScramFirst(s)
  BY Zenon, <1>7 DEF ScramFirst
<1>8. CASE ScramFinal(s)
  BY Zenon, <1>8 DEF ScramFinal
<1>9. CASE VerifyMySQL(s)
  BY Zenon, <1>9 DEF VerifyMySQL
<1>10. CASE \E u \in Name : UseCertificate(s, u)
  BY Zenon, <1>10 DEF UseCertificate, Continue
<1>11. CASE \E u \in Name \cup {NoName} : ReadStartupMessage(s, u)
  BY Zenon, <1>11 DEF ReadStartupMessage
<1>0. CASE \E u \in Name \cup {NoName} : ReadMySQLHandshake(s, u)
  BY Zenon, <1>0 DEF ReadMySQLHandshake, parseMySQLHandshakeResponse
<1>13. CASE \E u \in Name \cup {NoName} : ReadMSSQLHandshake(s, u)
  BY Zenon, <1>13 DEF ReadMSSQLHandshake, extractLogin7Credentials
<1>14. CASE \E u \in Name \cup {NoName} : RereadMySQL(s, u)
  BY Zenon, <1>14 DEF RereadMySQL
<1> QED
  BY Zenon, <1>1, <1>2, <1>3, <1>4, <1>5, <1>6, <1>7, <1>8, <1>9, <1>10, <1>11, <1>0, <1>13, <1>14 DEF ClientStep

\* ... and so is the backend's.
LEMMA BackendSteps ==
    ASSUME NEW s \in Session, BackendStep(s)
    PROVE  InStartup(s)
<1> USE DEF InStartup, Moves, Names, At, countVars, limiterVars
<1>1. CASE Connect(s)
  BY Zenon, <1>1 DEF Connect
<1>2. CASE AuthenticateToBackend(s)
  BY Zenon, <1>2 DEF AuthenticateToBackend, Continue
<1>3. CASE BuildClientFinal(s)
  BY Zenon, <1>3 DEF BuildClientFinal, Continue
<1>4. CASE VerifyServerFinal(s)
  BY Zenon, <1>4 DEF VerifyServerFinal
<1>5. CASE CheckLimiterAgain(s)
  BY Zenon, <1>5 DEF CheckLimiterAgain, Continue
<1>6. CASE ForwardAuthFromBackend(s)
  BY Zenon, <1>6 DEF ForwardAuthFromBackend, Continue
<1>7. CASE Greet(s)
  BY Zenon, <1>7 DEF Greet
<1>8. CASE ForwardMySQLAuth(s)
  BY Zenon, <1>8 DEF ForwardMySQLAuth
<1>9. CASE ForwardMSSQLPreLogin(s)
  BY Zenon, <1>9 DEF ForwardMSSQLPreLogin
<1>10. CASE ForwardMSSQLPreLoginResponse(s)
  BY Zenon, <1>10 DEF ForwardMSSQLPreLoginResponse
<1>11. CASE ForwardMSSQLLogin7Response(s)
  BY Zenon, <1>11 DEF ForwardMSSQLLogin7Response, Continue
<1>0. CASE ForwardMSSQLClientSSPIResponse(s)
  BY Zenon, <1>0 DEF ForwardMSSQLClientSSPIResponse, Continue
<1> QED
  BY Zenon, <1>1, <1>2, <1>3, <1>4, <1>5, <1>6, <1>7, <1>8, <1>9, <1>10, <1>11, <1>0 DEF BackendStep
----------------------------------------------------------------------------
(* The invariant *)

STypeOK ==
    /\ cfg.maxClients \in Nat
    /\ idle \in [Conn -> Nat] /\ out \in SUBSET Conn
    /\ sconn \in [Session -> Conn \cup {NoConn}] /\ pconn \in [Session -> Conn \cup {NoConn}]
    /\ pc \in [Session -> PC] /\ at \in [Session -> Nat \ {0}]
    /\ user \in [Session -> Name \cup {NoName}]
    /\ userCount \in [DOMAIN userCount -> Int]

\* The client counter is the number of connections being handled.
Handled == {s \in Session : pc[s] \notin {"new", "closed"}}
CountOK == clientCount = Cardinality(Handled) /\ clientCount <= cfg.maxClients

\* Which connections a session has, by where it is: until the second OnClientConnect,
\* the pool session's is the session's own.
PlaceOK ==
    \A s \in Session :
        /\ pc[s] \in {"new", "closed", "uncount"} => sconn[s] = NoConn /\ pconn[s] = NoConn
        /\ pc[s] = "release" => sconn[s] = NoConn
        /\ pc[s] \in {"startup", "started"} => sconn[s] = pconn[s]
        /\ pc[s] = "startup" /\ ~Done(s, "connect") => sconn[s] = NoConn

\* What is handed out, some session has.
OutHeld == \A c \in out : \E s \in Session : c \in Holds(s)

\* What a session has is handed out to it alone.
HeldAlone ==
    cut = {} =>
        /\ \A s \in Session : Holds(s) \subseteq out
        /\ \A s, t \in Session : s # t => Holds(s) \cap Holds(t) = {}
        /\ \A c \in Conn : idle[c] = 0 \/ (idle[c] = 1 /\ c \notin out)

\* The steps of the system.
LEMMA StartupCases ==
    ASSUME STypeOK, Next
    PROVE  \E s \in Session : \/ Accept(s) \/ InStartup(s) \/ ConnectAgain(s) \/ RelayEnds(s)
                             \/ Discount(s) \/ Disconnect(s) \/ ReleaseOwn(s) \/ Uncount(s)
BY Zenon, ClientSteps, BackendSteps DEF Next, Step, CleanupStep, STypeOK

\* Releasing keeps the types of the pool.
LEMMA ReleaseType ==
    ASSUME idle \in [Conn -> Nat], out \in SUBSET Conn, NEW c \in Conn, Release(c)
    PROVE  idle' \in [Conn -> Nat] /\ out' \in SUBSET Conn
BY DEF Release

\* Acquiring does.
LEMMA AcquireType ==
    ASSUME idle \in [Conn -> Nat], out \in SUBSET Conn, NEW c \in Conn, NEW u, Acquire(c, u)
    PROVE  idle' \in [Conn -> Nat] /\ out' \in SUBSET Conn
BY DEF Acquire

\* Where a step of a start-up leads.
LEMMA MovesTo ==
    ASSUME STypeOK, NEW s \in Session, Moves(s)
    PROVE  /\ pc[s] = "startup" /\ at[s] \in DOMAIN Steps
           /\ \E x \in {"startup", "started", "discount"} : pc' = [pc EXCEPT ![s] = x]
           /\ at' = at \/ (at' = [at EXCEPT ![s] = @ + 1] /\ pc'[s] \in {"startup", "started"})
<1>1. pc[s] = "startup" /\ at[s] \in DOMAIN Steps
  BY StepsGood DEF STypeOK, Moves, At, GoodSteps
<1>2. CASE Advance(s)
  BY Zenon, <1>1, <1>2 DEF Advance, STypeOK
<1>3. CASE Fail(s)
  BY Zenon, <1>1, <1>3 DEF Fail, STypeOK
<1>4. CASE UNCHANGED <<pc, at>>
  BY Zenon, <1>1, <1>4 DEF STypeOK
<1> QED
  BY Zenon, <1>1, <1>2, <1>3, <1>4 DEF Moves

\* Every step keeps the types.
LEMMA STypeStep == STypeOK /\ [Next]_vars => STypeOK'
<1> SUFFICES ASSUME STypeOK, [Next]_vars PROVE STypeOK'
  BY Zenon
<1>1. ASSUME NEW u, NEW n \in Int, SetCount(u, n)
      PROVE  userCount' \in [DOMAIN userCount' -> Int]
  BY Zenon, <1>1 DEF SetCount, STypeOK
<1>2. ASSUME NEW s \in Session, Accept(s) PROVE STypeOK'
  BY Zenon, <1>2 DEF Accept, STypeOK, PC, connVars, poolVars, fixedVars
<1>3. ASSUME NEW s \in Session, InStartup(s) PROVE STypeOK'
  <2>1. pc' \in [Session -> PC] /\ at' \in [Session -> Nat \ {0}]
    <3>1. Moves(s)
      BY Zenon, <1>3 DEF InStartup
    <3>2. pc' \in [Session -> PC]
      BY <3>1, MovesTo DEF STypeOK, PC, Cleanup
    <3>3. at' \in [Session -> Nat \ {0}]
      BY <3>1, MovesTo DEF STypeOK
    <3> QED
      BY Zenon, <3>2, <3>3
  <2>2. user' \in [Session -> Name \cup {NoName}] /\ cfg' = cfg
    BY Zenon, <1>3 DEF InStartup, Names, STypeOK, fixedVars
  <2>3. /\ idle' \in [Conn -> Nat] /\ out' \in SUBSET Conn
        /\ sconn' \in [Session -> Conn \cup {NoConn}] /\ pconn' \in [Session -> Conn \cup {NoConn}]
    <3>1. CASE UNCHANGED connVars
      BY Zenon, <3>1 DEF STypeOK, connVars, poolVars
    <3>2. ASSUME NEW c \in Conn, Acquire(c, InUse), SetServerConn(s, c),
                 pconn' = [pconn EXCEPT ![s] = c]
          PROVE  <2>3
      BY Zenon, <3>2, AcquireType DEF STypeOK, SetServerConn
    <3> QED
      BY Zenon, <1>3, <3>1, <3>2 DEF InStartup, Connect
  <2>4. userCount' \in [DOMAIN userCount' -> Int]
    <3>1. CASE CountUser(s)
      <4>1. Count(user[s]) \in Int
        BY DEF Count, STypeOK
      <4> QED
        BY <3>1, <4>1, <1>1 DEF CountUser, STypeOK
    <3> QED
      BY Zenon, <1>3, <3>1 DEF InStartup, STypeOK
  <2> QED
    BY Zenon, <2>1, <2>2, <2>3, <2>4 DEF STypeOK
<1>4. ASSUME NEW s \in Session, ConnectAgain(s) PROVE STypeOK'
  <2>1. /\ idle' \in [Conn -> Nat] /\ out' \in SUBSET Conn
        /\ sconn' \in [Session -> Conn \cup {NoConn}]
    BY <1>4, AcquireType DEF ConnectAgain, STypeOK, SetServerConn, poolVars
  <2> QED
    BY Zenon, <1>4, <2>1 DEF ConnectAgain, STypeOK, PC, Cleanup, fixedVars, countVars
<1>5. ASSUME NEW s \in Session, RelayEnds(s) PROVE STypeOK'
  BY Zenon, <1>5 DEF RelayEnds, STypeOK, PC, Cleanup, fixedVars, countVars, poolVars
<1>6. ASSUME NEW s \in Session, Discount(s) PROVE STypeOK'
  <2>1. userCount' \in [DOMAIN userCount' -> Int]
    BY <1>6, <1>1 DEF Discount, STypeOK
  <2> QED
    BY Zenon, <1>6, <2>1 DEF Discount, STypeOK, PC, Cleanup, fixedVars, poolVars
<1>7. ASSUME NEW s \in Session, Disconnect(s) PROVE STypeOK'
  <2>1. idle' \in [Conn -> Nat] /\ out' \in SUBSET Conn
    BY Zenon, <1>7, ReleaseType DEF Disconnect, STypeOK, poolVars
  <2> QED
    BY Zenon, <1>7, <2>1 DEF Disconnect, STypeOK, PC, Cleanup, SetServerConn, countVars
<1>8. ASSUME NEW s \in Session, ReleaseOwn(s) PROVE STypeOK'
  <2>1. idle' \in [Conn -> Nat] /\ out' \in SUBSET Conn
    BY Zenon, <1>8, ReleaseType DEF ReleaseOwn, STypeOK, poolVars
  <2> QED
    BY Zenon, <1>8, <2>1 DEF ReleaseOwn, STypeOK, PC, Cleanup, fixedVars, countVars
<1>9. ASSUME NEW s \in Session, Uncount(s) PROVE STypeOK'
  BY <1>9 DEF Uncount, STypeOK, PC, fixedVars, poolVars
<1>10. CASE UNCHANGED vars
  BY Zenon, <1>10 DEF vars, connVars, poolVars, countVars, fixedVars, STypeOK
<1> QED
  BY <1>2, <1>3, <1>4, <1>5, <1>6, <1>7, <1>8, <1>9, <1>10, StartupCases
----------------------------------------------------------------------------
(* The server connections *)

\* What a session has done stays done, while its start-up goes on.
LEMMA DoneGrows ==
    ASSUME STypeOK, NEW s \in Session, InStartup(s), NEW t \in Session, NEW x, Done(t, x)
    PROVE  Done(t, x)'
<1>1. Steps' = Steps /\ (at' = at \/ at' = [at EXCEPT ![s] = @ + 1])
  BY Zenon, StepsFixed, MovesTo DEF InStartup, fixedVars
<1>2. at'[t] = at[t] \/ at'[t] = at[t] + 1
  BY Zenon, <1>1 DEF STypeOK
<1>3. PICK i \in DOMAIN Steps : i < at[t] /\ Steps[i] = x
  BY Zenon DEF Done
<1>4. i \in Nat
  BY StepsGood DEF GoodSteps
<1>5. i \in DOMAIN Steps' /\ i < at'[t] /\ Steps'[i] = x
  BY <1>1, <1>2, <1>3, <1>4 DEF STypeOK
<1> QED
  BY Zenon, <1>5 DEF Done

\* It is not undone by a step that leaves the session where it is.
LEMMA DoneFixed ==
    ASSUME NEW t \in Session, NEW x, cfg' = cfg, at'[t] = at[t]
    PROVE  Done(t, x)' = Done(t, x)
BY Zenon, StepsFixed DEF Done

\* A session that is about to count its user has not done so before, and has after.
LEMMA CountsOnce ==
    ASSUME STypeOK, NEW s \in Session, At(s, "count")
    PROVE  ~Done(s, "count") /\ (cfg' = cfg /\ at'[s] = at[s] + 1 => Done(s, "count")')
<1>1. at[s] \in Places(Steps, "count")
  BY StepsGood DEF GoodSteps, At, STypeOK, Places
<1>2. ~Done(s, "count")
  BY <1>1, StepsGood DEF GoodSteps, Done, Places, STypeOK
<1>3. ASSUME cfg' = cfg, at'[s] = at[s] + 1 PROVE Done(s, "count")'
  <2>1. Steps' = Steps
    BY Zenon, <1>3, StepsFixed
  <2>2. at[s] \in DOMAIN Steps /\ Steps[at[s]] = "count" /\ at[s] < at'[s]
    BY <1>1, <1>3 DEF Places, STypeOK
  <2> QED
    BY Zenon, <2>1, <2>2 DEF Done
<1> QED
  BY Zenon, <1>2, <1>3

\* A session that has counted its user is past reading the name.
LEMMA CountedHasRead ==
    ASSUME STypeOK, NEW s \in Session, Done(s, "count")
    PROVE  ~At(s, "read")
BY StepsGood DEF At, Done, GoodSteps, Places, STypeOK

\* What is at most a number is at most any larger one.
LEMMA AtMostLarger ==
    \A a \in Int : \A b, c \in Nat : a <= b /\ b <= c => a <= c
OBVIOUS

\* A session that is at the step has it not done, and has no connection yet.
LEMMA NotConnected ==
    ASSUME STypeOK, PlaceOK, NEW s \in Session, At(s, "connect")
    PROVE  sconn[s] = NoConn /\ pconn[s] = NoConn
<1>1. at[s] \in Places(Steps, "connect")
  BY StepsGood DEF GoodSteps, At, STypeOK, Places
<1>2. ~Done(s, "connect")
  BY <1>1, StepsGood DEF GoodSteps, Done, Places, STypeOK
<1> QED
  BY Zenon, <1>2 DEF PlaceOK, At

\* OnClientConnect of a start-up: it acquires a connection for a session without
\* one, or nothing happens to connections.
LEMMA Connects ==
    ASSUME STypeOK, PlaceOK, NEW s \in Session, InStartup(s)
    PROVE  \/ UNCHANGED connVars
           \/ /\ At(s, "connect") /\ Advance(s)
              /\ sconn[s] = NoConn /\ pconn[s] = NoConn
              /\ \E c \in Conn : /\ Acquire(c, InUse)
                                 /\ sconn' = [sconn EXCEPT ![s] = c]
                                 /\ pconn' = [pconn EXCEPT ![s] = c]
BY Zenon, NotConnected DEF InStartup, Connect, SetServerConn
\* The second OnClientConnect: a session whose two connections are one gets another,
\* or keeps what it has and gives up.
LEMMA ConnectsAgain ==
    ASSUME STypeOK, PlaceOK, NEW s \in Session, ConnectAgain(s)
    PROVE  /\ sconn[s] = pconn[s] /\ UNCHANGED <<pconn, at, cfg, cut>>
           /\ \/ UNCHANGED connVars /\ pc' = [pc EXCEPT ![s] = "discount"]
              \/ /\ pc' = [pc EXCEPT ![s] = "relay"]
                 /\ \E c \in Conn : /\ Acquire(c, InUse)
                                    /\ sconn' = [sconn EXCEPT ![s] = c]
BY Zenon DEF ConnectAgain, PlaceOK, SetServerConn, fixedVars, connVars

\* Every step keeps what a session has, by where it is.
LEMMA PlaceStep == STypeOK /\ PlaceOK /\ [Next]_vars => PlaceOK'
<1> SUFFICES ASSUME STypeOK, PlaceOK, [Next]_vars PROVE PlaceOK'
  BY Zenon
<1>1. ASSUME NEW s \in Session, cfg' = cfg,
             \A t \in Session \ {s} : /\ pc'[t] = pc[t] /\ at'[t] = at[t]
                                     /\ sconn'[t] = sconn[t] /\ pconn'[t] = pconn[t],
             pc'[s] \in {"new", "closed", "uncount"} => sconn'[s] = NoConn /\ pconn'[s] = NoConn,
             pc'[s] = "release" => sconn'[s] = NoConn,
             pc'[s] \in {"startup", "started"} => sconn'[s] = pconn'[s],
             pc'[s] = "startup" /\ ~Done(s, "connect")' => sconn'[s] = NoConn
      PROVE  PlaceOK'
  <2>1. \A t \in Session \ {s} : Done(t, "connect")' = Done(t, "connect")
    BY Zenon, <1>1, DoneFixed
  <2> QED
    BY <1>1, <2>1 DEF PlaceOK
<1>2. ASSUME NEW s \in Session, Accept(s) PROVE PlaceOK'
  BY Zenon, <1>1, <1>2 DEF Accept, PlaceOK, STypeOK, connVars, fixedVars
<1>3. ASSUME NEW s \in Session, InStartup(s) PROVE PlaceOK'
  <2>1. Moves(s) /\ cfg' = cfg
    BY Zenon, <1>3 DEF InStartup, fixedVars
  <2>2. pc[s] = "startup" /\ pc'[s] \in {"startup", "started", "discount"}
    BY Zenon, <2>1, MovesTo DEF STypeOK
  <2>3. \A t \in Session \ {s} : pc'[t] = pc[t] /\ at'[t] = at[t]
    BY <2>1, MovesTo DEF STypeOK
  <2>4. CASE UNCHANGED connVars
    <3>1. sconn[s] = pconn[s]
      BY Zenon, <2>2 DEF PlaceOK
    <3>2. ~Done(s, "connect")' => sconn[s] = NoConn
      BY Zenon, <1>3, <2>2, DoneGrows DEF PlaceOK
    <3> QED
      BY Zenon, <1>1, <2>1, <2>2, <2>3, <2>4, <3>1, <3>2 DEF connVars
  <2>5. ASSUME At(s, "connect"), Advance(s), NEW c \in Conn,
               sconn' = [sconn EXCEPT ![s] = c], pconn' = [pconn EXCEPT ![s] = c]
        PROVE  PlaceOK'
    <3>1. at[s] \in DOMAIN Steps /\ Steps[at[s]] = "connect"
      BY Zenon, <2>1, <2>5, MovesTo DEF At
    <3>2. at'[s] = at[s] + 1 /\ Steps' = Steps
      BY Zenon, <2>1, <2>5, StepsFixed DEF Advance, STypeOK
    <3>3. Done(s, "connect")'
      BY <3>1, <3>2 DEF Done, STypeOK
    <3> QED
      BY <1>1, <2>1, <2>2, <2>3, <2>5, <3>3 DEF STypeOK
  <2> QED
    BY Zenon, <1>3, <2>4, <2>5, Connects
<1>4. ASSUME NEW s \in Session, ConnectAgain(s) PROVE PlaceOK'
  BY <1>1, <1>4, ConnectsAgain DEF STypeOK, connVars
<1>5. ASSUME NEW s \in Session, RelayEnds(s) PROVE PlaceOK'
  BY Zenon, <1>1, <1>5 DEF RelayEnds, STypeOK, fixedVars
<1>6. ASSUME NEW s \in Session, Discount(s) PROVE PlaceOK'
  BY Zenon, <1>1, <1>6 DEF Discount, STypeOK, fixedVars
<1>7. ASSUME NEW s \in Session, Disconnect(s) PROVE PlaceOK'
  BY Zenon, <1>1, <1>7 DEF Disconnect, STypeOK, SetServerConn
<1>8. ASSUME NEW s \in Session, ReleaseOwn(s) PROVE PlaceOK'
  BY Zenon, <1>1, <1>8 DEF ReleaseOwn, PlaceOK, STypeOK, fixedVars
<1>9. ASSUME NEW s \in Session, Uncount(s) PROVE PlaceOK'
  BY Zenon, <1>1, <1>9 DEF Uncount, PlaceOK, STypeOK, fixedVars
<1>10. CASE UNCHANGED vars
  BY Zenon, <1>10, StepsFixed DEF vars, connVars, fixedVars, PlaceOK, Done
<1> QED
  BY <1>2, <1>3, <1>4, <1>5, <1>6, <1>7, <1>8, <1>9, <1>10, StartupCases
\* What a step does to connections: nothing; a session takes a connection, to have it
\* in both places or beside the one it has; or it releases one.
Takes(s, c) ==
    /\ Acquire(c, InUse)
    /\ sconn[s] = pconn[s] /\ sconn' = [sconn EXCEPT ![s] = c]
    /\ \/ sconn[s] = NoConn /\ pconn' = [pconn EXCEPT ![s] = c]
       \/ UNCHANGED pconn
    /\ UNCHANGED cut

ConnStep ==
    \/ UNCHANGED <<connVars, cut>>
    \/ \E s \in Session : \/ \E c \in Conn : Takes(s, c)
                          \/ Disconnect(s)
                          \/ ReleaseOwn(s)

\* Every step is one of those.
LEMMA ConnSteps == STypeOK /\ PlaceOK /\ [Next]_vars => ConnStep
<1> SUFFICES ASSUME STypeOK, PlaceOK, [Next]_vars PROVE ConnStep
  BY Zenon
<1>1. ASSUME NEW s \in Session, InStartup(s) PROVE ConnStep
  <2>1. UNCHANGED cut
    BY Zenon, <1>1 DEF InStartup, fixedVars
  <2> QED
    BY Zenon, <1>1, <2>1, Connects DEF ConnStep, Takes
<1>2. ASSUME NEW s \in Session, ConnectAgain(s) PROVE ConnStep
  BY Zenon, <1>2, ConnectsAgain DEF ConnStep, Takes
<1>3. ASSUME NEW s \in Session, Accept(s) \/ RelayEnds(s) \/ Discount(s) \/ Uncount(s)
      PROVE  UNCHANGED <<connVars, cut>>
  BY Zenon, <1>3 DEF Accept, RelayEnds, Discount, Uncount, connVars, fixedVars
<1>4. CASE UNCHANGED vars
  BY Zenon, <1>4 DEF vars, fixedVars, ConnStep
<1> QED
  BY Zenon, <1>1, <1>2, <1>3, <1>4, StartupCases DEF ConnStep

\* Every step keeps what is handed out with a session.
LEMMA OutStep == STypeOK /\ PlaceOK /\ OutHeld /\ [Next]_vars => OutHeld'
<1> SUFFICES ASSUME STypeOK, PlaceOK, OutHeld, ConnStep PROVE OutHeld'
  BY Zenon, ConnSteps
<1>1. CASE UNCHANGED <<connVars, cut>>
  BY Zenon, <1>1 DEF connVars, poolVars, OutHeld, Holds
<1>2. ASSUME NEW s \in Session, NEW c \in Conn, Takes(s, c) PROVE OutHeld'
  <2>1. out' = out \cup {c}
    BY Zenon, <1>2 DEF Takes, Acquire
  <2>2. c \in Holds(s)'
    BY Zenon, <1>2, StrategyAssumption DEF Takes, Holds, STypeOK
  <2>3. \A t \in Session : Holds(t) \subseteq Holds(t)'
    BY Zenon, <1>2 DEF Takes, Holds, STypeOK
  <2> QED
    BY Zenon, <2>1, <2>2, <2>3 DEF OutHeld
<1>3. ASSUME NEW s \in Session, Disconnect(s) PROVE OutHeld'
  <2>1. out' = out \ {sconn[s]}
    BY Zenon, <1>3, StrategyAssumption DEF Disconnect, Release, poolVars, STypeOK
  <2>2. \A t \in Session : Holds(t) \ {sconn[s]} \subseteq Holds(t)'
    BY Zenon, <1>3 DEF Disconnect, SetServerConn, Holds, STypeOK
  <2> QED
    BY Zenon, <2>1, <2>2 DEF OutHeld
<1>4. ASSUME NEW s \in Session, ReleaseOwn(s) PROVE OutHeld'
  <2>1. out' = out \ {pconn[s]}
    BY Zenon, <1>4, StrategyAssumption DEF ReleaseOwn, Release, poolVars, STypeOK
  <2>2. \A t \in Session : Holds(t) \ {pconn[s]} \subseteq Holds(t)'
    BY Zenon, <1>4 DEF ReleaseOwn, Holds, STypeOK
  <2> QED
    BY Zenon, <2>1, <2>2 DEF OutHeld
<1> QED
  BY Zenon, <1>1, <1>2, <1>3, <1>4 DEF ConnStep

\* Every step keeps a session's connections apart from the others', as long as no
\* session has released one twice.
LEMMA AloneStep == STypeOK /\ PlaceOK /\ HeldAlone /\ [Next]_vars => HeldAlone'
<1> SUFFICES ASSUME STypeOK, PlaceOK, HeldAlone, ConnStep, cut' = {} PROVE HeldAlone'
  BY Zenon, ConnSteps DEF HeldAlone
<1>1. CASE UNCHANGED <<connVars, cut>>
  BY Zenon, <1>1 DEF connVars, poolVars, HeldAlone, Holds
<1>2. ASSUME NEW s \in Session, NEW c \in Conn, Takes(s, c) PROVE HeldAlone'
  <2>1. cut = {}
    BY Zenon, <1>2 DEF Takes
  <2>2. \A t \in Session : c \notin Holds(t)
    BY <1>2, <2>1 DEF Takes, Acquire, HeldAlone, Holds, InUse, STypeOK
  <2>3. c \notin out
    BY <1>2, <2>1 DEF Takes, Acquire, HeldAlone, STypeOK
  <2>4. out' = out \cup {c} /\ idle'[c] = 0 /\ \A d \in Conn \ {c} : idle'[d] = idle[d]
    BY <1>2, <2>1 DEF Takes, Acquire, HeldAlone, STypeOK
  <2>5. /\ Holds(s)' \subseteq Holds(s) \cup {c}
        /\ \A t \in Session \ {s} : Holds(t)' = Holds(t)
    BY Zenon, <1>2 DEF Takes, Holds, STypeOK
  <2>6. \A t \in Session : Holds(t)' \subseteq out'
    BY Zenon, <2>1, <2>4, <2>5 DEF HeldAlone
  <2>7. \A t, u \in Session : t # u => Holds(t)' \cap Holds(u)' = {}
    BY <2>1, <2>2, <2>5 DEF HeldAlone
  <2>8. \A d \in Conn : idle'[d] = 0 \/ (idle'[d] = 1 /\ d \notin out')
    BY Zenon, <2>1, <2>4 DEF HeldAlone
  <2> QED
    BY Zenon, <2>6, <2>7, <2>8 DEF HeldAlone
<1>3. ASSUME NEW s \in Session, NEW d \in Conn \cup {NoConn}, cut = {},
             d = NoConn => UNCHANGED poolVars,
             d # NoConn => Release(d) /\ d \in Holds(s),
             Holds(s)' = Holds(s) \ {d},
             \A t \in Session \ {s} : Holds(t)' = Holds(t)
      PROVE  HeldAlone'
  <2>1. CASE d = NoConn
    BY <1>3, <2>1 DEF HeldAlone, poolVars
  <2>2. CASE d # NoConn
    <3>1. out' = out \ {d} /\ d \in out /\ d \in Conn
      BY Zenon, <1>3, <2>2 DEF Release, HeldAlone
    <3>2. idle'[d] \in {0, 1} /\ \A c \in Conn \ {d} : idle'[c] = idle[c]
      BY <1>3, <2>2, <3>1 DEF Release, HeldAlone, STypeOK
    <3>3. \A t \in Session : Holds(t)' \subseteq out'
      BY <1>3, <2>2, <3>1 DEF HeldAlone
    <3>4. \A t, u \in Session : t # u => Holds(t)' \cap Holds(u)' = {}
      BY <1>3 DEF HeldAlone
    <3>5. \A c \in Conn : idle'[c] = 0 \/ (idle'[c] = 1 /\ c \notin out')
      BY Zenon, <1>3, <3>1, <3>2 DEF HeldAlone
    <3> QED
      BY Zenon, <3>3, <3>4, <3>5 DEF HeldAlone
  <2> QED
    BY Zenon, <2>1, <2>2
<1>4. ASSUME NEW s \in Session, Disconnect(s) PROVE HeldAlone'
  <2>1. cut = {} /\ (sconn[s] = NoConn \/ sconn[s] # pconn[s])
    BY Zenon, <1>4 DEF Disconnect
  <2>2. /\ Holds(s)' = Holds(s) \ {sconn[s]}
        /\ \A t \in Session \ {s} : Holds(t)' = Holds(t)
    BY Zenon, <1>4, <2>1 DEF Disconnect, SetServerConn, Holds, STypeOK
  <2>3. sconn[s] # NoConn => Release(sconn[s]) /\ sconn[s] \in Holds(s)
    BY Zenon, <1>4 DEF Disconnect, Holds
  <2> QED
    BY Zenon, <1>3, <1>4, <2>1, <2>2, <2>3 DEF Disconnect, STypeOK
<1>5. ASSUME NEW s \in Session, ReleaseOwn(s) PROVE HeldAlone'
  <2>1. cut = {} /\ sconn[s] = NoConn
    BY Zenon, <1>5 DEF ReleaseOwn, fixedVars, PlaceOK
  <2>2. /\ Holds(s)' = Holds(s) \ {pconn[s]}
        /\ \A t \in Session \ {s} : Holds(t)' = Holds(t)
    BY Zenon, <1>5, <2>1 DEF ReleaseOwn, Holds, STypeOK
  <2>3. pconn[s] # NoConn => Release(pconn[s]) /\ pconn[s] \in Holds(s)
    BY Zenon, <1>5 DEF ReleaseOwn, Holds
  <2> QED
    BY Zenon, <1>3, <1>5, <2>1, <2>2, <2>3 DEF ReleaseOwn, STypeOK
<1> QED
  BY Zenon, <1>1, <1>2, <1>4, <1>5 DEF ConnStep
----------------------------------------------------------------------------
(* How many sessions *)

FS == INSTANCE FiniteSetTheorems

\* The library's theorems are about the same finite sets and the same cardinality.
LEMMA SameSize ==
    /\ \A S : FS!IsFiniteSet(S) <=> IsFiniteSet(S)
    /\ \A S : FS!Cardinality(S) = Cardinality(S)
<1>1. \A S : FS!IsFiniteSet(S) <=> IsFiniteSet(S)
  BY Zenon DEF IsFiniteSet, FS!IsFiniteSet
<1>2. \A S : FS!Cardinality(S) = Cardinality(S)
  BY Zenon DEF Cardinality, FS!Cardinality, IsFiniteSet, FS!IsFiniteSet
<1> QED
  BY Zenon, <1>1, <1>2

\* The empty set has no elements.
LEMMA EmptySize == Cardinality({}) = 0
BY Zenon, SameSize, FS!FS_EmptySet

\* The size of a finite set is a number.
LEMMA SizeType == \A S : IsFiniteSet(S) => Cardinality(S) \in Nat
BY Zenon, SameSize, FS!FS_CardinalityType

\* A part of a finite set is finite and not larger.
LEMMA SizeOfPart ==
    \A S : IsFiniteSet(S) =>
        \A T \in SUBSET S : IsFiniteSet(T) /\ Cardinality(T) <= Cardinality(S)
<1> SUFFICES ASSUME NEW S, IsFiniteSet(S), NEW T \in SUBSET S
             PROVE  IsFiniteSet(T) /\ Cardinality(T) <= Cardinality(S)
  BY Zenon
<1>1. FS!IsFiniteSet(T) /\ FS!Cardinality(T) <= FS!Cardinality(S)
  BY Zenon, SameSize, FS!FS_Subset
<1> QED
  BY Zenon, <1>1, SameSize

\* With one more element it is larger by one.
LEMMA SizeWith ==
    \A S : IsFiniteSet(S) => \A x : x \notin S => Cardinality(S \cup {x}) = Cardinality(S) + 1
BY Zenon, SameSize, FS!FS_AddElement

\* And with one less smaller by one.
LEMMA SizeWithout ==
    \A S : IsFiniteSet(S) =>
        \A x : Cardinality(S \ {x}) = IF x \in S THEN Cardinality(S) - 1 ELSE Cardinality(S)
BY SameSize, FS!FS_RemoveElement

----------------------------------------------------------------------------
(* The client counter *)

\* Every step keeps the counter.
LEMMA CountStep == STypeOK /\ CountOK /\ [Next]_vars => CountOK'
<1> SUFFICES ASSUME STypeOK, CountOK, [Next]_vars PROVE CountOK'
  BY Zenon
<1>1. IsFiniteSet(Handled)
  BY Zenon, SizeOfPart, StartupAssumption DEF Handled
<1>0. clientCount \in Nat /\ cfg.maxClients \in Nat
  BY Zenon, <1>1, SizeType DEF CountOK, STypeOK
<1>2. ASSUME Handled' = Handled, clientCount' = clientCount, cfg' = cfg PROVE CountOK'
  BY Zenon, <1>2 DEF CountOK
<1>3. ASSUME NEW s \in Session, Accept(s) PROVE CountOK'
  <2>1. CASE clientCount < cfg.maxClients
    <3>0. ~(clientCount >= cfg.maxClients)
      BY <1>0, <2>1
    <3>1. Handled' = Handled \cup {s} /\ s \notin Handled
      BY Zenon, <1>3, <3>0 DEF Accept, Handled, STypeOK
    <3>2. Cardinality(Handled') = Cardinality(Handled) + 1
      BY Zenon, <3>1, <1>1, SizeWith
    <3>3. clientCount' = clientCount + 1 /\ cfg' = cfg
      BY Zenon, <1>3, <3>0 DEF Accept, fixedVars
    <3>4. clientCount' = Cardinality(Handled')
      BY Zenon, <3>2, <3>3 DEF CountOK
    <3>5. clientCount + 1 <= cfg.maxClients
      BY <1>0, <2>1
    <3> QED
      BY Zenon, <3>3, <3>4, <3>5 DEF CountOK
  <2>2. CASE ~(clientCount < cfg.maxClients)
    BY Zenon, <1>2, <1>3, <2>2 DEF Accept, Handled, STypeOK, fixedVars
  <2> QED
    BY Zenon, <2>1, <2>2
<1>4. ASSUME NEW s \in Session, InStartup(s) PROVE CountOK'
  <2>1. Handled' = Handled
    BY Zenon, <1>4, MovesTo DEF InStartup, Handled, STypeOK
  <2> QED
    BY Zenon, <1>2, <1>4, <2>1 DEF InStartup, fixedVars
<1>5. ASSUME NEW s \in Session, ConnectAgain(s) PROVE CountOK'
  BY Zenon, <1>2, <1>5 DEF ConnectAgain, Handled, STypeOK, fixedVars, countVars
<1>6. ASSUME NEW s \in Session, RelayEnds(s) PROVE CountOK'
  BY Zenon, <1>2, <1>6 DEF RelayEnds, Handled, STypeOK, fixedVars, countVars
<1>7. ASSUME NEW s \in Session, Discount(s) PROVE CountOK'
  BY Zenon, <1>2, <1>7 DEF Discount, Handled, STypeOK, fixedVars
<1>8. ASSUME NEW s \in Session, Disconnect(s) PROVE CountOK'
  BY Zenon, <1>2, <1>8 DEF Disconnect, Handled, STypeOK, countVars
<1>9. ASSUME NEW s \in Session, ReleaseOwn(s) PROVE CountOK'
  BY ZenonT(30), <1>2, <1>9 DEF ReleaseOwn, Handled, STypeOK, fixedVars, countVars
<1>10. ASSUME NEW s \in Session, Uncount(s) PROVE CountOK'
  <2>1. Handled' = Handled \ {s} /\ s \in Handled
    BY Zenon, <1>10 DEF Uncount, Handled, STypeOK
  <2>2. Cardinality(Handled') = Cardinality(Handled) - 1
    BY ZenonT(30), <2>1, <1>1, SizeWithout
  <2>3. clientCount' = clientCount - 1 /\ cfg' = cfg
    BY Zenon, <1>10 DEF Uncount, fixedVars
  <2>4. clientCount - 1 <= cfg.maxClients
    BY <1>0 DEF CountOK
  <2> QED
    BY Zenon, <2>2, <2>3, <2>4 DEF CountOK
<1>11. CASE UNCHANGED vars
  BY Zenon, <1>11 DEF vars, countVars, fixedVars, CountOK, Handled
<1> QED
  BY ZenonT(30), <1>3, <1>4, <1>5, <1>6, <1>7, <1>8, <1>9, <1>10, <1>11, StartupCases

----------------------------------------------------------------------------
(* The users' counters *)

\* A counted session has read its name, and stays counted while its start-up goes on.
LEMMA CountedGrows ==
    ASSUME STypeOK, cfg.body # "mysql", NEW s \in Session, InStartup(s), NEW u
    PROVE  CountedFor(u) \subseteq CountedFor(u)'
<1> SUFFICES ASSUME NEW t \in Session, t \in CountedFor(u) PROVE t \in CountedFor(u)'
  BY Zenon DEF CountedFor
<1>1. Moves(s) /\ Names(s)
  BY Zenon DEF InStartup
<1>2. Done(t, "count")'
  BY Zenon, DoneGrows DEF CountedFor
<1>3. pc'[t] \in {"startup", "started", "relay", "discount"}
  BY Zenon, <1>1, MovesTo DEF CountedFor, STypeOK
<1>4. user'[t] = user[t]
  <2>1. CASE t # s
    BY Zenon, <1>1, <2>1 DEF Names, STypeOK
  <2>2. CASE t = s
    <3>1. ~At(s, "read")
      BY Zenon, <2>2, CountedHasRead DEF CountedFor
    <3>2. ~At(s, "reread")
      BY Zenon, NoReread DEF STypeOK
    <3> QED
      BY ZenonT(30), <1>1, <2>2, <3>1, <3>2 DEF Names
  <2> QED
    BY Zenon, <2>1, <2>2
<1> QED
  BY Zenon, <1>2, <1>3, <1>4 DEF CountedFor

\* Every step keeps a user's counter within the sessions counted for the user.
LEMMA UserStep == STypeOK /\ NeverLockedOut /\ [Next]_vars => NeverLockedOut'
<1> SUFFICES ASSUME STypeOK, NeverLockedOut, [Next]_vars, cfg'.body # "mysql"
             PROVE  \A u \in DOMAIN userCount' : userCount'[u] <= Cardinality(CountedFor(u)')
  BY Zenon DEF NeverLockedOut
<1>1. cfg' = cfg
  BY Zenon, StartupCases DEF Accept, InStartup, ConnectAgain, RelayEnds, Discount, Disconnect,
                      ReleaseOwn, Uncount, fixedVars, vars
<1>2. \A u : /\ IsFiniteSet(CountedFor(u)) /\ Cardinality(CountedFor(u)) \in Nat
             /\ IsFiniteSet(CountedFor(u)') /\ Cardinality(CountedFor(u)') \in Nat
  <2>1. \A u : CountedFor(u) \subseteq Session /\ CountedFor(u)' \subseteq Session
    BY Zenon DEF CountedFor
  <2> QED
    BY Zenon, <2>1, SizeOfPart, SizeType, StartupAssumption
<1>3. \A u \in DOMAIN userCount : userCount[u] \in Int /\ userCount[u] <= Cardinality(CountedFor(u))
  BY Zenon, <1>1 DEF NeverLockedOut, STypeOK
<1>4. ASSUME userCount' = userCount, \A u : CountedFor(u) \subseteq CountedFor(u)'
      PROVE  \A u \in DOMAIN userCount' : userCount'[u] <= Cardinality(CountedFor(u)')
  <2>1. \A u : Cardinality(CountedFor(u)) <= Cardinality(CountedFor(u)')
    BY Zenon, <1>2, <1>4, SizeOfPart
  <2> QED
    BY Zenon, <1>2, <1>3, <1>4, <2>1, AtMostLarger
<1>5. ASSUME NEW s \in Session, CountUser(s), InStartup(s)
      PROVE  \A u \in DOMAIN userCount' : userCount'[u] <= Cardinality(CountedFor(u)')
  <2>0. PICK v : v = user[s]
    BY Zenon
  <2>1. \A u : CountedFor(u) \subseteq CountedFor(u)'
    BY Zenon, <1>1, <1>5, CountedGrows
  <2>2. \A u : Cardinality(CountedFor(u)) <= Cardinality(CountedFor(u)')
    BY Zenon, <1>2, <2>1, SizeOfPart
  <2>3. CASE userCount' = userCount
    BY Zenon, <1>4, <2>1, <2>3
  <2>4. Count(v) \in Int /\ Count(v) <= Cardinality(CountedFor(v))
    BY <1>2, <1>3 DEF Count
  <2>5. CASE SetCount(v, Count(v))
    <3>1. \A u \in DOMAIN userCount' :
              userCount'[u] \in Int /\ userCount'[u] <= Cardinality(CountedFor(u))
      BY Zenon, <1>3, <2>4, <2>5 DEF SetCount
    <3> QED
      BY Zenon, <1>2, <2>2, <3>1, AtMostLarger
  <2>6. CASE SetCount(v, Count(v) + 1) /\ Advance(s)
    <3>1. At(s, "count") /\ user' = user
      BY ZenonT(30), <1>5 DEF CountUser
    <3>2. ~Done(s, "count") /\ (at'[s] = at[s] + 1 => Done(s, "count")')
      BY Zenon, <1>1, <3>1, CountsOnce
    <3>3. s \notin CountedFor(v)
      BY Zenon, <3>2 DEF CountedFor
    <3>4. s \in CountedFor(v)'
      <4>1. at'[s] = at[s] + 1 /\ pc'[s] \in {"startup", "started"}
        BY Zenon, <2>6 DEF Advance, STypeOK
      <4> QED
        BY Zenon, <2>0, <3>1, <3>2, <4>1 DEF CountedFor
    <3>5. Cardinality(CountedFor(v) \cup {s}) = Cardinality(CountedFor(v)) + 1
      BY ZenonT(30), <1>2, <3>3, SizeWith
    <3>6. Cardinality(CountedFor(v) \cup {s}) <= Cardinality(CountedFor(v)')
      <4>1. CountedFor(v) \cup {s} \subseteq CountedFor(v)'
        BY Zenon, <2>1, <3>4
      <4> QED
        BY Zenon, <1>2, <4>1, SizeOfPart
    <3>7. Count(v) + 1 <= Cardinality(CountedFor(v)')
      BY <1>2, <2>4, <3>5, <3>6
    <3>8. userCount'[v] = Count(v) + 1
      BY Zenon, <2>6 DEF SetCount
    <3>9. \A u \in DOMAIN userCount' : u # v => u \in DOMAIN userCount /\ userCount'[u] = userCount[u]
      BY Zenon, <2>6 DEF SetCount
    <3> QED
      BY Zenon, <1>2, <1>3, <2>2, <3>7, <3>8, <3>9, AtMostLarger
  <2> QED
    BY ZenonT(30), <1>5, <2>0, <2>3, <2>5, <2>6 DEF CountUser
<1>6. ASSUME NEW s \in Session, InStartup(s)
      PROVE  \A u \in DOMAIN userCount' : userCount'[u] <= Cardinality(CountedFor(u)')
  BY ZenonT(30), <1>1, <1>4, <1>5, <1>6, CountedGrows DEF InStartup
<1>7. ASSUME NEW s \in Session, Discount(s)
      PROVE  \A u \in DOMAIN userCount' : userCount'[u] <= Cardinality(CountedFor(u)')
  <2>0. PICK v : v = user[s]
    BY Zenon
  <2>1. \A t \in Session : \A x : Done(t, x)' = Done(t, x)
    BY Zenon, <1>1, <1>7, DoneFixed DEF Discount
  <2>2. \A u : CountedFor(u)' = CountedFor(u) \ {s}
    BY Zenon, <1>7, <2>1 DEF Discount, CountedFor, STypeOK
  <2>3. \A u : u # v => CountedFor(u)' = CountedFor(u)
    BY Zenon, <2>0, <2>2 DEF CountedFor
  <2>4. Cardinality(CountedFor(v)') >= Cardinality(CountedFor(v)) - 1
    BY <1>2, <2>2, SizeWithout
  <2>5. CASE v \in DOMAIN userCount
    <3>1. SetCount(v, userCount[v] - 1)
      BY Zenon, <1>7, <2>0, <2>5 DEF Discount
    <3>2. userCount'[v] = userCount[v] - 1
      BY ZenonT(30), <3>1 DEF SetCount
    <3>3. userCount'[v] <= Cardinality(CountedFor(v)')
      BY <1>2, <1>3, <2>4, <2>5, <3>2
    <3>4. \A u \in DOMAIN userCount' : u # v => u \in DOMAIN userCount /\ userCount'[u] = userCount[u]
      BY Zenon, <3>1 DEF SetCount
    <3> QED
      BY Zenon, <1>3, <2>3, <3>3, <3>4
  <2>6. CASE v \notin DOMAIN userCount
    BY ZenonT(30), <1>3, <1>7, <2>0, <2>3, <2>6 DEF Discount
  <2> QED
    BY Zenon, <2>5, <2>6
<1>8. ASSUME NEW s \in Session, \/ Accept(s) \/ ConnectAgain(s) \/ RelayEnds(s)
                              \/ Disconnect(s) \/ ReleaseOwn(s)
      PROVE  userCount' = userCount /\ \A u : CountedFor(u) \subseteq CountedFor(u)'
  <2>1. /\ at' = at /\ user' = user /\ userCount' = userCount
        /\ \A t \in Session : pc[t] \in {"startup", "started", "relay", "discount"}
                               => pc'[t] \in {"startup", "started", "relay", "discount"}
    BY Zenon, <1>8 DEF Accept, ConnectAgain, RelayEnds, Disconnect, ReleaseOwn, countVars, STypeOK
  <2>2. \A t \in Session : \A x : Done(t, x)' = Done(t, x)
    BY ZenonT(30), <1>1, <2>1, DoneFixed
  <2> QED
    BY Zenon, <2>1, <2>2 DEF CountedFor
<1>9. ASSUME NEW s \in Session, Uncount(s)
      PROVE  userCount' = userCount /\ \A u : CountedFor(u) \subseteq CountedFor(u)'
  <2>1. \A t \in Session \ {s} : pc'[t] = pc[t] /\ at'[t] = at[t] /\ user'[t] = user[t]
    BY Zenon, <1>9 DEF Uncount, STypeOK
  <2>2. \A t \in Session \ {s} : \A x : Done(t, x)' = Done(t, x)
    BY ZenonT(30), <1>1, <2>1, DoneFixed
  <2>3. pc[s] = "uncount" /\ userCount' = userCount
    BY Zenon, <1>9 DEF Uncount
  <2>4. \A u : s \notin CountedFor(u)
    BY Zenon, <2>3 DEF CountedFor
  <2>5. ASSUME NEW u, NEW t \in Session, t \in CountedFor(u) PROVE t \in CountedFor(u)'
    <3>1. t \in Session \ {s}
      BY Zenon, <2>4, <2>5
    <3>2. pc'[t] = pc[t] /\ user'[t] = user[t] /\ Done(t, "count")' = Done(t, "count")
      BY Zenon, <2>1, <2>2, <3>1
    <3> QED
      BY Zenon, <2>5, <3>2 DEF CountedFor
  <2> QED
    BY Zenon, <2>3, <2>5 DEF CountedFor
<1>10. CASE UNCHANGED vars
  <2>1. at' = at /\ user' = user /\ pc' = pc /\ userCount' = userCount
    BY Zenon, <1>10 DEF vars, countVars
  <2>2. \A t \in Session : Done(t, "count")' = Done(t, "count")
    BY Zenon, <1>1, <2>1, DoneFixed
  <2>3. \A u : CountedFor(u)' = CountedFor(u)
    BY Zenon, <2>1, <2>2 DEF CountedFor
  <2> QED
    BY Zenon, <1>4, <2>1, <2>3
<1> QED
  BY ZenonT(30), <1>4, <1>6, <1>7, <1>8, <1>9, <1>10, StartupCases
----------------------------------------------------------------------------
(* The theorems *)

StartupInv == STypeOK /\ CountOK /\ PlaceOK /\ OutHeld /\ HeldAlone /\ NeverLockedOut

\* The invariant holds of every behaviour.
THEOREM StartupInvariant == Spec => []StartupInv
<1>1. Init => StartupInv
  <2> SUFFICES ASSUME Init PROVE StartupInv
    BY Zenon
  <2>1. STypeOK
    <3>1. cfg.maxClients \in Nat
      BY Zenon, StartupAssumption DEF Init, Config
    <3>2. userCount \in [DOMAIN userCount -> Int]
      BY Zenon DEF Init
    <3>3. pc \in [Session -> PC] /\ at \in [Session -> Nat \ {0}]
      BY DEF Init, PC
    <3> QED
      BY Zenon, <3>1, <3>2, <3>3 DEF Init, InitStrategy, STypeOK
  <2>2. CountOK
    <3>1. Handled = {} /\ clientCount = 0
      BY Zenon DEF Init, Handled
    <3>2. cfg.maxClients \in Nat
      BY Zenon, <2>1 DEF STypeOK
    <3>3. 0 <= cfg.maxClients
      BY <3>2
    <3> QED
      BY Zenon, <3>1, <3>3, EmptySize DEF CountOK
  <2>3. PlaceOK /\ OutHeld /\ NeverLockedOut
    BY Zenon DEF Init, InitStrategy, PlaceOK, OutHeld, NeverLockedOut
  <2>4. HeldAlone
    BY Zenon DEF Init, InitStrategy, HeldAlone, Holds
  <2> QED
    BY ZenonT(30), <2>1, <2>2, <2>3, <2>4 DEF StartupInv
<1>2. StartupInv /\ [Next]_vars => StartupInv'
  BY ZenonT(30), STypeStep, CountStep, PlaceStep, OutStep, AloneStep, UserStep DEF StartupInv
<1> QED
  BY <1>1, <1>2, PTL DEF Spec

\* Whatever way a session ends it gives back what it took: the client counter is the
\* number of connections being handled, within the limit, and every server connection
\* handed out belongs to a session that has yet to release it.
THEOREM StartupNothingLeaked == Spec => []NothingLeaked
<1>1. StartupInv => NothingLeaked
  BY ZenonT(30) DEF StartupInv, CountOK, Handled, OutHeld, NothingLeaked
<1> QED
  BY <1>1, StartupInvariant, PTL

\* No start-up of PostgreSQL or MSSQL leaves a user's counter above the number of that
\* user's sessions.
THEOREM StartupNeverLockedOut == Spec => []NeverLockedOut
<1>1. StartupInv => NeverLockedOut
  BY Zenon DEF StartupInv
<1> QED
  BY <1>1, StartupInvariant, PTL

\* A session's connections are its own until it ends, unless some session has
\* released one connection twice.
THEOREM StartupDedicated == Spec => []DedicatedUnlessCut
<1>1. StartupInv => DedicatedUnlessCut
  <2> SUFFICES ASSUME StartupInv, cut = {}, NEW s \in Session, NEW c \in Holds(s)
               PROVE  idle[c] = 0 /\ \A t \in Session \ {s} : c \notin Holds(t)
    BY Zenon DEF DedicatedUnlessCut, DedicatedConn
  <2>1. c \in Conn /\ c \in out
    BY Zenon DEF StartupInv, STypeOK, Holds, HeldAlone
  <2> QED
    BY Zenon, <2>1 DEF StartupInv, HeldAlone
<1> QED
  BY <1>1, StartupInvariant, PTL
=============================================================================
