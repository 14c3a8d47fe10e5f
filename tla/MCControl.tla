----------------------------- MODULE MCControl -----------------------------
(***************************************************************************)
(* The control plane for TLC: the cluster coordinator and hot reload.      *)
(* They share no state, so that a behaviour is of one of them: which says  *)
(* of which.                                                               *)
(***************************************************************************)
EXTENDS Coordinator, Reload

CONSTANTS a, b     \* pools

VARIABLE which

vars == <<coordVars, reloadVars, which>>

\* 1 is the first configuration; 2 adds a pool, so that going back removes it; 3 adds
\* it too, before it changes the address of the other, which only UpdateConfig finds,
\* and has another port than 2; 4 is not valid.
MCPoolsOf == [v \in Version |-> CASE v = 2 -> <<a, b>> [] v = 3 -> <<b, a>> [] OTHER -> <<a>>]
MCUnsafe == {<<2, 3>>}
MCRefused == {<<a, 3>>}

MCInit ==
    /\ CoordInit /\ ReloadInit
    /\ which \in {"coordinator", "reload"}

\* A behaviour of the reload ends where nothing is left to check: no further call will
\* start, what is mixed stays so, and of the file nothing is said.
Over ==
    /\ changes = MaxChanges /\ calls = MaxCalls /\ watch \in {"tick", "reloading"} /\ lastHash = file
    /\ mixed /\ alone = Nobody /\ (own \/ excuse # {})

\* A step of one component.
C(A) == which = "coordinator" /\ A /\ UNCHANGED <<reloadVars, which>>
R(A) == which = "reload" /\ ~Over /\ A /\ UNCHANGED <<coordVars, which>>

MCNext == C(CoordNext) \/ R(ReloadNext)

\* CoordFairness and ReloadFairness.
MCFairness ==
    /\ WF_vars(C(MonitorLeader)) /\ WF_vars(C(RunSend)) /\ WF_vars(C(HandleCommand))
    /\ SF_vars(C(HandleEvent)) /\ SF_vars(C(HandleSWIMEvent)) /\ SF_vars(C(TakeCommand))
    /\ WF_vars(R(MarkWrite)) /\ WF_vars(R(MarkExpires)) /\ WF_vars(R(WatchStart))
    /\ WF_vars(R(WatchCheck)) /\ WF_vars(R(WatchLoad)) /\ WF_vars(R(ReloadStart(Watcher)))
    /\ \A c \in Caller \cup {Watcher} : WF_vars(R(ReloadStep(c)))

MCSpec == MCInit /\ [][MCNext]_vars /\ MCFairness
=============================================================================
