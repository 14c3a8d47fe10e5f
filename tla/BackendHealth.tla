---------------------------- MODULE BackendHealth ----------------------------
(***************************************************************************)
(* Backends of a pool, their health and circuit breakers (health.go), and  *)
(* how dials and operators of the pool use and change them (pool.go).      *)
(*                                                                         *)
(* Two goroutine families write the same flags without a common lock: the  *)
(* health checker, and every createServerConn.  Backend.Healthy is what    *)
(* selection reads; BackendHealth.Status is what the checker compares.     *)
(*                                                                         *)
(* A Backend object and its BackendHealth live as long as the address is   *)
(* listed.  A dial or a check that still points to the object of a backend *)
(* removed meanwhile is marked old: what it stores in that object is never *)
(* seen, but dials look the BackendHealth up by address.                   *)
(***************************************************************************)
EXTENDS Integers, Sequences, Functions

CONSTANTS
    HostOrder,    \* the backend addresses, in the order of the configuration
    Role,         \* address -> "primary" or "replica"
    Dialer,       \* goroutines in createServerConn or createServerConnToRole
    Threshold,    \* failures in a row that open the circuit (5)
    MaxFailures,  \* failures in a row that make a backend unhealthy
    MaxRetries,   \* attempts of createServerConn (3)
    Commands,     \* bound: which events happen (see Event)
    MaxEvents     \* bound: how many outages, recoveries and operator commands

Backend == Range(HostOrder)

ASSUME HealthAssumption ==
    /\ Role \in [Backend -> {"primary", "replica"}]
    /\ {Threshold, MaxFailures, MaxRetries} \subseteq Nat \ {0}
    /\ Commands \subseteq {"drain", "cancel", "remove", "add", "reload", "outage"}
    /\ MaxEvents \in Nat

VARIABLES
    list,       \* Pool.backends
    healthy,    \* Backend.Healthy
    draining,   \* Backend.Draining
    status,     \* BackendHealth.Status
    fails,      \* BackendHealth.ConsecutiveFailures, saturated where it matters
    circuit,    \* BackendHealth.circuitState
    check,      \* per backend: the check of this round
    dial,       \* per dialer: where it is, for which role, its attempt and target
    server,     \* the database: "down", "mute" (accepts connections, but the
                \* check query is not answered) or "up"
    events

backendVars == <<list, draining>>
healthVars == <<healthy, status, fails, circuit>>
hvars == <<backendVars, healthVars, check, dial, server, events>>

Listed == Range(list)
NoDial == [at |-> "out", role |-> "any", attempt |-> 0, to |-> HostOrder[1], old |-> FALSE]

\* Comparisons are with Threshold and MaxFailures only.
Cap == IF Threshold > MaxFailures THEN Threshold ELSE MaxFailures
OneMore(n) == IF n < Cap THEN n + 1 ELSE n

HealthInit ==
    /\ list = HostOrder
    /\ healthy = [b \in Backend |-> TRUE]
    /\ draining = [b \in Backend |-> FALSE]
    /\ status = [b \in Backend |-> "unknown"]
    /\ fails = [b \in Backend |-> 0]
    /\ circuit = [b \in Backend |-> "closed"]
    /\ check = [b \in Backend |-> "idle"]
    /\ dial = [d \in Dialer |-> NoDial]
    /\ server = [b \in Backend |-> "up"]
    /\ events = 0

----------------------------------------------------------------------------
(* Selection *)

\* Mutant: selection forgets Draining.
eligibleDraining(b) == healthy[b] /\ circuit[b] # "open"

\* Healthy, not draining and isCircuitOpen false.
eligible(b) == healthy[b] /\ ~draining[b] /\ circuit[b] # "open"

\* Eligible members of S in list order; the primary is the last one listed.
Eligible(S) == SelectSeq(list, LAMBDA b : b \in S /\ eligible(b))
WithRole(r) == {b \in Listed : Role[b] = r}
Primary == LET ps == SelectSeq(list, LAMBDA b : Role[b] = "primary")
           IN  IF ps = <<>> THEN {} ELSE {ps[Len(ps)]}

\* selectBackendWithFallback ("any") and selectBackendByRole: the first choice of
\* backends that has an eligible member.
Preference(role) ==
    IF role = "replica" THEN <<WithRole("replica"), Primary, Listed>>
    ELSE IF role = "primary" THEN <<Primary, Listed>>
    ELSE <<Primary, WithRole("replica"), Listed>>

Selectable(role) == SelectSeq(Preference(role), LAMBDA S : Eligible(S) # <<>>)

----------------------------------------------------------------------------
(* createServerConn: one attempt after the other *)

Moves(d, at) == dial' = [dial EXCEPT ![d].at = at]

\* The next attempt, or the end of the call.
NextAttempt(d) ==
    dial' = [dial EXCEPT ![d] = IF @.attempt + 1 < MaxRetries
                                THEN [@ EXCEPT !.at = "select", !.attempt = @ + 1]
                                ELSE NoDial]

StartDial(d, role) ==
    /\ dial[d].at = "out"
    /\ dial' = [dial EXCEPT ![d] = [NoDial EXCEPT !.at = "select", !.role = role]]
    /\ UNCHANGED <<backendVars, healthVars, check, server, events>>

SelectBackend(d) ==
    /\ dial[d].at = "select"
    /\ LET choices == Selectable(dial[d].role)
       IN  IF choices = <<>> THEN dial' = [dial EXCEPT ![d] = NoDial]
           ELSE dial' = [dial EXCEPT ![d].at = "circuit", ![d].old = FALSE,
                                     ![d].to = Head(Eligible(Head(choices)))]
    /\ UNCHANGED <<backendVars, healthVars, check, server, events>>

\* The second look at the circuit, by address: an open one skips the attempt.
CheckCircuit(d) ==
    /\ dial[d].at = "circuit"
    /\ IF dial[d].to \in Listed /\ circuit[dial[d].to] = "open"
       THEN NextAttempt(d) ELSE Moves(d, "connect")
    /\ UNCHANGED <<backendVars, healthVars, check, server, events>>

\* tryConnect: a connection stores Healthy in the object it was given.
tryConnect(d) ==
    LET b == dial[d].to IN
    /\ dial[d].at = "connect"
    /\ IF server[b] # "down"
       THEN /\ healthy' = [healthy EXCEPT ![b] = @ \/ ~dial[d].old]
            /\ Moves(d, "success")
       ELSE UNCHANGED healthy /\ Moves(d, "failure")
    /\ UNCHANGED <<backendVars, status, fails, circuit, check, server, events>>

\* Mutant: RecordSuccess forgets the status.
RecordSuccessKeepsStatus(d) ==
    LET b == dial[d].to IN
    /\ dial[d].at = "success"
    /\ IF b \in Listed THEN /\ fails' = [fails EXCEPT ![b] = 0]
                            /\ circuit' = [circuit EXCEPT ![b] = "closed"]
       ELSE UNCHANGED <<fails, circuit>>
    /\ dial' = [dial EXCEPT ![d] = NoDial]
    /\ UNCHANGED <<backendVars, healthy, status, check, server, events>>

\* recordBackendSuccess, RecordSuccess
RecordSuccess(d) ==
    LET b == dial[d].to IN
    /\ dial[d].at = "success"
    /\ IF b \in Listed THEN /\ fails' = [fails EXCEPT ![b] = 0]
                            /\ status' = [status EXCEPT ![b] = "healthy"]
                            /\ circuit' = [circuit EXCEPT ![b] = "closed"]
       ELSE UNCHANGED <<fails, status, circuit>>
    /\ dial' = [dial EXCEPT ![d] = NoDial]
    /\ UNCHANGED <<backendVars, healthy, check, server, events>>

\* recordBackendFailure, RecordFailure
RecordFailure(d) ==
    LET b == dial[d].to
        n == OneMore(fails[b])
    IN
    /\ dial[d].at = "failure"
    /\ IF b \in Listed
       THEN /\ fails' = [fails EXCEPT ![b] = n]
            /\ circuit' = [circuit EXCEPT ![b] =
                              IF @ = "halfOpen" \/ n >= Threshold THEN "open" ELSE @]
            /\ status' = [status EXCEPT ![b] =
                              IF circuit[b] # "halfOpen" /\ n >= Threshold
                              THEN "unhealthy" ELSE @]
       ELSE UNCHANGED <<fails, status, circuit>>
    /\ Moves(d, "mark")
    /\ UNCHANGED <<backendVars, healthy, check, server, events>>

\* "Mark backend as unhealthy temporarily", sleep, and try again.
MarkUnhealthy(d) ==
    LET b == dial[d].to IN
    /\ dial[d].at = "mark"
    /\ healthy' = [healthy EXCEPT ![b] = @ /\ dial[d].old]
    /\ NextAttempt(d)
    /\ UNCHANGED <<backendVars, status, fails, circuit, check, server, events>>

----------------------------------------------------------------------------
(* The health checker *)

\* runChecks starts a round; the next one waits for every check of this one.
runChecks ==
    /\ \A b \in Backend : check[b] = "idle"
    /\ list # <<>>
    /\ check' = [b \in Backend |-> IF b \in Listed THEN "todo" ELSE "idle"]
    /\ UNCHANGED <<backendVars, healthVars, dial, server, events>>

performCheck(b) ==
    /\ check[b] = "todo"
    /\ check' = [check EXCEPT ![b] = IF server[b] = "up" THEN "ok" ELSE "error"]
    /\ UNCHANGED <<backendVars, healthVars, dial, server, events>>

\* Mutant: a degraded backend is not restored.
checkBackendDegraded(b) ==
    /\ check[b] \in {"ok", "error", "old"}
    /\ check' = [check EXCEPT ![b] = "idle"]
    /\ \/ /\ check[b] = "ok"
          /\ fails' = [fails EXCEPT ![b] = 0]
          /\ IF status[b] \in {"healthy", "degraded"} THEN UNCHANGED <<status, healthy>>
             ELSE /\ status' = [status EXCEPT ![b] = "healthy"]
                  /\ healthy' = [healthy EXCEPT ![b] = TRUE]
       \/ /\ check[b] = "error"
          /\ fails' = [fails EXCEPT ![b] = OneMore(@)]
          /\ status' = [status EXCEPT ![b] = IF fails'[b] >= MaxFailures
                                             THEN "unhealthy" ELSE "degraded"]
          /\ healthy' = [healthy EXCEPT ![b] = @ /\ ~(fails'[b] >= MaxFailures
                                                       /\ status[b] # "unhealthy")]
       \/ check[b] = "old" /\ UNCHANGED <<fails, status, healthy>>
    /\ UNCHANGED <<backendVars, circuit, dial, server, events>>

\* checkBackend applies its result; Healthy is stored only when Status changes.
\* The result of a check of a removed backend goes to its old object.
checkBackend(b) ==
    /\ check[b] \in {"ok", "error", "old"}
    /\ check' = [check EXCEPT ![b] = "idle"]
    /\ \/ /\ check[b] = "ok"
          /\ fails' = [fails EXCEPT ![b] = 0]
          /\ status' = [status EXCEPT ![b] = "healthy"]
          /\ healthy' = [healthy EXCEPT ![b] = @ \/ status[b] # "healthy"]
       \/ /\ check[b] = "error"
          /\ fails' = [fails EXCEPT ![b] = OneMore(@)]
          /\ status' = [status EXCEPT ![b] = IF fails'[b] >= MaxFailures
                                             THEN "unhealthy" ELSE "degraded"]
          /\ healthy' = [healthy EXCEPT ![b] = @ /\ ~(fails'[b] >= MaxFailures
                                                       /\ status[b] # "unhealthy")]
       \/ check[b] = "old" /\ UNCHANGED <<fails, status, healthy>>
    /\ UNCHANGED <<backendVars, circuit, dial, server, events>>

----------------------------------------------------------------------------
(* Operators and configuration *)

\* Bound: one more event.
Event(command) == /\ command \in Commands
                  /\ events < MaxEvents
                  /\ events' = events + 1

DrainBackend(b) ==
    /\ Event("drain")
    /\ b \in Listed /\ ~draining[b]
    /\ draining' = [draining EXCEPT ![b] = TRUE]
    /\ healthy' = [healthy EXCEPT ![b] = FALSE]
    /\ UNCHANGED <<list, status, fails, circuit, check, dial, server>>

CancelDrain(b) ==
    /\ Event("cancel")
    /\ b \in Listed /\ draining[b]
    /\ draining' = [draining EXCEPT ![b] = FALSE]
    /\ healthy' = [healthy EXCEPT ![b] = TRUE]
    /\ UNCHANGED <<list, status, fails, circuit, check, dial, server>>

\* The objects of the backends in S are dropped, and for those in T new ones
\* made, with the given Healthy.
Renew(S, T, ok) ==
    /\ healthy' = [b \in Backend |-> IF b \in T THEN ok ELSE healthy[b]]
    /\ draining' = [b \in Backend |-> b \notin T /\ draining[b]]
    /\ status' = [b \in Backend |-> IF b \in T THEN "unknown" ELSE status[b]]
    /\ fails' = [b \in Backend |-> IF b \in T THEN 0 ELSE fails[b]]
    /\ circuit' = [b \in Backend |-> IF b \in T THEN "closed" ELSE circuit[b]]
    /\ check' = [b \in Backend |-> IF b \in S /\ check[b] # "idle" THEN "old" ELSE check[b]]
    /\ dial' = [d \in Dialer |-> IF dial[d].to \in S /\ dial[d].at \notin {"out", "select"}
                                 THEN [dial[d] EXCEPT !.old = TRUE]
                                 ELSE dial[d]]
    /\ UNCHANGED server

\* RemoveBackend, when no connection to b is active.
RemoveBackend(b) ==
    /\ Event("remove")
    /\ b \in Listed
    /\ list' = SelectSeq(list, LAMBDA a : a # b)
    /\ Renew({b}, {}, TRUE)

AddBackend(b) ==
    /\ Event("add")
    /\ b \notin Listed
    /\ list' = Append(list, b)
    /\ Renew({}, {b}, TRUE)

\* updateBackends: hosts S after a reload; a new backend starts unhealthy.
updateBackends(S) ==
    /\ Event("reload")
    /\ list' = SelectSeq(list, LAMBDA b : b \in S)
               \o SelectSeq(HostOrder, LAMBDA b : b \in S \ Listed)
    /\ Renew(Listed \ S, S \ Listed, FALSE)

\* The database goes down, stops answering, or comes back.
Outage(b, now) ==
    /\ Event("outage")
    /\ server[b] # now
    /\ server' = [server EXCEPT ![b] = now]
    /\ UNCHANGED <<backendVars, healthVars, check, dial>>

----------------------------------------------------------------------------
DialStep(d) == \/ SelectBackend(d) \/ CheckCircuit(d) \/ tryConnect(d)
               \/ RecordSuccess(d) \/ RecordFailure(d) \/ MarkUnhealthy(d)
CheckStep(b) == performCheck(b) \/ checkBackend(b)

HealthNext ==
    \/ \E d \in Dialer, r \in {"any", "primary", "replica"} : StartDial(d, r)
    \/ \E d \in Dialer : DialStep(d)
    \/ runChecks
    \/ \E b \in Backend : CheckStep(b)
    \/ \E b \in Backend : \/ DrainBackend(b) \/ CancelDrain(b) \/ RemoveBackend(b)
                          \/ AddBackend(b)
    \/ \E b \in Backend, now \in {"down", "mute", "up"} : Outage(b, now)
    \/ \E S \in SUBSET Backend \ {{}} : updateBackends(S)

\* The ticker of checkLoop keeps firing, checks and dials have time-outs; nothing
\* is assumed of when dials begin or of operators.
HealthFairness ==
    /\ WF_hvars(runChecks)
    /\ \A b \in Backend : WF_hvars(CheckStep(b))
    /\ \A d \in Dialer : WF_hvars(DialStep(d))

HealthSpec == HealthInit /\ [][HealthNext]_hvars /\ HealthFairness

----------------------------------------------------------------------------
(* Properties *)

\* Type invariant; an address is listed at most once.
HealthTypeOK ==
    /\ Listed \subseteq Backend /\ IsInjective(list)
    /\ healthy \in [Backend -> BOOLEAN] /\ draining \in [Backend -> BOOLEAN]
    /\ status \in [Backend -> {"unknown", "healthy", "degraded", "unhealthy"}]
    /\ fails \in [Backend -> 0..Cap]
    /\ circuit \in [Backend -> {"closed", "open", "halfOpen"}]
    /\ check \in [Backend -> {"idle", "todo", "ok", "error", "old"}]
    /\ server \in [Backend -> {"down", "mute", "up"}]

\* Checker and dials write status, failures and circuit in any order, and yet an
\* unhealthy backend has failed often enough since its last success, and an open
\* circuit belongs to a backend that was declared unhealthy once.  (What is said of
\* a backend that was removed is said of its last record.)
StatusSound ==
    \A b \in Backend :
        /\ status[b] = "unhealthy" => fails[b] >= MaxFailures \/ fails[b] >= Threshold
        /\ circuit[b] = "open" => status[b] # "unknown"

\* The checker's status follows the database: once it stays up, or down, the
\* status settles on healthy, or unhealthy, whatever dials record in between.
StatusFollows ==
    \A b \in Backend :
        /\ <>[](b \in Listed /\ server[b] = "up") => <>[](status[b] = "healthy")
        /\ <>[](b \in Listed /\ server[b] = "down") => <>[](status[b] = "unhealthy")

\* Dials leave alone, in the end, a backend that stays down, that is being drained
\* ("Mark unhealthy to prevent new connections") or that was removed.
Avoided ==
    \A b \in Backend :
        <>[](server[b] = "down" \/ draining[b] \/ b \notin Listed)
            => <>[](\A d \in Dialer : dial[d].at \in {"circuit", "connect"} => dial[d].to # b)

\* "Mark backend as unhealthy temporarily" (createServerConn): a backend that stays
\* listed, up and not draining is eventually marked healthy for good.  Not so: the
\* checker restores Healthy only when its own status changes.
BackendRecovers ==
    \A b \in Backend :
        <>[](b \in Listed /\ server[b] = "up" /\ ~draining[b]) => <>[]healthy[b]

\* "Half-open after 30 seconds" (docs/OPERATIONS.md): an open circuit does not stay
\* open for ever.  Not so: no code makes a circuit half open.
CircuitReopens == \A b \in Backend : circuit[b] = "open" ~> circuit[b] # "open"
==============================================================================
