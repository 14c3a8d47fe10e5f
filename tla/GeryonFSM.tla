------------------------------ MODULE GeryonFSM ------------------------------
(***************************************************************************)
(* The replicated state machine of raft/fsm.go: what each command does to  *)
(* the state.  The callbacks are left out: they tell the coordinator of    *)
(* the change (see Coordinator).                                           *)
(***************************************************************************)
EXTENDS Naturals, Sequences

CONSTANTS
    Item,     \* names of pools, users and backends
    None      \* not in the map

\* A command; value is the new configuration or user, None deletes.
Command(type, name, value) == [type |-> type, name |-> name, value |-> value]

\* NewGeryonFSM
InitState ==
    [version |-> 1,
     pools |-> [n \in Item |-> None],
     users |-> [n \in Item |-> None],
     backends |-> [n \in Item |-> None]]

\* Update.Delete, or a configuration
applyPoolConfigUpdate(s, c) == [s EXCEPT !.pools[c.name] = c.value]

applyUserUpdate(s, c) == [s EXCEPT !.users[c.name] = c.value]

applyUserDelete(s, c) == [s EXCEPT !.users[c.name] = None]

\* A backend that is not in the map is left alone; and no command adds one.
applyBackendDetach(s, c) ==
    [s EXCEPT !.backends[c.name] = IF @ = None THEN None ELSE "detached"]

applyBackendAttach(s, c) ==
    [s EXCEPT !.backends[c.name] = IF @ = None THEN None ELSE "active"]

\* Apply: the version counts every command, whatever becomes of it.  A no-op, an
\* invalidation, a command that cannot be decoded or is unknown does nothing else.
Apply(s, c) ==
    LET t == [s EXCEPT !.version = @ + 1]
    IN  CASE c.type = "pool" -> applyPoolConfigUpdate(t, c)
          [] c.type = "user" -> applyUserUpdate(t, c)
          [] c.type = "userDelete" -> applyUserDelete(t, c)
          [] c.type = "detach" -> applyBackendDetach(t, c)
          [] c.type = "attach" -> applyBackendAttach(t, c)
          [] OTHER -> t

\* The state after a list of commands.
ApplyAll(s, commands) ==
    LET after[i \in 0..Len(commands)] ==
            IF i = 0 THEN s ELSE Apply(after[i - 1], commands[i])
    IN  after[Len(commands)]

\* What clients see of the state.
Contents(s) == <<s.pools, s.users, s.backends>>
=============================================================================
