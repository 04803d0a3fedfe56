----------------------------- MODULE AtomicStore -----------------------------
(***************************************************************************)
(* What the store of a node promises raft: one value that survives the     *)
(* process, replaced by every write, and replaced at one instant by a      *)
(* snapshot.  Only a snapshot whose restore was cut short by the end of    *)
(* the process may or may not be in effect afterwards.                     *)
(***************************************************************************)
CONSTANTS Values, Empty

VARIABLES
    state,    \* what a reader of the store sees, and what a restart finds
    up,       \* a process has the store open
    pending   \* the snapshot being restored: at most one

atomicVars == <<state, up, pending>>

AtomicInit ==
    /\ state = Empty
    /\ up = FALSE
    /\ pending = {}

Start ==
    /\ ~up
    /\ up' = TRUE
    /\ UNCHANGED <<state, pending>>

Write(v) ==
    /\ up
    /\ pending = {}
    /\ state' = v
    /\ UNCHANGED <<up, pending>>

BeginRestore(v) ==
    /\ up
    /\ pending = {}
    /\ pending' = {v}
    /\ UNCHANGED <<state, up>>

CommitRestore ==
    /\ up
    /\ state' \in pending
    /\ pending' = {}
    /\ UNCHANGED up

AbortRestore ==
    /\ up
    /\ pending' = {}
    /\ UNCHANGED <<state, up>>

Stop ==
    /\ up
    /\ up' = FALSE
    /\ pending' = {}
    /\ state' \in {state} \cup pending

AtomicNext ==
    \/ Start
    \/ \E v \in Values : Write(v) \/ BeginRestore(v)
    \/ CommitRestore
    \/ AbortRestore
    \/ Stop

AtomicSpec == AtomicInit /\ [][AtomicNext]_atomicVars

=============================================================================
