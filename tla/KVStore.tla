------------------------------ MODULE KVStore ------------------------------
(***************************************************************************)
(* What lsmkv promises its callers, without log, tables or manifest: a     *)
(* map from keys to values, and the set of maps a crash may bring back.    *)
(*                                                                         *)
(* A write is atomic: it is first attempted (a crash may bring back the    *)
(* store with it or without it) and then acknowledged, which makes it      *)
(* visible.  With the durable policy an acknowledged write cannot be lost. *)
(* While the store runs its contents change only by acknowledged writes.   *)
(* When it stops, by a crash or not, the contents become one of the maps   *)
(* that were possible; until that one is persisted a further crash may     *)
(* bring back another.                                                     *)
(***************************************************************************)
EXTENDS Entries

CONSTANTS
    OpSeqs,   \* the operation sequences a write may carry
    Durable   \* whether an acknowledged write survives every crash

VARIABLES
    store,       \* what readers see
    recoverable, \* what a crash may bring back
    running      \* whether there is a process

kvVars == <<store, recoverable, running>>

\* The store after the operations ops, in order: the last one on a key decides.
Apply(s, ops) ==
    [k \in Key |->
        LET at == {i \in 1 .. Len(ops) : ops[i].key = k}
        IN  IF at = {} THEN s[k] ELSE ops[Highest(at)].val]

KVInit ==
    /\ store = [k \in Key |-> Tombstone]
    /\ recoverable = {store}
    /\ running = FALSE

Start ==
    /\ ~running
    /\ running' = TRUE
    /\ UNCHANGED <<store, recoverable>>

Attempt(ops) ==
    /\ running
    /\ UNCHANGED <<store, running>>
    /\ recoverable' = recoverable \cup {Apply(store, ops)}

Acknowledge(ops) ==
    /\ running
    /\ UNCHANGED running
    /\ store' = Apply(store, ops)
    /\ store' \in recoverable'
    /\ recoverable' \subseteq recoverable
    /\ Durable => recoverable' = {store'}

Persist ==
    /\ UNCHANGED <<store, running>>
    /\ store \in recoverable'
    /\ recoverable' \subseteq recoverable

Stop ==
    /\ ~running'
    /\ recoverable' \subseteq recoverable
    /\ store' \in recoverable'

KVNext ==
    \/ Persist
    \/ Start
    \/ Stop
    \/ \E ops \in OpSeqs : Acknowledge(ops) \/ Attempt(ops)

KVSpec == KVInit /\ [][KVNext]_kvVars
=============================================================================
