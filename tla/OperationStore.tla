--------------------------- MODULE OperationStore ---------------------------
(***************************************************************************)
(* The durable-operation table of the Foundation library                   *)
(* (sarmg_operations::SqliteOperationStore), which is not part of the      *)
(* repository.  What is written here is what src/src/operations.rs relies  *)
(* on when it calls the store, what tests/client_control.rs observes, and  *)
(* what schema/generated/current_schema.sql enforces on the table.         *)
(*                                                                         *)
(* A table is a function from operation numbers to rows.  Numbers are the  *)
(* order of creation, the order in which the claim index hands rows out.   *)
(* Every operator maps a table to the table that the call's transaction    *)
(* leaves behind; the guards say when the call succeeds.                   *)
(***************************************************************************)
EXTENDS Naturals

CONSTANT None           \* the SQL NULL of a text column

Active  == {"running", "unknown"}
Settled == {"succeeded", "failed", "dead_letter", "resolved"}
OperationState == {"pending"} \cup Active \cup Settled

RowState == OperationState \cup {"absent"}

\* A number that names no row yet.
Vacant == [state |-> "absent", device |-> None, command |-> None,
           owner |-> None, expired |-> FALSE]

Exists(table, o) == table[o].state # "absent"

\* o is the row the next INSERT creates.
IsNext(table, o) ==
    /\ ~Exists(table, o)
    /\ \A p \in DOMAIN table : p < o => Exists(table, p)

\* enqueue_in, the Created outcome.
EnqueueIn(table, o, d, c) ==
    [table EXCEPT ![o] = [state |-> "pending", device |-> d, command |-> c,
                          owner |-> None, expired |-> FALSE]]

\* claim_next_in hands out the oldest pending row of a namespace, and none
\* while a row of the same target is running or unknown (the unique partial
\* index active_target).
Claimable(table, d, o) ==
    /\ table[o].state = "pending"
    /\ table[o].device = d
    /\ \A p \in DOMAIN table : table[p].device = d =>
          /\ table[p].state \notin Active
          /\ p < o => table[p].state # "pending"

ClaimNextIn(table, o, s) ==
    [table EXCEPT ![o] = [@ EXCEPT !.state = "running", !.owner = s]]

\* A row leaves running, or is resolved: the lease columns are cleared with it.
Settle(row, state) ==
    [state |-> state, device |-> row.device, command |-> row.command,
     owner |-> None, expired |-> FALSE]

\* apply_transition_owned_in succeeds for the unexpired owner of a running row.
OwnedBy(table, o, s) ==
    /\ table[o].state = "running"
    /\ table[o].owner = s
    /\ ~table[o].expired

ApplyTransition(table, o, state) == [table EXCEPT ![o] = Settle(@, state)]

\* abandon_claim: the captured claim is still the row's claim.
HeldBy(table, o, s) == table[o].state = "running" /\ table[o].owner = s

\* recover_running and recover_expired of one namespace.
RecoverRunning(table, d) ==
    [o \in DOMAIN table |->
        IF table[o].device = d /\ table[o].state = "running"
        THEN Settle(table[o], "unknown") ELSE table[o]]

RecoverExpired(table, d) ==
    [o \in DOMAIN table |->
        IF table[o].device = d /\ table[o].state = "running" /\ table[o].expired
        THEN Settle(table[o], "unknown") ELSE table[o]]

\* The clock passes a lease's expiry.
LeaseRunsOut(table, o) == [table EXCEPT ![o] = [@ EXCEPT !.expired = TRUE]]

\* resolve_in: a confirmation resolves an unknown or dead_letter row, being
\* unable to confirm seals an unknown one.
Resolution == {"confirmed_succeeded", "confirmed_failed", "unable_to_confirm"}

Resolvable(table, o, r) ==
    \/ table[o].state = "unknown"
    \/ table[o].state = "dead_letter" /\ r # "unable_to_confirm"

ResolveIn(table, o, r) ==
    ApplyTransition(table, o,
        IF r = "unable_to_confirm" THEN "dead_letter" ELSE "resolved")
=============================================================================
