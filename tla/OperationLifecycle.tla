-------------------------- MODULE OperationLifecycle --------------------------
(***************************************************************************)
(* What the Manager promises an administrator about the operations of a    *)
(* device, with no word about databases, sessions, leases or messages:     *)
(* operations are taken up one at a time in the order they were queued, an *)
(* operation whose outcome is in doubt holds the others back until an      *)
(* administrator decides, and a settled outcome is not revised - except    *)
(* that a sealed one may still be confirmed.                               *)
(***************************************************************************)
EXTENDS Naturals

CONSTANTS
    Devices,    \* the devices
    Ops         \* numbers of operations, in the order they are queued

VARIABLES
    waiting,    \* the operations queued for a device
    active,     \* the operation a device is busy with: {} or a singleton
    doubtful,   \* the active operations whose outcome is in doubt
    outcome     \* the outcome of a settled operation, else "none"

lifecycleVars == <<waiting, active, doubtful, outcome>>

Final   == {"succeeded", "failed", "resolved"}
Outcome == {"none", "sealed"} \cup Final

Init ==
    /\ waiting = [d \in Devices |-> {}]
    /\ active = [d \in Devices |-> {}]
    /\ doubtful = {}
    /\ outcome = [o \in Ops |-> "none"]

\* o was never queued for any device.
Fresh(o) ==
    /\ outcome[o] = "none"
    /\ \A d \in Devices : o \notin waiting[d] \cup active[d]

Submit(d, o) ==
    /\ Fresh(o)
    /\ waiting' = [waiting EXCEPT ![d] = @ \cup {o}]
    /\ UNCHANGED <<active, doubtful, outcome>>

\* An idle device takes up its oldest operation.
Start(d, o) ==
    /\ active[d] = {}
    /\ o \in waiting[d]
    /\ \A p \in waiting[d] : o <= p
    /\ active' = [active EXCEPT ![d] = {o}]
    /\ waiting' = [waiting EXCEPT ![d] = @ \ {o}]
    /\ UNCHANGED <<doubtful, outcome>>

Doubt(d, o) ==
    /\ o \in active[d] \ doubtful
    /\ doubtful' = doubtful \cup {o}
    /\ UNCHANGED <<waiting, active, outcome>>

\* The device answers, and nothing put the answer in doubt.
Answer(d, o) ==
    /\ o \in active[d] \ doubtful
    /\ \E v \in {"succeeded", "failed"} : outcome' = [outcome EXCEPT ![o] = v]
    /\ active' = [active EXCEPT ![d] = {}]
    /\ UNCHANGED <<waiting, doubtful>>

\* The administrator decides what is in doubt, or seals it undecided.
Decide(d, o) ==
    /\ o \in active[d] \cap doubtful
    /\ \E v \in {"resolved", "sealed"} : outcome' = [outcome EXCEPT ![o] = v]
    /\ active' = [active EXCEPT ![d] = {}]
    /\ doubtful' = doubtful \ {o}
    /\ UNCHANGED waiting

Confirm(o) ==
    /\ outcome[o] = "sealed"
    /\ outcome' = [outcome EXCEPT ![o] = "resolved"]
    /\ UNCHANGED <<waiting, active, doubtful>>

Next ==
    \E o \in Ops :
        \/ Confirm(o)
        \/ \E d \in Devices :
              Submit(d, o) \/ Start(d, o) \/ Doubt(d, o) \/ Answer(d, o) \/ Decide(d, o)

Spec == Init /\ [][Next]_lifecycleVars
=============================================================================
