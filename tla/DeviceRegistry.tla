---------------------------- MODULE DeviceRegistry ----------------------------
(***************************************************************************)
(* The devices table as the administrator's and the Clients' requests      *)
(* change it, and the intake of operations that depends on it: a device is *)
(* created with a pairing code, one Client enrols with that code, and from *)
(* then on operations may be submitted for it until it is revoked.         *)
(*                                                                         *)
(* Every request is one transaction (BEGIN IMMEDIATE in src/src/db.rs and  *)
(* src/src/operations.rs), so requests interleave as wholes.  An answer    *)
(* may be lost: every request may be repeated at any time.  A request that *)
(* changes nothing is a stuttering step, unless a property is about its    *)
(* answer.                                                                 *)
(***************************************************************************)
EXTENDS Naturals, FiniteSets

CONSTANTS
    Devices,        \* device ids that create_device may draw
    Clients,        \* Client installations
    Keys,           \* idempotency keys, of the administrator who drew them
    Actions,        \* what a command does: it goes into the key's digest
    Contents,       \* with what: it goes into the request's fingerprint
    Operations,     \* operation ids that enqueue may draw
    Capacity,       \* rows that the devices table may have (4096)
    None            \* the SQL NULL

ASSUME RegistryAssumption ==
    /\ Capacity \in Nat
    /\ None \notin Clients
    /\ IsFiniteSet(Devices)

VARIABLES
    rows,       \* the devices table
    tasks,      \* the operations table, as far as the intake reads it
    bound,      \* history: the Clients told that they are enrolled, per device
    cancelled,  \* history: the devices whose pairing was told to be cancelled
    answers,    \* history: the operations with which an intent was accepted
    refused     \* history: intents refused after they had been accepted

historyVars == <<bound, cancelled, answers, refused>>
vars == <<rows, tasks, historyVars>>

Commands == [action : Actions, content : Contents]
Intents  == [device : Devices, key : Keys, command : Commands]

\* A row that was not inserted yet.
Missing == [exists |-> FALSE, installation |-> None, credential |-> None,
            offered |-> FALSE, revoked |-> FALSE]

Init ==
    /\ rows = [d \in Devices |-> Missing]
    /\ tasks = {}
    /\ bound = [d \in Devices |-> {}]
    /\ cancelled = {}
    /\ answers = [i \in Intents |-> {}]
    /\ refused = {}

Registered == {d \in Devices : rows[d].exists}

------------------------------------------------------------------------------
(* The administrator's requests on devices.                                 *)

\* create_device: the count and the insertion are one transaction.  The new id
\* and the new code are random; the code is the device's own.
CreateDevice(d) ==
    /\ ~rows[d].exists
    /\ Cardinality(Registered) < Capacity
    /\ rows' = [rows EXCEPT ![d] = [@ EXCEPT !.exists = TRUE, !.offered = TRUE]]
    /\ UNCHANGED <<tasks, historyVars>>

\* Mutant: a used code can be cancelled.
CancelPairing_Used(d) ==
    /\ rows[d].exists
    /\ ~rows[d].revoked
    /\ rows' = [rows EXCEPT ![d].offered = FALSE]
    /\ cancelled' = cancelled \cup {d}
    /\ UNCHANGED <<tasks, bound, answers, refused>>

\* cancel_pairing: the code is withdrawn unless it was used.
CancelPairing(d) ==
    /\ rows[d].exists
    /\ rows[d].installation = None
    /\ ~rows[d].revoked
    /\ rows[d].offered
    /\ rows' = [rows EXCEPT ![d].offered = FALSE]
    /\ cancelled' = cancelled \cup {d}
    /\ UNCHANGED <<tasks, bound, answers, refused>>

\* revoke: repeatable.  The installation stays in the row.
Revoke(d) ==
    /\ rows[d].exists
    /\ rows' = [rows EXCEPT ![d] = [@ EXCEPT !.revoked = TRUE, !.credential = None,
                                              !.offered = FALSE]]
    /\ UNCHANGED <<tasks, historyVars>>

------------------------------------------------------------------------------
(* A Client that pairs, with a code that an administrator gave it           *)
(* (docs/simple-pairing.md).  It has drawn a credential of its own before,  *)
(* so that no two Clients have the same one.                                *)

\* The row that a pairing code can still bind: what resolve_pairing finds, without
\* using it up, and what enroll's UPDATE names once more.
Pairable(d) ==
    /\ rows[d].exists
    /\ rows[d].installation = None
    /\ ~rows[d].revoked
    /\ rows[d].offered

\* Mutant: whoever has the code binds the row.
Enroll_Again(c, d) ==
    /\ rows[d].exists
    /\ ~rows[d].revoked
    /\ \A e \in Devices : rows[e].installation # c
    /\ rows' = [rows EXCEPT ![d] = [@ EXCEPT !.installation = c, !.credential = c,
                                             !.offered = FALSE]]
    /\ bound' = [bound EXCEPT ![d] = @ \cup {c}]
    /\ UNCHANGED <<tasks, cancelled, answers, refused>>

\* enroll: the code is consumed, the installation and its credential entered.  Since
\* the code was looked up it may have been used, cancelled or revoked; and an
\* installation that some row has, be it a revoked one, is refused by its column.
Enroll(c, d) ==
    /\ Pairable(d)
    /\ \A e \in Devices : rows[e].installation # c
    /\ rows' = [rows EXCEPT ![d] = [@ EXCEPT !.installation = c, !.credential = c,
                                             !.offered = FALSE]]
    /\ bound' = [bound EXCEPT ![d] = @ \cup {c}]
    /\ UNCHANGED <<tasks, cancelled, answers, refused>>

\* authenticate_device: the device that a request with c's credential speaks for.
Authenticates(c, d) ==
    /\ rows[d].credential = c
    /\ ~rows[d].revoked
    /\ rows[d].installation # None

------------------------------------------------------------------------------
(* OperationManager::enqueue.                                               *)

Intent(d, k, m) == [device |-> d, key |-> k, command |-> m]

\* The operation under the digest of device, action and key.
Under(i) == {t \in tasks : /\ t.device = i.device
                           /\ t.key = i.key
                           /\ t.command.action = i.command.action}

\* The fingerprint covers the binding and the whole command.
SameRequest(t, i) ==
    t.command = i.command /\ t.installation = rows[i.device].installation

\* Mutant: no look at the installation.
Open_Unregistered(i) == rows[i.device].exists /\ ~rows[i.device].revoked

\* The device takes operations: the row is read in enqueue's transaction.
Open(i) ==
    /\ rows[i.device].exists
    /\ ~rows[i.device].revoked
    /\ rows[i.device].installation # None

Accept(i, o) == answers' = [answers EXCEPT ![i] = @ \cup {o}]

\* A key never used: a new operation, for the installation that the row has.
Enqueue(i) ==
    /\ Open(i)
    /\ Under(i) = {}
    /\ \E o \in Operations :
          /\ \A t \in tasks : t.operation # o
          /\ tasks' = tasks \cup {[operation |-> o, device |-> i.device, key |-> i.key,
                                   command |-> i.command,
                                   installation |-> rows[i.device].installation]}
          /\ Accept(i, o)
    /\ UNCHANGED <<rows, bound, cancelled, refused>>

\* Mutant: the key alone decides.
EnqueueAgain_AnyContent(i) ==
    /\ Open(i)
    /\ \E t \in tasks : t.key = i.key /\ Accept(i, t.operation)
    /\ UNCHANGED <<rows, tasks, bound, cancelled, refused>>

\* A key that has an operation of the same request: that operation.
EnqueueAgain(i) ==
    /\ Open(i)
    /\ \E t \in Under(i) : SameRequest(t, i) /\ Accept(i, t.operation)
    /\ UNCHANGED <<rows, tasks, bound, cancelled, refused>>

\* Anything else is a conflict; it matters when the intent had been accepted.
Refuse(i) ==
    /\ ~Open(i) \/ \E t \in Under(i) : ~SameRequest(t, i)
    /\ answers[i] # {}
    /\ refused' = refused \cup {i}
    /\ UNCHANGED <<rows, tasks, bound, cancelled, answers>>

------------------------------------------------------------------------------
AdministratorStep ==
    \E d \in Devices : CreateDevice(d) \/ CancelPairing(d) \/ Revoke(d)

PairingStep == \E c \in Clients, d \in Devices : Enroll(c, d)

IntakeStep ==
    \E i \in Intents : Enqueue(i) \/ EnqueueAgain(i) \/ Refuse(i)

Next == AdministratorStep \/ PairingStep \/ IntakeStep

Spec == Init /\ [][Next]_vars

------------------------------------------------------------------------------
(* Properties.                                                              *)

DeviceRow ==
    [exists : BOOLEAN, installation : Clients \cup {None},
     credential : Clients \cup {None}, offered : BOOLEAN, revoked : BOOLEAN]

TaskRow ==
    [operation : Operations, device : Devices, key : Keys, command : Commands,
     installation : Clients]

\* Rows, requests and histories are of their types; an operation, in particular,
\* always names an installation.
TypeOK ==
    /\ rows \in [Devices -> DeviceRow]
    /\ tasks \subseteq TaskRow
    /\ bound \in [Devices -> SUBSET Clients]
    /\ cancelled \subseteq Devices
    /\ answers \in [Intents -> SUBSET Operations]
    /\ refused \subseteq Intents

\* A pairing code binds one Client, however many were given it and whatever was
\* looked up, repeated or cancelled in between.
OneClientPerCode == \A d \in Devices : \A b, c \in bound[d] : b = c

\* docs/instance-management.md: cancelling and enrolling exclude each other.  An
\* administrator told that the pairing is cancelled has no Client bound to it.
CancelExcludesEnroll == \A d \in cancelled : bound[d] = {}

\* A Client whose enrolment was committed can use its credential, and it alone,
\* until the device is revoked: this is how a Client that lost the answer finds
\* out (client_identity), and no repeated enrolment or later pairing undoes it.
BindingLasts ==
    \A d \in Devices, c \in Clients :
        Authenticates(c, d) <=> c \in bound[d] /\ ~rows[d].revoked

\* An operation is for the installation that the device had when it was queued,
\* and the device never gets another one: what is delivered over the device's
\* channel is accepted by no other machine.
TaskForItsInstallation ==
    \A t \in tasks : rows[t.device].installation = t.installation

\* One intent is one operation: repeating a request under its key never queues a
\* second one, and an operation answers only for the command it was made of.
OneOperationPerIntent ==
    /\ \A i \in Intents : \A o, p \in answers[i] : o = p
    /\ \A i, j \in Intents : answers[i] \cap answers[j] # {} => i = j

\* docs/beginner-guide/05-durable-operations-and-recovery.md: exactly the same
\* request returns the original operation.  The look at the device comes first.
RetryReturnsOriginal == refused = {}
==============================================================================
