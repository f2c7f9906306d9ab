---------------------------- MODULE DeviceChannel ----------------------------
(***************************************************************************)
(* One Manager process, its SQLite database, the WebSocket sessions of its *)
(* devices and the Clients at the other end: how an operation an           *)
(* administrator queued reaches a device, how its outcome comes back, and  *)
(* what a takeover, a revocation, a lost connection, an expired lease, an  *)
(* administrator's verdict or a crash does to it on the way.               *)
(*                                                                         *)
(* serve_client (src/src/http.rs) is split at its awaits: every database   *)
(* statement or transaction of a session is a step of its own, because the *)
(* sessions, the HTTP handlers and the background task share nothing but   *)
(* the database.  phase[s] names the await the session's task stands at.   *)
(***************************************************************************)
EXTENDS OperationStore, Sequences, FiniteSets

CONSTANTS
    Devices,        \* rows of the devices table, each bound to an installation
    Sessions,       \* session ids; each connection draws a fresh one
    MaxOps,         \* bound: operations ever enqueued
    Commands,       \* commands an administrator may send
    Verdicts,       \* resolutions an administrator may give
    Refusals,       \* refusing reports a Client may give
    Unsolicited,    \* what a Client may send unasked: "heartbeat", "repetition"
    Slots,          \* connections admitted at once (256 in WorkerState)
    MaxCrashes,     \* bound: crashes of the Manager process
    MaxEdits,       \* bound: edits of configurations at the devices themselves
    MaxInFlight     \* bound: messages a Client has under way on one connection

Ops == 1 .. MaxOps

\* The revisions of a device's configuration are numbered in the order in which
\* the configuration took them; 1 is the one the device starts with, 0 an SQL
\* NULL.  (A revision is a hash: contents that return have a new number here.)
Revisions == Nat

AllCommands == {"read_config", "patch_config", "restart"}

\* The report that confirms a command.
Confirmation(c) ==
    CASE c = "read_config"  -> "config_read"
      [] c = "patch_config" -> "config_saved"
      [] OTHER              -> "restart_acknowledged"

Confirmations == {"config_read", "config_saved", "restart_acknowledged"}
ReportKinds   == Confirmations \cup {"conflict", "rejected", "unknown"}
Report        == [kind : ReportKinds, revision : Revisions]

ASSUME ChannelAssumption ==
    /\ MaxOps \in Nat
    /\ Slots \in Nat
    /\ MaxCrashes \in Nat
    /\ MaxEdits \in Nat
    /\ MaxInFlight \in Nat
    /\ Commands \subseteq AllCommands
    /\ Verdicts \subseteq Resolution
    /\ Refusals \subseteq {"conflict", "rejected"}
    /\ Unsolicited \subseteq {"heartbeat", "repetition"}
    /\ None \notin Sessions \cup Devices \cup Commands

VARIABLES
    mgr,         \* the Manager process: "up", "down" or "recovering"
    crashes,     \* crashes so far
    devices,     \* the devices table
    ops,         \* the operations table
    observed,    \* client_observations: the operations that have a row there
    phase,       \* where a session's task stands in client_connect / serve_client
    peer,        \* the device a session authenticated as
    pending,     \* the session's `pending`: {} or the one captured operation
    inspected,   \* the session's `inspected` set
    target,      \* operation a session's task holds between two awaits
    down,        \* messages from the Manager to the Client, per session
    up,          \* messages from the Client to the Manager, per session
    using,       \* the connection a device's Client uses: its latest
    journal,     \* the Client's durable record of an operation: {} or one report
    revision,    \* the revision of a device's actual configuration
    edits,       \* edits of configurations at the devices so far
    claimedBy,   \* history: the lease owner of an operation's claim
    sent         \* history: how often an operation was sent to be executed

managerVars == <<mgr, crashes>>
tableVars   == <<devices, ops, observed>>
sessionVars == <<phase, peer, pending, inspected, target>>
clientVars  == <<using, journal, revision, edits>>
historyVars == <<claimedBy, sent>>
vars == <<managerVars, tableVars, sessionVars, down, up, clientVars, historyVars>>

\* A captured operation: the fields of StoredOperation read later.
Capture == [op : Ops, state : RowState, owner : Sessions \cup {None}]

\* The awaits at which a session's task holds a live connection.
Serving == {"idle", "received", "polled", "inspecting", "claiming"}
Phase   == {"unused", "upgraded", "closing", "clearing", "done"} \cup Serving
\* The phases in which a connection holds one of the client_slots.
Admitted == Phase \ {"unused", "done"}

Task(type, o)    == [type |-> type, op |-> o]
ResultOf(o, r)   == [type |-> "result", op |-> o, report |-> r]
Heartbeat(r)     == [type |-> "heartbeat", revision |-> r]
RevokedNotice    == [type |-> "revoked"]

Init ==
    /\ mgr = "up"
    /\ crashes = 0
    /\ devices = [d \in Devices |->
                    [revoked |-> FALSE, session |-> None, snapshot |-> 0,
                     saved |-> 0, configuration |-> "unknown"]]
    /\ ops = [o \in Ops |-> Vacant]
    /\ observed = {}
    /\ phase = [s \in Sessions |-> "unused"]
    /\ peer = [s \in Sessions |-> None]
    /\ pending = [s \in Sessions |-> {}]
    /\ inspected = [s \in Sessions |-> {}]
    /\ target = [s \in Sessions |-> 0]
    /\ down = [s \in Sessions |-> <<>>]
    /\ up = [s \in Sessions |-> <<>>]
    /\ using = [d \in Devices |-> None]
    /\ journal = [o \in Ops |-> {}]
    /\ revision = [d \in Devices |-> 1]
    /\ edits = 0
    /\ claimedBy = [o \in Ops |-> None]
    /\ sent = [o \in Ops |-> 0]

------------------------------------------------------------------------------
(* The administrator's requests.                                            *)

\* OperationManager::enqueue of a command under a key never used before.
Enqueue(d, c) ==
    /\ mgr = "up"
    /\ ~devices[d].revoked
    /\ \E o \in Ops :
          /\ IsNext(ops, o)
          /\ ops' = EnqueueIn(ops, o, d, c)
    /\ UNCHANGED <<managerVars, devices, observed, sessionVars, down, up,
                   clientVars, historyVars>>

\* Mutant: what is confirmed to have failed is queued again.
Resolve_Requeue(o, r) ==
    /\ mgr = "up"
    /\ Resolvable(ops, o, r)
    /\ ops' = IF r = "confirmed_failed" THEN ApplyTransition(ops, o, "pending")
                                        ELSE ResolveIn(ops, o, r)
    /\ UNCHANGED <<managerVars, devices, observed, sessionVars, down, up,
                   clientVars, historyVars>>

\* OperationManager::resolve_for_actor, the caller being the operation's actor.
Resolve(o, r) ==
    /\ mgr = "up"
    /\ Resolvable(ops, o, r)
    /\ ops' = ResolveIn(ops, o, r)
    /\ UNCHANGED <<managerVars, devices, observed, sessionVars, down, up,
                   clientVars, historyVars>>

\* db::revoke: repeatable, whatever the device's sessions are doing.
Revoke(d) ==
    /\ mgr = "up"
    /\ devices' = [devices EXCEPT ![d] = [@ EXCEPT !.revoked = TRUE,
                                                   !.session = None]]
    /\ UNCHANGED <<managerVars, ops, observed, sessionVars, down, up,
                   clientVars, historyVars>>

------------------------------------------------------------------------------
(* A session: client_connect, then serve_client.                            *)

\* client_connect: credential accepted, slot taken, upgrade under way.  The
\* Client reads and writes its new connection only; what it wrote on the old
\* one may still arrive there.
Connect(s, d) ==
    /\ mgr = "up"
    /\ phase[s] = "unused"
    /\ ~devices[d].revoked
    /\ Cardinality({t \in Sessions : phase[t] \in Admitted}) < Slots
    /\ phase' = [phase EXCEPT ![s] = "upgraded"]
    /\ peer' = [peer EXCEPT ![s] = d]
    /\ using' = [using EXCEPT ![d] = s]
    /\ down' = [t \in Sessions |-> IF t = using[d] THEN <<>> ELSE down[t]]
    /\ UNCHANGED <<managerVars, tableVars, pending, inspected, target, up, journal,
                   revision, edits, historyVars>>

\* The Manager's side of the connection lives.
Open(s) == phase[s] \in Serving \cup {"upgraded"}

Goto(s, p) == phase' = [phase EXCEPT ![s] = p]

\* A message is sent: the Client may read it as long as it uses the connection.
Send(s, m) ==
    down' = IF using[peer[s]] = s THEN [down EXCEPT ![s] = Append(@, m)] ELSE down

\* serve_client returns an error: its socket, with what was not read from it,
\* and its locals are gone; `pending` belongs to the caller.
Leave(s) ==
    /\ Goto(s, "closing")
    /\ up' = [up EXCEPT ![s] = <<>>]
    /\ inspected' = [inspected EXCEPT ![s] = {}]
    /\ target' = [target EXCEPT ![s] = 0]

\* The Hello of the right binding: the session takes the device over, unless
\* it was revoked meanwhile.
Hello(s) ==
    /\ mgr = "up"
    /\ phase[s] = "upgraded"
    /\ IF devices[peer[s]].revoked
       THEN Leave(s) /\ UNCHANGED devices
       ELSE /\ Goto(s, "idle")
            /\ devices' = [devices EXCEPT ![peer[s]] = [@ EXCEPT !.session = s]]
            /\ UNCHANGED <<inspected, target, up>>
    /\ UNCHANGED <<managerVars, ops, observed, peer, pending, down, clientVars,
                   historyVars>>

\* get_device's answer is checked the same way on a frame and on a tick.
IsCurrent(s) == ~devices[peer[s]].revoked /\ devices[peer[s]].session = s

\* A task that is not current tells its Client so and ends.
Dismiss(s) ==
    /\ Leave(s)
    /\ Send(s, RevokedNotice)

\* A frame arrives: the session checks that it is still the current one.
Receive(s) ==
    /\ mgr = "up"
    /\ phase[s] = "idle"
    /\ up[s] # <<>>
    /\ IF IsCurrent(s)
       THEN Goto(s, "received") /\ UNCHANGED <<inspected, target, down, up>>
       ELSE Dismiss(s)
    /\ UNCHANGED <<managerVars, tableVars, peer, pending, clientVars, historyVars>>

\* Mutant: the heartbeat's UPDATE does not name the session.
HandleHeartbeat_AnySession(s) ==
    /\ mgr = "up"
    /\ phase[s] = "received"
    /\ Head(up[s]).type = "heartbeat"
    /\ devices' = [devices EXCEPT ![peer[s]] =
                      [@ EXCEPT !.snapshot = Head(up[s]).revision]]
    /\ up' = [up EXCEPT ![s] = Tail(@)]
    /\ Goto(s, "idle")
    /\ UNCHANGED <<managerVars, ops, observed, peer, pending, inspected, target,
                   down, clientVars, historyVars>>

\* The received frame is a heartbeat: its UPDATE still names the session.
HandleHeartbeat(s) ==
    /\ mgr = "up"
    /\ phase[s] = "received"
    /\ Head(up[s]).type = "heartbeat"
    /\ devices' = IF IsCurrent(s)
                  THEN [devices EXCEPT ![peer[s]] =
                          [@ EXCEPT !.snapshot = Head(up[s]).revision]]
                  ELSE devices
    /\ up' = [up EXCEPT ![s] = Tail(@)]
    /\ Goto(s, "idle")
    /\ UNCHANGED <<managerVars, ops, observed, peer, pending, inspected, target,
                   down, clientVars, historyVars>>

\* validate_report.
ValidReport(c, r) == r.kind = Confirmation(c) \/ r.kind \notin Confirmations

\* Mutant: the report's kind is stored as the state.
Outcome_Kind(r) == IF r.kind \in Confirmations THEN "succeeded" ELSE r.kind

\* The state a report on a claimed operation leads to.
Outcome(r) ==
    IF r.kind \in Confirmations THEN "succeeded"
    ELSE IF r.kind = "unknown" THEN "unknown" ELSE "failed"

\* Mutant: a saved configuration is recorded like one that was read.
Recorded_SnapshotOnly(device, r) ==
    IF r.kind \in Confirmations THEN [device EXCEPT !.snapshot = r.revision] ELSE device

\* What a report tells about the device's configuration.
Recorded(device, r) ==
    CASE r.kind = "config_read" ->
            [device EXCEPT !.snapshot = r.revision]
      [] r.kind = "config_saved" ->
            [device EXCEPT !.snapshot = r.revision, !.saved = r.revision,
                           !.configuration = "awaiting_restart"]
      [] r.kind = "restart_acknowledged" ->
            [device EXCEPT !.snapshot = r.revision, !.saved = r.revision,
                           !.configuration = "pending_verification"]
      [] OTHER -> device

\* Mutants: the state of an operation captured as unknown is not read again; the
\* session is not checked.
Completable_NoReread(s, c, r) ==
    /\ ValidReport(ops[c.op].command, r)
    /\ IsCurrent(s)
    /\ c.state = "unknown" \/ (c.owner # None /\ OwnedBy(ops, c.op, c.owner))

Completable_AnySession(s, c, r) ==
    /\ ValidReport(ops[c.op].command, r)
    /\ IF c.state = "unknown" THEN ops[c.op].state = "unknown"
                              ELSE c.owner # None /\ OwnedBy(ops, c.op, c.owner)

\* OperationManager::complete's transaction succeeds for the captured c.
Completable(s, c, r) ==
    /\ ValidReport(ops[c.op].command, r)
    /\ IsCurrent(s)
    /\ IF c.state = "unknown" THEN ops[c.op].state = "unknown"
                              ELSE c.owner # None /\ OwnedBy(ops, c.op, c.owner)

\* Mutant: evidence settles the operation.
Complete_Settling(c, r) ==
    /\ ops' = ApplyTransition(ops, c.op, Outcome(r))
    /\ UNCHANGED observed
    /\ devices' = [devices EXCEPT ![ops[c.op].device] = Recorded(@, r)]

\* Its effect: evidence on an operation captured as unknown, else the outcome.
Complete(c, r) ==
    /\ IF c.state = "unknown"
       THEN /\ observed' = observed \cup {c.op}
            /\ UNCHANGED ops
       ELSE /\ ops' = ApplyTransition(ops, c.op, Outcome(r))
            /\ UNCHANGED observed
    /\ devices' = [devices EXCEPT ![ops[c.op].device] = Recorded(@, r)]

\* Mutant: a result is taken for the pending operation, whatever it names.
Matching_Any(s, m) == pending[s]

\* The pending operation that a result names.
Matching(s, m) == {c \in pending[s] : c.op = m.op}

\* The received frame is a result that the pending operation accepts.
HandleResult(s) ==
    /\ mgr = "up"
    /\ phase[s] = "received"
    /\ Head(up[s]).type = "result"
    /\ \E c \in Matching(s, Head(up[s])) :
          /\ Completable(s, c, Head(up[s]).report)
          /\ Complete(c, Head(up[s]).report)
    /\ pending' = [pending EXCEPT ![s] = {}]
    /\ up' = [up EXCEPT ![s] = Tail(@)]
    /\ Goto(s, "idle")
    /\ UNCHANGED <<managerVars, peer, inspected, target, down, clientVars, historyVars>>

\* ... or one that it refuses: the error ends the session, nothing is written.
RefuseResult(s) ==
    /\ mgr = "up"
    /\ phase[s] = "received"
    /\ Head(up[s]).type = "result"
    /\ ~ \E c \in Matching(s, Head(up[s])) : Completable(s, c, Head(up[s]).report)
    /\ Leave(s)
    /\ UNCHANGED <<managerVars, tableVars, peer, pending, down, clientVars, historyVars>>

\* Mutant: a silent session is not checked.
Tick_Unchecked(s) ==
    /\ mgr = "up"
    /\ phase[s] = "idle"
    /\ pending[s] = {}
    /\ Goto(s, "polled")
    /\ UNCHANGED <<managerVars, tableVars, peer, pending, inspected, target, down, up,
                   clientVars, historyVars>>

\* The poll tick: a session that has nothing pending looks for work.
Tick(s) ==
    /\ mgr = "up"
    /\ phase[s] = "idle"
    /\ IF ~IsCurrent(s) THEN Dismiss(s)
       ELSE /\ pending[s] = {}
            /\ Goto(s, "polled")
            /\ UNCHANGED <<inspected, target, down, up>>
    /\ UNCHANGED <<managerVars, tableVars, peer, pending, clientVars, historyVars>>

UnknownOf(d) == {o \in Ops : ops[o].device = d /\ ops[o].state = "unknown"}

\* OperationManager::uncertain, first statement: the oldest unknown operation's id.
FindUncertain(s) ==
    /\ mgr = "up"
    /\ phase[s] = "polled"
    /\ IF UnknownOf(peer[s]) = {}
       THEN Goto(s, "claiming") /\ UNCHANGED target
       ELSE /\ Goto(s, "inspecting")
            /\ \E o \in UnknownOf(peer[s]) :
                  /\ \A p \in UnknownOf(peer[s]) : o <= p
                  /\ target' = [target EXCEPT ![s] = o]
    /\ UNCHANGED <<managerVars, tableVars, peer, pending, inspected, down, up,
                   clientVars, historyVars>>

CaptureOf(o) == [op |-> o, state |-> ops[o].state, owner |-> ops[o].owner]

\* Second statement: the row as it is by now.  A session asks about an
\* operation once; while it stays unknown the session claims nothing new.
Inspect(s) ==
    /\ mgr = "up"
    /\ phase[s] = "inspecting"
    /\ Goto(s, "idle")
    /\ target' = [target EXCEPT ![s] = 0]
    /\ IF target[s] \in inspected[s]
       THEN UNCHANGED <<pending, inspected, down>>
       ELSE /\ inspected' = [inspected EXCEPT ![s] = @ \cup {target[s]}]
            /\ pending' = [pending EXCEPT ![s] = {CaptureOf(target[s])}]
            /\ Send(s, Task("inspect_only", target[s]))
    /\ UNCHANGED <<managerVars, tableVars, peer, up, clientVars, historyVars>>

\* The oldest operation is claimed for s.  It decodes, becomes pending and is
\* sent, all before the task's next await; or it does not decode, and the task
\* ends with the claim made and nothing pending.
ClaimOldest(s) ==
    \E o \in Ops :
        /\ Claimable(ops, peer[s], o)
        /\ ops' = ClaimNextIn(ops, o, s)
        /\ claimedBy' = [claimedBy EXCEPT ![o] = s]
        /\ \/ /\ pending' = [pending EXCEPT
                               ![s] = {[op |-> o, state |-> "running", owner |-> s]}]
              /\ Send(s, Task("execute", o))
              /\ sent' = [sent EXCEPT ![o] = @ + 1]
              /\ Goto(s, "idle")
              /\ UNCHANGED <<inspected, target, up>>
           \/ /\ Leave(s)
              /\ UNCHANGED <<pending, down, sent>>

\* OperationManager::next, one transaction: authorization and claim together.
Claim(s) ==
    /\ mgr = "up"
    /\ phase[s] = "claiming"
    /\ \/ /\ ~IsCurrent(s)
          /\ Leave(s)
          /\ UNCHANGED <<ops, pending, down, historyVars>>
       \/ /\ IsCurrent(s)
          /\ \A o \in Ops : ~Claimable(ops, peer[s], o)
          /\ Goto(s, "idle")
          /\ UNCHANGED <<ops, pending, inspected, target, down, up, historyVars>>
       \/ IsCurrent(s) /\ ClaimOldest(s)
    /\ UNCHANGED <<managerVars, devices, observed, peer, clientVars>>

\* Mutant: only the Hello is awaited with a limit.
TimeOut_HelloOnly(s) ==
    /\ mgr = "up"
    /\ phase[s] = "upgraded"
    /\ Leave(s)
    /\ UNCHANGED <<managerVars, tableVars, peer, pending, down, clientVars, historyVars>>

\* The Client does not say Hello within 10 s, or not answer the pending
\* operation within 110 s.
TimeOut(s) ==
    /\ mgr = "up"
    /\ phase[s] = "upgraded" \/ (phase[s] = "idle" /\ pending[s] # {})
    /\ Leave(s)
    /\ UNCHANGED <<managerVars, tableVars, peer, pending, down, clientVars, historyVars>>

\* Any other way serve_client returns, at any of its awaits: the socket closes
\* or fails, a frame is malformed, 45 s of silence, a failed statement.
Disconnect(s) ==
    /\ mgr = "up"
    /\ Open(s)
    /\ Leave(s)
    /\ UNCHANGED <<managerVars, tableVars, peer, pending, down, clientVars, historyVars>>

\* disconnected, on the captured claim; its error is ignored.
Abandon(s) ==
    /\ mgr = "up"
    /\ phase[s] = "closing"
    /\ \/ UNCHANGED ops
       \/ \E c \in pending[s] :
             /\ c.state = "running"
             /\ HeldBy(ops, c.op, c.owner)
             /\ ops' = ApplyTransition(ops, c.op, "unknown")
    /\ pending' = [pending EXCEPT ![s] = {}]
    /\ Goto(s, "clearing")
    /\ UNCHANGED <<managerVars, devices, observed, peer, inspected, target, down, up,
                   clientVars, historyVars>>

\* Mutant: the row is cleared whoever is in it.
Clear_Anyone(s) ==
    /\ mgr = "up"
    /\ phase[s] = "clearing"
    /\ devices' = [devices EXCEPT ![peer[s]] = [@ EXCEPT !.session = None]]
    /\ Goto(s, "done")
    /\ UNCHANGED <<managerVars, ops, observed, peer, pending, inspected, target, down,
                   up, clientVars, historyVars>>

\* The session leaves the devices row, if it is still there and the statement
\* succeeds; the task's slot is free again.
Clear(s) ==
    /\ mgr = "up"
    /\ phase[s] = "clearing"
    /\ \/ UNCHANGED devices
       \/ /\ devices[peer[s]].session = s
          /\ devices' = [devices EXCEPT ![peer[s]] = [@ EXCEPT !.session = None]]
    /\ Goto(s, "done")
    /\ UNCHANGED <<managerVars, ops, observed, peer, pending, inspected, target, down,
                   up, clientVars, historyVars>>

------------------------------------------------------------------------------
(* Time, the background task, and the life of the process.                  *)

LeaseExpires(o) ==
    /\ ops[o].state = "running"
    /\ ~ops[o].expired
    /\ ops' = LeaseRunsOut(ops, o)
    /\ UNCHANGED <<managerVars, devices, observed, sessionVars, down, up,
                   clientVars, historyVars>>

\* Mutant: only devices that have a session are looked at.
Reap_Connected(d) ==
    /\ mgr = "up"
    /\ devices[d].session # None
    /\ \E o \in Ops : ops[o].device = d /\ ops[o].state = "running" /\ ops[o].expired
    /\ ops' = RecoverExpired(ops, d)
    /\ UNCHANGED <<managerVars, devices, observed, sessionVars, down, up,
                   clientVars, historyVars>>

\* run_until: one round of recover_expired for one namespace.
Reap(d) ==
    /\ mgr = "up"
    /\ \E o \in Ops : ops[o].device = d /\ ops[o].state = "running" /\ ops[o].expired
    /\ ops' = RecoverExpired(ops, d)
    /\ UNCHANGED <<managerVars, devices, observed, sessionVars, down, up,
                   clientVars, historyVars>>

\* The process ends: by a crash, a shutdown, or an error of the critical task.
Crash ==
    /\ crashes < MaxCrashes
    /\ mgr # "down"
    /\ mgr' = "down"
    /\ crashes' = crashes + 1
    /\ phase' = [s \in Sessions |-> IF phase[s] = "unused" THEN "unused" ELSE "done"]
    /\ pending' = [s \in Sessions |-> {}]
    /\ inspected' = [s \in Sessions |-> {}]
    /\ target' = [s \in Sessions |-> 0]
    /\ up' = [s \in Sessions |-> <<>>]
    /\ UNCHANGED <<tableVars, peer, down, clientVars, historyVars>>

\* recover_startup, first statement: no session survives a restart.
Restart ==
    /\ mgr = "down"
    /\ mgr' = "recovering"
    /\ devices' = [d \in Devices |-> [devices[d] EXCEPT !.session = None]]
    /\ UNCHANGED <<crashes, ops, observed, sessionVars, down, up, clientVars,
                   historyVars>>

\* Mutant: what was running is queued again.
Recover_Requeue(d) ==
    /\ mgr = "recovering"
    /\ \E o \in Ops : ops[o].device = d /\ ops[o].state = "running"
    /\ ops' = [o \in Ops |-> IF ops[o].device = d /\ ops[o].state = "running"
                             THEN Settle(ops[o], "pending") ELSE ops[o]]
    /\ UNCHANGED <<managerVars, devices, observed, sessionVars, down, up,
                   clientVars, historyVars>>

\* recover_startup, one namespace: what was running is unknown.
Recover(d) ==
    /\ mgr = "recovering"
    /\ \E o \in Ops : ops[o].device = d /\ ops[o].state = "running"
    /\ ops' = RecoverRunning(ops, d)
    /\ UNCHANGED <<managerVars, devices, observed, sessionVars, down, up,
                   clientVars, historyVars>>

\* Every namespace is done: the listener is served.
Serve ==
    /\ mgr = "recovering"
    /\ \A o \in Ops : ops[o].state # "running"
    /\ mgr' = "up"
    /\ UNCHANGED <<crashes, tableVars, sessionVars, down, up, clientVars, historyVars>>

------------------------------------------------------------------------------
(* The Client, a program of another repository, as the protocol crate and   *)
(* docs/client-management-v1.md fix it.  It keeps a journal of what it executed   *)
(* and answers an inspecting delivery from it.  It uses one connection at a *)
(* time, and on it may stay silent, repeat a result or lose what was sent.  *)

Reply(s, m) ==
    up' = IF Open(s) THEN [up EXCEPT ![s] = Append(@, m)] ELSE up

\* The Client acts on s, and has no more than MaxInFlight messages under way.
Using(s) == peer[s] # None /\ using[peer[s]] = s /\ Len(up[s]) < MaxInFlight

\* What executing o on d may end in: confirmed, refused before any effect, or - the
\* answer of the local Sunshine lost - unknown with or without the effect.  The
\* revision of an unknown report stands for the one that the journal remembers the
\* operation was to write; the Manager is not told it (Recorded).
Execution(d, o) ==
    LET patched == IF ops[o].command = "patch_config" THEN revision[d] + 1
                                                      ELSE revision[d]
        report(k, r) == [kind |-> k, revision |-> r]
    IN  {[report |-> report(Confirmation(ops[o].command), patched), effect |-> patched]}
        \cup {[report |-> report(k, 0), effect |-> revision[d]] :
                  k \in Refusals \cup {"unknown"}}
        \cup {[report |-> report("unknown", patched), effect |-> patched]}

\* An operation to execute arrives that the journal does not know.
ClientExecute(s) ==
    /\ down[s] # <<>>
    /\ Using(s)
    /\ Head(down[s]).type = "execute"
    /\ LET o == Head(down[s]).op IN
          /\ journal[o] = {}
          /\ \E x \in Execution(peer[s], o) :
                /\ journal' = [journal EXCEPT ![o] = {x.report}]
                /\ revision' = [revision EXCEPT ![peer[s]] = x.effect]
                /\ Reply(s, ResultOf(o, x.report))
    /\ down' = [down EXCEPT ![s] = Tail(@)]
    /\ UNCHANGED <<managerVars, tableVars, sessionVars, using, edits, historyVars>>

\* What the Client of d can say of o without a side effect: the journal's report, or
\* that it has none - as it was, though the configuration may have been edited
\* since; a patch left unknown is confirmed when the configuration still reads back
\* as the one it was to write.
Recollection(d, o) ==
    IF journal[o] = {} THEN {[kind |-> "unknown", revision |-> 0]}
    ELSE journal[o] \cup
         {[kind |-> "config_saved", revision |-> x.revision] :
             x \in {y \in journal[o] :
                       /\ y.kind = "unknown"
                       /\ ops[o].command = "patch_config"
                       /\ y.revision = revision[d]}}

\* An operation to inspect arrives.
ClientInspect(s) ==
    /\ down[s] # <<>>
    /\ Using(s)
    /\ Head(down[s]).type = "inspect_only"
    /\ \E r \in Recollection(peer[s], Head(down[s]).op) :
          Reply(s, ResultOf(Head(down[s]).op, r))
    /\ down' = [down EXCEPT ![s] = Tail(@)]
    /\ UNCHANGED <<managerVars, tableVars, sessionVars, clientVars, historyVars>>

\* The Client repeats a result it has given before.
ClientRepeat(s) ==
    /\ "repetition" \in Unsolicited
    /\ Open(s)
    /\ Using(s)
    /\ \E o \in Ops : \E r \in journal[o] :
          /\ ops[o].device = peer[s]
          /\ Reply(s, ResultOf(o, r))
    /\ UNCHANGED <<managerVars, tableVars, sessionVars, down, clientVars, historyVars>>

\* A heartbeat that carries the configuration as it was when it was last looked at:
\* observations and the execution of tasks are scheduled independently.
ClientHeartbeat(s) ==
    /\ "heartbeat" \in Unsolicited
    /\ Open(s)
    /\ Using(s)
    /\ \E r \in 1 .. revision[peer[s]] : Reply(s, Heartbeat(r))
    /\ UNCHANGED <<managerVars, tableVars, sessionVars, down, clientVars, historyVars>>

\* Somebody edits the configuration at the device.  The revision covers the fields
\* that the Manager does not manage, too.
EditLocally(d) ==
    /\ edits < MaxEdits
    /\ edits' = edits + 1
    /\ revision' = [revision EXCEPT ![d] = @ + 1]
    /\ UNCHANGED <<managerVars, tableVars, sessionVars, down, up, using, journal,
                   historyVars>>

------------------------------------------------------------------------------
AdminStep ==
    \/ \E d \in Devices : Revoke(d) \/ \E c \in Commands : Enqueue(d, c)
    \/ \E o \in Ops, r \in Verdicts : Resolve(o, r)

\* One step of the task of session s, other than failing.
ServeStep(s) ==
    \/ Receive(s) \/ HandleHeartbeat(s) \/ HandleResult(s) \/ RefuseResult(s)
    \/ Tick(s) \/ FindUncertain(s) \/ Inspect(s) \/ Claim(s)
    \/ Abandon(s) \/ Clear(s)

ConnectionStep(s) ==
    \/ \E d \in Devices : Connect(s, d)
    \/ Hello(s) \/ TimeOut(s) \/ Disconnect(s)

ClientStep(s) ==
    ClientExecute(s) \/ ClientInspect(s) \/ ClientRepeat(s) \/ ClientHeartbeat(s)

ProcessStep ==
    \/ Crash \/ Restart \/ Serve
    \/ \E d \in Devices : Reap(d) \/ Recover(d)
    \/ \E o \in Ops : LeaseExpires(o)

Next ==
    \/ AdminStep
    \/ ProcessStep
    \/ \E d \in Devices : EditLocally(d)
    \/ \E s \in Sessions : ServeStep(s) \/ ConnectionStep(s) \/ ClientStep(s)

Spec == Init /\ [][Next]_vars

\* The runtime schedules every session's task and the background task, time
\* passes, and systemd starts the process again (Restart=on-failure).  The tick
\* recurs every second and heartbeats do not put the 110 s off, so a task that
\* is again and again found waiting is in the end found overdue.
Fairness ==
    /\ WF_vars(Restart) /\ WF_vars(Serve)
    /\ \A d \in Devices : WF_vars(Reap(d)) /\ WF_vars(Recover(d))
    /\ \A o \in Ops : WF_vars(LeaseExpires(o))
    /\ \A s \in Sessions : WF_vars(ServeStep(s)) /\ SF_vars(TimeOut(s))

FairSpec == Spec /\ Fairness

------------------------------------------------------------------------------
(* Properties.                                                              *)

Message ==
    [type : {"result"}, op : Ops, report : Report]
    \cup [type : {"heartbeat"}, revision : Revisions]

Delivery ==
    [type : {"execute", "inspect_only"}, op : Ops] \cup {RevokedNotice}

DeviceRow ==
    [revoked : BOOLEAN, session : Sessions \cup {None}, snapshot : Revisions,
     saved : Revisions,
     configuration : {"unknown", "awaiting_restart", "pending_verification"}]

OperationRow ==
    [state : RowState, device : Devices \cup {None},
     command : Commands \cup {None}, owner : Sessions \cup {None},
     expired : BOOLEAN]

\* The type of every variable: the columns of the tables, the locals of a
\* session's task, the frames in flight and the Client's journal.
TypeOK ==
    /\ mgr \in {"up", "down", "recovering"}
    /\ crashes \in Nat
    /\ devices \in [Devices -> DeviceRow]
    /\ ops \in [Ops -> OperationRow]
    /\ observed \subseteq Ops
    /\ phase \in [Sessions -> Phase]
    /\ peer \in [Sessions -> Devices \cup {None}]
    /\ pending \in [Sessions -> SUBSET Capture]
    /\ inspected \in [Sessions -> SUBSET Ops]
    /\ target \in [Sessions -> Ops \cup {0}]
    /\ down \in [Sessions -> Seq(Delivery)]
    /\ up \in [Sessions -> Seq(Message)]
    /\ using \in [Devices -> Sessions \cup {None}]
    /\ journal \in [Ops -> SUBSET Report]
    /\ revision \in [Devices -> Revisions]
    /\ edits \in Nat
    /\ claimedBy \in [Ops -> Sessions \cup {None}]
    /\ sent \in [Ops -> Nat]

SameDevice(o, p) == ops[o].device = ops[p].device

\* An operation is sent to a device to be executed at most once, over every
\* takeover, lost connection, expired lease, crash and restart: no path leads
\* back to pending, and no two session tasks dispatch the same claim.
ExecuteAtMostOnce == \A o \in Ops : sent[o] <= 1

\* A device's operations are taken up in the order they were queued, and each
\* one only when the administrator or the device has settled all earlier ones:
\* an unknown outcome holds the queue, in every session of the device.
SettledBeforeNext ==
    \A o, p \in Ops :
        o < p /\ SameDevice(o, p) /\ claimedBy[p] # None => ops[o].state \in Settled

\* succeeded and failed are what the device itself did: a confirmed outcome is
\* in the Client's journal, and a failed operation left no effect there.  A
\* repeated, late or inspecting report of another operation proves neither.
OutcomeIsTrue ==
    \A o \in Ops :
        /\ ops[o].state = "succeeded" =>
              \E r \in journal[o] : r.kind = Confirmation(ops[o].command)
        /\ ops[o].state = "failed" => \E r \in journal[o] : r.kind \in Refusals

\* What a device reports of an operation counts only until it is settled: after an
\* administrator's verdict a late report adds no evidence, and evidence leaves the
\* operation unknown.  The saved revision, which the page compares the snapshot with
\* to tell a local edit, is one that the Client's journal has of an operation not
\* settled yet, and never goes back to that of an earlier patch or restart, however
\* late the evidence and whatever was edited at the device meanwhile.
EvidenceIsNotVerdict ==
    [][/\ \A o \in observed' \ observed :
             ops[o].state = "unknown" /\ ops'[o].state = "unknown"
       /\ \A d \in Devices : devices'[d].saved # devices[d].saved =>
             /\ devices'[d].saved > devices[d].saved
             /\ \E o \in Ops :
                   /\ ops[o].device = d /\ ops[o].state \in Active
                   /\ \E r \in journal[o] : devices'[d].saved = r.revision
      ]_<<ops, observed, devices>>

\* The operation's outcome and the devices row move together: the revision that a
\* succeeded patch wrote is, or was overtaken as, the device's saved revision.
SucceededPatchRecorded ==
    \A o \in Ops :
        ops[o].state = "succeeded" /\ ops[o].command = "patch_config" =>
            \E r \in journal[o] :
                /\ r.kind = "config_saved"
                /\ devices[ops[o].device].saved >= r.revision

\* What a frame tells of the configuration.
Value(m) == IF m.type = "heartbeat" THEN m.revision ELSE m.report.revision

\* A session takes a frame that tells of revision r from its connection.
TakesIn(s, r) == up[s] # <<>> /\ up'[s] = Tail(up[s]) /\ Value(Head(up[s])) = r

\* What the Manager records of a device's configuration is what the device's current
\* session, not revoked, hands over at that moment: neither a heartbeat nor a result
\* that a superseded or revoked connection still delivers changes the record, though
\* the session was the current one when the frame was received.  (What the current
\* session hands over may itself be older than the record: a heartbeat and a
\* journaled report tell of what was seen before a local edit.)
CurrentSessionRecords ==
    [][\A d \in Devices :
          \/ /\ devices'[d].snapshot = devices[d].snapshot
             /\ devices'[d].saved = devices[d].saved
          \/ \E s \in Sessions :
                /\ peer[s] = d
                /\ IsCurrent(s)
                /\ TakesIn(s, devices'[d].snapshot)]_devices

\* The session that an operation was claimed for decides on it, and only while it
\* is the current one of a device not revoked: nothing is claimed for a superseded
\* or revoked connection, however long its task was on the way to the claim, and
\* what such a connection still delivers settles nothing.
CurrentSessionDecides ==
    [][\A o \in Ops :
          <<ops[o].state, ops'[o].state>> \in
              {<<"pending", "running">>, <<"running", "succeeded">>, <<"running", "failed">>} =>
              /\ devices[ops[o].device].session = claimedBy'[o]
              /\ ~devices[ops[o].device].revoked]_ops

\* The current session of a device is replaced by a takeover only: it is cleared
\* from the row by a revocation, by its own end, or because no session survives a
\* restart, and never by the end of an earlier connection.
CurrentSessionKept ==
    [][\A d \in Devices, s \in Sessions :
          devices[d].session = s /\ devices'[d].session = None =>
              \/ devices'[d].revoked
              \/ phase[s] \notin Serving
              \/ mgr = "down"]_devices

\* A connection that is not its device's current one - revoked, superseded, or
\* yet to say Hello - becomes it or gives up its slot, even when its Client never
\* speaks again.
SlotComesFree ==
    \A s \in Sessions :
        (phase[s] \in Admitted /\ ~IsCurrent(s)) ~>
            \/ phase[s] = "done"
            \/ phase[s] \in Serving /\ IsCurrent(s)

\* A session does not wait for a result for ever: the result, the 110 s or the
\* end of the connection makes it free for the next operation.
WaitEnds == \A s \in Sessions : pending[s] # {} ~> pending[s] = {}

\* No operation stays running for ever: a report, a lost connection, the lease
\* or the next start of the process ends it, even when the claim was abandoned
\* without effect or never became a session's pending operation.
RunningEnds ==
    \A o \in Ops : ops[o].state = "running" ~> ops[o].state # "running"

\* docs/client-management-v1.md has the Client take a Revoked notice for the end of
\* its credential.  The Manager sends the same notice to a session that another
\* connection of the same Client superseded.
RevokedMeansRevoked ==
    \A s \in Sessions : \A i \in DOMAIN down[s] :
        down[s][i].type = "revoked" => devices[peer[s]].revoked

\* The whole of it keeps the promise of OperationLifecycle: whatever sessions,
\* leases, revocations and crashes do, the table is a queue per device that is
\* worked off one operation at a time.
InState(d, states) == {o \in Ops : ops[o].device = d /\ ops[o].state \in states}
Final == {"succeeded", "failed", "resolved"}

Lifecycle ==
    INSTANCE OperationLifecycle WITH
        waiting  <- [d \in Devices |-> InState(d, {"pending"})],
        active   <- [d \in Devices |-> InState(d, Active)],
        doubtful <- {o \in Ops : ops[o].state = "unknown"},
        outcome  <- [o \in Ops |->
                        CASE ops[o].state = "dead_letter" -> "sealed"
                          [] ops[o].state \in Final       -> ops[o].state
                          [] OTHER                        -> "none"]

ImplementsLifecycle == Lifecycle!Spec
==============================================================================
