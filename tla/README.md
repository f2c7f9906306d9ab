# Verification of Sunshine Manager

Sunshine Manager is a central server: administrators submit operations
(read the configuration, patch it, restart Sunshine) for devices, and the
Client program on each device fetches them over a WebSocket and reports what
came of them.  This directory holds TLA+ models of that server, the TLC runs
that check them, and proofs checked by TLAPS.

The promise at the centre, from which most of the properties follow: *an
operation reaches a device at most once, a device does one operation at a time
in the order they were queued, and when the Manager does not know what became of
one, it neither repeats it nor goes on until a human has decided.*

## The system: inventory

| Part | Code | State it keeps | Operations | Interacts with |
|---|---|---|---|---|
| Operation manager | `src/src/operations.rs` | `_sarmg_operations`, `client_observations` | `enqueue`, `resolve_for_actor`, `next`, `uncertain`, `complete`, `disconnected`, `recover_startup`, `run_until`, `deliver_outbox` | called by the HTTP routes, the sessions, the background task and startup; writes the `devices` row in `complete` |
| Client channel | `src/src/http.rs` (`client_connect`, `serve_client`) | per task: `pending`, `inspected`, deadlines; a permit of 256 `client_slots`; `devices.session_id` | upgrade, Hello, heartbeat, result, one-second tick, time-outs, clean-up | the Client by frames; every other task only through the database |
| Device registry | `src/src/db.rs` | `devices` | `create_device`, `resolve_pairing`, `cancel_pairing`, `enroll`, `authenticate_device`, `rename`, `revoke` | HTTP routes; the sessions read its rows |
| Foundation operation store | a library; used by `operations.rs` | the operations table, leases, audit outbox | `enqueue_in`, `claim_next_in`, `apply_transition_owned_in`, `abandon_claim`, `recover_running`, `recover_expired`, `resolve_in` | the operation manager |
| Client | a program of another repository | a durable journal of results, the device's configuration | execute, inspect, heartbeat | the channel |
| Protocol policy | `src/protocol/src` | none | validation of tasks, revisions and reports | both ends |
| Administrator routes | `src/src/http.rs` | none | the registry's and operation manager's calls | browser |
| Audit outbox | `operations.rs` (`deliver_outbox`), `db.rs` (`audit`) | `audit_logs`, outbox events | deliver a batch of at most 128 | the background task |
| Runtime locks, schema initialisation | `runtime_lock.rs`, `database_schema.rs` | lock files, the database file | acquire, create, verify | startup, maintenance commands |
| Startup and command line | `main.rs` | the process | `serve`, maintenance commands | all of the above |
| Release verifier | `release_bundle.rs`, `release_contract.rs` | none | verify a tree on disk | build and deployment |
| Secrets, configuration, errors | `crypto.rs`, `config.rs`, `error.rs` | none | pure | all |
| Web administration | `src/web` | page state | poll, submit | the routes |
| Administrator authentication | Foundation library | its own tables | login, sessions | the routes |

### What is hard here

- **Interleaving.** Every session is a task that stops at each database
  statement.  Between two stops another session may take the device over, an
  administrator revoke it or settle the operation, or the background task
  recover an expired lease.
- **Values held across an await.** `pending` is captured at dispatch and used
  when the result arrives; `current` is read at a frame or a tick and used in a
  later statement; `uncertain` reads an id and then the row.
- **Ordering.** A result may be repeated, may arrive on a newer connection, may
  follow the verdict; two Hellos may be handled in the other order.
- **Crash and restart.** The process may die with operations running, the
  connections go with it, the Client's journal stays.
- **Partial failure.** The abandonment after a lost connection is a statement
  whose error is ignored; a claim is committed before the operation is decoded.
- **Time.** 10 s for the Hello, 45 s of silence, 110 s for a result, 120 s of
  lease, a one-second poll.
- **The clock.** `created_at` is the order of the queue and of the audit log, and the
  schema refuses an update older than its row: a clock that is set back changes both.
- **Stale pages.** The browser's polls overtake each other and its own submissions.
- **Bounds.** 256 connections, 4096 devices, 128 audit events per batch, 50 listed
  operations.

`PROJECT.json` lists each of these at the line where it bites, with the
properties that would catch it going wrong.

### What makes each part correct

- *Operation manager and store*: at most one dispatch per operation; queue order;
  an unknown outcome holds the queue; evidence from a device is not a verdict;
  only the device's current session claims, settles its claim and records; the saved
  revision agrees with the settled patches; nothing stays running for ever.
- *Client channel*: the current session is replaced only by a takeover, a
  revocation or its own end; a session that lost the device or whose Client is
  silent gives its slot back; waiting for a result ends.
- *Device registry and intake*: a pairing code binds one installation once and never
  after a cancellation or a revocation; a revoked device never authenticates again;
  one intent of an administrator is one operation, for one installation.
- *Audit outbox*: every transition is in the log exactly once, over crashes and
  concurrent deliverers.
- *Runtime locks, schema initialisation, startup*: servers and maintenance never run
  at once; the Manager's identity and its administrator survive every failed or
  killed start; a half-made database is refused and left alone; its operations are all
  of one key.
- *Release verifier*: what is accepted is exactly what the manifest lists, what is exact
  is accepted.
- *Web administration*: a patch passes the device's check only on the configuration that
  it was edited on; the page comes to show how every operation ended.

## Modules

| Module | What it is |
|---|---|
| `OperationStore` | The operations table as the library keeps it: one operator per store call. It is outside the repository; it is written from how `operations.rs` calls it, what `tests/client_control.rs` observes, and what the schema enforces. |
| `OperationLifecycle` | Abstract specification: what an administrator is promised about a device's operations, without database, sessions, leases or messages. |
| `DeviceChannel` | The core: the Manager process, the tables, the session tasks, the frames and the Clients. |
| `MCDeviceChannel` | `DeviceChannel` with the symmetry used by the safety runs. |
| `DeviceRegistry` | The devices table under the administrator's and the Clients' requests, and `enqueue` with its idempotency keys. |
| `DatabaseStartup` | The processes of one database: locks, creation and clean-up of the file, the first administrator. |
| `GenerationSnapshot` | How the files of an existing database are copied to be validated while a server may be writing to them. |
| `AuditOutbox` | How the transitions of operations get into the audit log, over failures, restarts and a clock that is set back. |
| `SessionClock` | The limits of 10, 45, 110 and 120 seconds of one Client's sessions against each other, in seconds. |
| `ReleaseTree` | `verify-release`: a manifest against a tree on disk. |
| `WebWorkspace` | The administrator's page of one device against the Manager that it polls. |
| `MCDeviceRegistry`, `MCDatabaseStartup`, `MCReleaseTree` | The symmetry and the values used by their runs. |
| `DeviceChannel_proofs` | Theorems about `DeviceChannel` in four parts: types; the queue with its claims, outcomes and sessions; the refinement of `OperationLifecycle`; what is recorded of a device's configuration. |
| `DeviceRegistry_proofs`, `DatabaseStartup_proofs`, `GenerationSnapshot_proofs`, `AuditOutbox_proofs`, `ReleaseTree_proofs`, `SessionClock_proofs`, `WebWorkspace_proofs` | The inductive invariants of these modules, their types and the safety properties of their runs. |

`DeviceChannel` composes the operation manager, the store, the channel and the Client.
`AuditOutbox` and `SessionClock` look at the same operations from another side and reduce
them to what that side can tell apart: `AuditOutbox` to their transitions, `SessionClock`
to one operation and the time since its claim.  `DeviceChannel` lets a lease run out at
any moment; `SessionClock` says which of those moments there are.

### DeviceChannel and the code

`serve_client` is cut at its awaits, and only there: a handler's code between
two awaits is one action, because nothing else can observe a state in between.
The value of `phase[s]` names the await:

| phase | the task stands |
|---|---|
| `unused` | the connection does not exist yet |
| `upgraded` | waiting for the Hello (10 s) |
| `idle` | in the `select!`: a frame, or the tick |
| `received` | a frame was read and `current` checked; the frame's own statement is next |
| `polled` | the tick found the session current and nothing pending; `uncertain`'s first statement is next |
| `inspecting` | between the two statements of `uncertain` |
| `claiming` | no unknown operation; `next` is the next transaction |
| `closing` | `serve_client` has returned; `disconnected` is next |
| `clearing` | `UPDATE devices SET session_id=NULL ... AND session_id=?` is next |
| `done` | the task has ended, its slot is free |

| Code | Actions |
|---|---|
| `enqueue`, `resolve_for_actor`, `revoke` | `Enqueue`, `Resolve`, `Revoke` |
| `client_connect` up to the upgrade; Hello | `Connect`; `Hello` |
| a frame: `current`, then the heartbeat's `UPDATE` or `complete` | `Receive`, then `HandleHeartbeat`, `HandleResult` or `RefuseResult` |
| the tick: `current`, `uncertain` (two statements), `next` and the dispatch | `Tick`, `FindUncertain`, `Inspect`, `Claim` |
| 10 s / 110 s; any other end of `serve_client` | `TimeOut`; `Disconnect` |
| after `serve_client`: `disconnected`, clearing the row | `Abandon`, `Clear` |
| the background task's expiry round | `Reap` |
| the end of the process; `recover_startup`; serving | `Crash`; `Restart`, `Recover`; `Serve` |
| the Client | `ClientExecute`, `ClientInspect`, `ClientRepeat`, `ClientHeartbeat` |
| an edit at the device, which `drift_detected` (`db.rs`) is there to show | `EditLocally` |

State: `devices` and `ops` are the tables, reduced to the columns that decide
something; `observed` is `client_observations`; `pending`, `inspected` and
`target` are locals of a task; `down` and `up` are the frames of a connection in
each direction; `journal` and `revision` are the Client's durable record and the
device's actual configuration; `edits` counts the edits at the devices; `claimedBy`
and `sent` are history variables that no guard reads.

Choices that matter:

- *Failing statements.* Every await of a session can fail (`Disconnect`); the two
  clean-up statements can fail without effect (first disjuncts of `Abandon` and
  `Clear`), because `client_connect` ignores their errors.
- *Leases.* `LeaseExpires` may happen at any moment of a claim, which includes the
  moment the code's clock would choose.
- *An operation's number* stands for its place in the order of `created_at`.  Two
  operations of one device in the same microsecond are outside the model; a wall
  clock that is set back is in `AuditOutbox`.
- *The owner of a claim* is the session that made it, for all of its claims.
  (`docs/operations.md` speaks of a unique owner per claim; at most one claim of a session
  is open at a time, so nothing here rests on the difference.)
- *Devices* start enrolled and never connected.
- *The Client* is fixed only as far as the protocol and
  `docs/client-management-v1.md` fix it: it keeps a journal, executes an operation
  that the journal does not know, answers an inspecting delivery without a side
  effect, and uses one connection at a time.  It may be silent, repeat a result,
  lose the local answer with or without the effect, and reconnect at any time.  Its
  heartbeats tell of the configuration as it was when it last looked, and so of any
  revision up to the present; its journal tells of what it was when an operation ended.
- *A configuration's content* is its revision.  Patches and edits at the device
  (`EditLocally`, at any moment) each give it the next number.  The code's revision is a
  hash: contents that come back have their old hash again, here a new number.  So
  "later" in a property means written later.
- *Executing is one step.*  An edit between the Client's check and its effect, which
  `docs/client-management-v1.md` does not exclude, is overwritten as if it had come
  before the check: what is reported and recorded is the configuration written, so the
  Manager cannot tell the two apart.  `WebWorkspace`, which is about what was looked at
  before, has the check as a step of its own.
- *A journaled report may be older than the record.*  A patch whose result was lost
  writes revision 2, somebody edits 3 and a heartbeat records 3; the inspection is
  answered from the journal with 2, and `complete` writes 2 into `snapshot_json`.  The
  model has this behaviour, and no property denies it: the page shows no drift until the
  next heartbeat.

### DeviceRegistry and the code

Every request is one `BEGIN IMMEDIATE` transaction, so a request is one action; what
makes it hard is that the Client's request rests on a code looked up in an earlier
one, that answers get lost, and that anything may be repeated.

| Code | Actions |
|---|---|
| `create_device`, `cancel_pairing`, `revoke` | `CreateDevice`, `CancelPairing`, `Revoke` |
| `resolve_pairing`, then `enroll` | `Pairable`, `Enroll` |
| `authenticate_device` (also behind `client_identity`) | `Authenticates` |
| `enqueue`: a new key; the same request again; a conflict | `Enqueue`, `EnqueueAgain`, `Refuse` |

`rows` is the devices table without session and snapshot; `tasks` is the operations
table as far as the intake reads it.  `bound`, `cancelled`, `answers` and `refused` are
history variables: what the callers were told.  A command has an action, which goes
into the key's digest, and contents, which go into the request's fingerprint with the
binding.  Digest, fingerprint and token hashes are equal exactly if their inputs are.
A Client has drawn its own credential before it enrols, and a pairing code belongs to
one device; an administrator may have given it to several Clients.  The keys are those
of one administrator: the actor is part of the digest, so others' keys never meet them.

### DatabaseStartup and the code

| Code | Actions |
|---|---|
| `ApplicationLock::acquire`: instance lock, maintenance lock | `LockInstance`, `LockMaintenance` |
| `MaintenanceLock::exclusive`, `shared` | `StartCommand` |
| `open_or_initialize`; `initialize_created` | `CreateFile`; `Initialize`, `Checkpoint` |
| `fail_initialization`: sidecars, then the file | `FailInitialization`, `RemoveSidecars`, `RemoveFile` |
| `open_existing_path` | `OpenExisting` |
| `require_current_runtime_state` | `RequireRuntimeState` |
| `serve`: count, bootstrap, recover and serve | `CountAdministrators`, `BootstrapAdministrator`, `StartServing` |
| `enqueue`, sealed by the process's key | `Enqueue` |
| `admin-create` | `AdminCreate` |
| any error, signal or return | `Exit` |

A process is started once; starting the Manager again is another process.  `file` is
the database at the configured path together with its WAL: what was committed and not
checkpointed may be lost when the clean-up removes the WAL first.  A database is named
by the process that created it, which also drew the Manager's identity.  A process is
started with a credential key, `SecretOf`; `sealed` are the keys of the operations in the
database, and what one key sealed only that key opens.  `known` and
`ready` are history: the Managers that served or were given an administrator, and the
processes that reported `admin-ready`.

### GenerationSnapshot and the code

| Code | Actions |
|---|---|
| `snapshot_generation`: up to four collections | `Begin`, `Changed` |
| `copy_generation_file`: open and hash; copy and hash again | `OpenFile`, `CopyFile`, `Collected` |
| `snapshot_generation_once`: the second look at every file | `VerifyFile` |
| any other error | `Fail` |
| SQLite in the server's process (external) | `Commit`, `BeginCheckpoint`, `EndCheckpoint`, `RemoveWal` |

A file is described by the transactions whose pages it holds: the main file by the
transaction that all of its pages and the one that some of them have reached, the WAL
by the transactions whose frames it has.  `Sound` says that two files fit together,
`Content` which transaction SQLite then reads.  A hash stands for the contents.  The
rollback journal does not exist in WAL mode; of the shared memory the code looks at the
file type only.

### AuditOutbox and the code

| Code | Actions |
|---|---|
| `enqueue`; `next` and what ends a task; `resolve_for_actor` with its audit row | `Enqueue`, `Progress`, `Resolve` |
| the start of the process; `recover_startup`, operation by operation | `Start`; `RecoverRunning`, `Recovered` |
| `deliver_outbox`: the batch; one event's row and mark; its end | `ReadBatch`; `DeliverNext`; `Delivered` |
| `run_until`: expired leases, the pause | `Expire`, `RoundOver` |
| a failure of the first delivery; any other end | `GiveUpInitial`; `Stop` |
| the clock is set back, and later past all times in the database | `SetBack`, `CatchUp` |

The requests go on while the batch is delivered, so new events arrive between any two.
`Move` has the schema's `CHECK (updated_at_micros >= created_at_micros)`: after `SetBack` a
transition of an operation from the future fails, and recovery with it, until `CatchUp`.
A failure in `run_until` ends the critical background task and with it the process; the
process that is started next goes on where this one stopped: that is how the background
retry of `main.rs` and `docs/project-workflow.md` comes about.  An event that can never be
delivered does not exist: the foreign key gives every event its operation, and the
payload is always written.

### SessionClock and the code

| Code | Actions |
|---|---|
| upgrade; Hello; the Hello's 10 s | `Connect`; `Hello`; `HelloTimesOut` |
| a frame: heartbeat, ping with its pong, result | `Frame`, `Ping`, `Result` |
| the tick: give up, or `uncertain`, `next` and the dispatch | `Poll`, `GiveUp` |
| the end of a send, or its 10 s | `Sent`, `SendTimesOut` |
| any other end of the connection | `Break` |
| one second; the expiry round | `Tick`; `RecoverExpired` |
| `enqueue`, `resolve_for_actor` | `Enqueue`, `Resolve` |

While a send blocks the `select!` is not reached: `doing` is `send`, and neither the silence
nor the wait for a result is looked at.  Statements of the database take no time.

### ReleaseTree and the code

| Code | Actions |
|---|---|
| `verify_release` up to the walk | `CheckManifest` |
| the walk: a directory, a file, any mismatch, the end of a directory | `EnterDirectory`, `AcceptFile`, `Refuse`, `Leave` |
| the comparison of the counts | `Conclude` |

`stack` is the recursion: the entries of each open directory that are still to be visited,
in any order.  The tree is at rest, so the code's comparisons of device and inode numbers
before and after opening a file never fail.  A hash stands for the contents.

### WebWorkspace and the code

| Code | Actions |
|---|---|
| `load`, every two seconds; its answer or error | `AskTasks`; `TasksArrive`, `TasksFail` |
| the device list of `App.tsx` and the effect that fills the form | `AskRows`, `RowsArrive` |
| `loadLatest`, `difference`, back | `LoadLatest`, `Preview`, `BackToEditing` |
| `perform` and `submit` from the buttons | `SubmitRead`, `SubmitPatch`, by `Send` |
| the dialog: opened for a restart or a verdict, confirmed, closed | `AskRestart`, `AskVerdict`; `Confirm`, `CloseDialog` |
| what `perform` does with the answer, or with an error | `Answered`, `NotAnswered` |
| the component's key in `App.tsx`, a reload | `Reopen` |
| `submit_task`, `operation_resolve` | `Receive` |

A poll holds the list that the Manager had when it answered; several are under way and
arrive in any order.  A request whose answer is given up may still arrive.  The Client
and local edits are external.  A patch or a restart passes the Client's check (`Check`)
only at the revision that it expects; it is carried out (`Done`) on whatever the
configuration is by then, since the check is no atomic concurrency control
(`docs/remote-management.md`), and a local edit in between is overwritten.  `on` is what
the check found, `over` what the effect met.  `seen` is the configuration whose fields
the page showed: `draft`, a history variable, for a patch, the baseline for a restart.
A restart's dialog sends the device list's revision, which may be another one - the page
then shows an alert, not the fields - so that nothing is claimed of restarts.  An answer to a poll that is older than a submission takes
the submitted operation off the page until the next poll; the buttons that it blocked are
enabled meanwhile, and a click draws a new key although
`docs/feature-inventory-and-tradeoffs.md` has the page poll the original.  The second
operation is queued behind the first, and a patch among them still passes the check only
on what was seen (`PatchesWhatWasSeen`).

## Runs

| Run | Question | Instance |
|---|---|---|
| `channel_sessions` | Do overlapping connections, a revocation, expired leases and a verdict leave claim, outcome and record with the device's current session, and the row with it until it ends? | 2 sessions, 1 operation of any kind, stale heartbeats, an edit at the device, 2 slots; 1.1 million states |
| `channel_restart` | Is nothing dispatched twice over a crash, does an uncertain outcome hold the queue, are outcome and saved revision the device's own, is evidence no verdict, and does the table implement `OperationLifecycle`? | 2 sessions one after the other, 2 patches, refusals, repeated results, an edit at the device, two verdicts, 1 crash; 950 thousand states |
| `channel_liveness` | Do slots come free, waits end and running operations come to an end, with only the Manager scheduled fairly? | 2 sessions, 1 operation, heartbeats, 1 crash; 134 thousand states |
| `registry` | Do racing Clients, cancellations, revocations and repeated submissions leave one Client per code and one operation per intent? | 3 device ids for 2 rows, 3 Clients, 2 keys, 4 commands, 3 operations; 3 thousand states |
| `startup` | Do servers, administrator commands and doctors, killed at any step, leave one writer at a time, one identity and one key for ever? | 4 processes, 2 keys; 26 thousand states |
| `generation_snapshot` | Is the copy that is validated the database of one moment, and is an idle database never refused? | 3 transactions with their checkpoints, 4 attempts; 455 thousand states |
| `audit_outbox` | Is every transition in the log exactly once, in order, and in the end, over failing statements, restarts and a clock that is set back? | 2 operations, batches of 2, 4 events and those that follow; 174 thousand states |
| `release_tree` | Is a release accepted if and only if it is what its manifest lists? | right in all but one entry of the manifest and two places of the tree; 30 thousand states |
| `session_clock` | Is a silent Client noticed in time, and does a lease outlive the wait for its result? | the code's 10, 45, 110 and 120 seconds; 517 thousand states |
| `workspace` | Does a patch pass the device's check only on what the administrator edited, and does the page come to show how every operation ended? | 2 polls, 1 request, an operation of an earlier visit, 3 revisions; 218 thousand states |
| `retry_after_revocation` | Does exactly the same request return the original operation, as `docs/beginner-guide/05-durable-operations-and-recovery.md` says? Not once the device is revoked. | as `registry` |
| `revoked_notice_superseded` | Does a `revoked` notice mean a revoked credential, as `docs/client-management-v1.md` says? It does not. | 2 sessions |

What the properties say:

- `ExecuteAtMostOnce`, `SettledBeforeNext`: the dispatch promise and the queue.
- `OutcomeIsTrue`: *succeeded* and *failed* are what the device's own journal says
  of this operation.
- `EvidenceIsNotVerdict`: after a verdict a late report adds no evidence, and evidence
  leaves the operation in doubt; the saved revision is one journaled of an operation not
  settled yet and never goes back, whatever was edited at the device meanwhile.
- `SucceededPatchRecorded`: the device row and the operations agree: what a succeeded
  patch wrote is, or was overtaken as, the saved revision.
- `CurrentSessionRecords`: what is recorded is what the device's current session hands
  over at that moment.  It is not the newest there is: see above on reports and
  heartbeats older than the record.  Nor does "current" mean the connection that the
  Client uses, when an older Hello was handled late (`revoked_notice_superseded`).
- `CurrentSessionDecides`: an operation is claimed, and a claim settled, only by the
  session that claims it, while that is the current one and not revoked.
- `CurrentSessionKept`: the end of an old connection does not end the new one.
- `ImplementsLifecycle`: every step of the whole system is a step of the abstract
  queue or a stutter.
- `SlotComesFree`, `WaitEnds`, `RunningEnds`: liveness, under the fairness below.
- `OneClientPerCode`, `CancelExcludesEnroll`, `BindingLasts`: whoever was told that it is
  enrolled, or that the pairing is cancelled, was told the truth, and it stays true
  until the device is revoked.
- `TaskForItsInstallation`, `OneOperationPerIntent`: an operation is for the installation
  that its device has, and repeating a request never queues a second one.
- `WritersAlone`: of two processes that have the database open, one is a doctor.
- `IdentityKept`, `AdministratorKept`: no failed start, clean-up or second creation takes
  the identity from a Manager that is relied on, or the account from its administrator.
- `OneKey`: with whatever keys processes are started, no database has operations of two.
- `CopyIsCommitted`, `RefusalHasCause`: the copy is what some transaction left during the
  validation, and a refusal for changes had a change in every attempt.
- `RefusedUntouched`: the empty file of a killed creation is refused by every later start
  and stays as it is.  The Manager does not repair it: an operator has to remove it.
- `LoggedOnce`, `LogTellsHistory`, `EveryTransitionLogged`: the audit log has no transition
  twice, tells each operation's transitions in order and without gaps unless the clock was
  set back, and has all of them in the end.  `VerdictHasAuthor`: never a verdict without
  the row that names its author.
- `SilenceEnds`, `LeaseOutlivesWait`: a session outlives its Client's last frame by 45 s and
  one send; the lease of an operation that is still waited for runs out only if blocked
  sends used up the ten seconds between 110 and 120.  (`docs/operations.md` has executions
  of at most 90 seconds; the code here enforces no such limit, it waits for 110.)
- `AcceptedIsExact`, `RefusedHasCause`: a release is accepted exactly if tree and manifest
  agree, but for its size.
- `PatchesWhatWasSeen`: whatever polls, local edits and other operations bring in between, a
  patch passes the Client's check only on the configuration that the administrator had
  before him when he edited.  An edit on the device after the check is overwritten.
- `EndIsShown`: the page catches up with the Manager, however old the answers are that come
  in between.

### Bounds, and why they are enough

`MaxOps` (1-2), `MaxCrashes` (0-1), `MaxEdits` (0-1), `MaxInFlight` (1 frame under way to the Manager),
`Slots` (1-2), one device, two sessions.  Devices do not interact: every
statement names one device, namespace or operation, and the only thing they
share, the slots, is varied by `Slots`.  Two sessions are a takeover, in either order of
their Hellos.  What the Client may send unasked (`Unsolicited`) is heartbeats or repeated
results: each run has the kind that its properties could suffer from.  Two operations are
a queue with something behind its head, and a report of another operation.  One crash
separates before from after, and the restart clears what could tell a second one apart.
One edit at the device makes every report and heartbeat before it stale; the liveness run
has none, because nothing in it reads a revision.

Session ids are random and only compared, so the safety runs use their
symmetry; the liveness runs do not.

The registry's run has one device id more than rows, so that the capacity is met, one
Client more than rows, so that a code is contested, and commands that differ in the
action (another digest) and in the contents (a conflict).  Operations of the start-up
concern at most a creator, a second writer, a doctor and one that comes later: four
processes.  Three transactions with checkpoints and a restarted or removed WAL are at least
as many changes as there are attempts.

In `audit_outbox`, `MaxEvents` is the number of events at which nothing more is asked for;
recovery and expiry still add theirs.  With batches of `BatchSize` that makes a full batch,
one that is not, and events that come in between.  The clock is set back once: `CatchUp`
undoes what a second time could build on.  In `session_clock` the limits are the code's own
and `MaxStalled` is two seconds more than the margin that sends may use up.  The releases
of `release_tree` are wrong in at most one entry of the manifest and two places of the tree:
something missing and something else in its place is two.  In `workspace`, the request meets
an operation in doubt of an earlier visit, and three revisions are the one that was seen,
a local edit and a patch; `MaxRowPolls` is the one answer to the device list that is late.

The safety properties of all modules are also proved without bounds.

`CHECK_DEADLOCK` stays on wherever the system has always a step to take: an administrator
may revoke a device again, a page may be opened again.  `startup` and `release_tree` have it
off: when all processes have ended, or the verdict is there, nothing happens any more.

### Fairness

`FairSpec` is fair to the Manager only: no Client and no administrator ever has to
act.  It assumes that tokio schedules every session task and the background task
(`WF` of `ServeStep`, `Reap`), that a started process gets through its recovery
(`Recover`, `Serve`), that time passes (`LeaseExpires`), and that a process that ended
is started again (`Restart`): the unit file has `Restart=on-failure`, and after an
ordered shutdown the operator starts it again.  `TimeOut` is strongly fair: its
deadline of 110 s is a moment fixed at dispatch, which heartbeats do not move, so a
task that keeps leaving the `select!` for other frames is still found overdue at a
later tick.

`AuditOutbox` is fair to the process and to time: it is started again (`Start`), the clock
catches up (`CatchUp`), and the round goes on (`Delivered`, `RoundOver`).  `Recover`, `ReadBatch`
and `DeliverNext` are strongly fair: they are interrupted by every failure and restart, and
a statement that is tried again and again does not fail every time.

`WebWorkspace` is fair to the browser's timer and to the network: polls are sent, and one
that is sent again and again is answered at some time (strongly: `Reopen` and errors
interrupt it).  It is not fair to the administrator, nor to any request.

## Proofs

`DeviceChannel_proofs` proves, in its part 1, `TypeCorrect`: `Spec => []TypeOK` for any sets of
devices, sessions and commands and any bounds that satisfy `ChannelAssumption`.
`TypeOK` alone is not inductive: `HandleHeartbeat` takes the head of a sequence, and
`Inspect` uses `target`.  `TypeInv` adds `AtHand`: a task in `received` has a frame, and
one in `inspecting` has an operation.

Part 2 goes on in layers.  From `TypeInv` and `QueueInv`:

- `AtMostOnce`: `Spec => []ExecuteAtMostOnce`;
- `InOrder`: `Spec => []SettledBeforeNext`;
- `ActiveTargetUnique`: at most one operation of a device is running or unknown;
- `SessionStays`: `Spec => CurrentSessionKept`.

`QueueInv` says that an operation not yet claimed was never sent and one claimed was
sent at most once; that numbers are given out without gaps; that a row's device and
history agree with its state; and that all earlier operations of the device are
settled once an operation is claimed.  Every step that touches the table is first
shown to be one of a few kinds (`TableStep`: a row is created, claimed, or moved
from running or unknown to a later state), and the invariant is shown to survive
each kind.

`CurrentDecides`, `Spec => CurrentSessionDecides`, needs to know that what a session captured at
dispatch is still the claim: `ClaimInv` adds that the owner in a running row is the session
that claimed it, and that a captured execution was claimed by its own session and is
running or past that.

`OutcomesAreTrue`, `Spec => []OutcomeIsTrue`, follows a result from the device to the table:
`TruthInv` says that an operation told to the device was claimed (`Told`), that a result
under way is the journal's or of an operation that is past (`Said`), and that the journal
has of an operation only what executing it can end in (`Journalled`).

`Implementation`, `Spec => ImplementsLifecycle`, is the refinement (part 3): `LineInv` adds to `QueueInv` that
exactly the existing rows have a device, `RowSteps` says that a step moves at most one row,
along the arrows of the life cycle, and the lemmas after it turn each such move into a
step of `OperationLifecycle`.

Part 4 is about what is recorded of a device, whatever is edited at it meanwhile:
`SucceededPatchesRecorded`, `Spec => []SucceededPatchRecorded`; `EvidenceOnUnknown`, `Spec =>
EvidenceIsNotVerdict`; `RecordsAreCurrent`, `Spec => CurrentSessionRecords`; and `RecordStaysBehind`,
that the row is never ahead of the device.  No guard of the Manager compares revisions:
`complete` and the heartbeat write what the frame says.  That the saved revision moves
forward all the same follows in layers, each on the one before:

- `RouteInv`: a Client's connection in use is one of its device, nothing is on its way to a
  Client on any other, and every frame names an operation of its connection's device.
- `OrderInv`: what a Client has still to execute was queued after all that it executed
  (`ExecutedBefore`, `SentInOrder`; by `QueueInv`, a claim is of the first that is not
  settled).
- `JournalInv`: so the revisions in a Client's journal grow in the order of the queue
  (`JournalGrows`), with the edits at the device in the gaps between them, and a
  confirmation is of the revision that the journal has of its operation (`ReportOk`).
- `RecordInv`: reports and heartbeats under way are of the past (`FramesOk`), and what is saved
  is a revision of the journal (`SavedIsJournalled`).  What `complete` accepts is of an
  operation that is running or unknown, and so of the last one in the journal.

Of the snapshot no such order holds, as the example under "Choices that matter" shows.

`DeviceRegistry_proofs` proves `OneClient`, `CancelOrEnroll`, `BindingKept`, `TaskKept` and
`OneOperation`, one for each safety property of the run, from `RegistryInv`.  The
histories are what makes the properties interesting and what makes them not
inductive: the invariant ties them to the row (`RowInv`: who is bound is in the
installation column, the credential is that installation's until the revocation, a
cancelled row offers nothing) and to the queued operations (`AnswersQueued`,
`SingleTasks`).

`DatabaseStartup_proofs` proves `WritersApart`, `IdentityStays`, `AdministratorStays`,
`OneKeyForAll` and `RefusedStays` from `StartupInv`: which locks a process holds at each step
(`LocksOf`), that flock keeps an exclusive lock exclusive (`FlockInv`), and what a process may
therefore rely on in the file (`FileOf`), the keys of its operations included.  The one
argument behind all of it is `OthersIdle`: while a process past its locks is no doctor,
nobody else makes or uses the database.

`GenerationSnapshot_proofs` proves `CopyCommitted` and `RefusalCaused` from `SnapshotInv`.
The moment whose database the copy is, is the one at which the last file is copied
(the history variable `image`): the WAL is of that moment, and the main file, which
never takes a former state again (`Older`), is found unchanged after it.  That every
file is compared with what was copied in the same attempt is also what makes each
failed attempt have a change of its own (`CauseInv`).

`AuditOutbox_proofs` proves `LoggedExactlyOnce`, `VerdictsHaveAuthors` and `LogIsHistory` for any
batch size.  The last needs `InOrder`: while the clock only moves on, times increase
with the numbers of the events, so that every batch is a lower part of what is
undelivered, and what is marked is a lower part of everything.

`SessionClock_proofs` proves `SilenceEndsSessions` and `LeasesOutliveWaits` for any limits in which
the wait is shorter than the lease (`ClockAssumption`).  `ClockInv` says how far each clock
may be past its limit, by whether the tick is due and what a send took.

`ReleaseTree_proofs` proves `AcceptedReleaseIsExact` for any paths, manifests and trees.
`WalkInv` says that what was seen is as listed, and that what exists and was not seen is
below something that is still to be visited: when nothing is, everything was seen, and
then equal counts mean that nothing is missing.  `ExactRefusedForSize` adds to it that `bytes`
counts the bytes of what was seen (`BytesOf`, a set of bytes rather than a sum of sizes:
sums over sets need induction, the size of a union does not).

`WebWorkspace_proofs` proves `TypeCorrect` and `OnlySeenIsPatched` for any numbers of polls, requests
and revisions.  `WorkspaceInv` says that the form and the revision it is compared with
change together only (`draft = baseline`), so that every patch in the preview, on its way
or stored expects the revision that was looked at, and is checked at no other; that the page's lists
tell only of operations there are; and that the Manager has no more operations than
requests that were received, each of them once.

`TypeCorrect` in each of these modules is `Spec => []TypeOK`; for `SessionClock` and `ReleaseTree`
that is proved only, in the others a run checks it as well.

Only model-checked are the liveness properties, because the prover does not handle fairness
and `ENABLED`: `SlotComesFree`, `WaitEnds`, `RunningEnds`, `EveryTransitionLogged` and
`EndIsShown`.

## Not modelled

- Encryption, fingerprints and key hashes are taken as ideal: only which key sealed
  something is modelled.  `config.rs` and `error.rs` have no state of their own.
- The field rules of `src/protocol`: pure validation, with unit tests beside it.
- The tree of a release changing while it is verified: it is installed read-only, by
  another user.
- Renaming, pairing and revocation from the page, and the pages of several administrators:
  their requests are `DeviceRegistry`'s.
- Administrator login and origin checks belong to the Foundation library.
- Health and presence columns (`last_seen`, `health_at`, `sunshine_reachable`), names
  and timestamps are display data: no guard of the modelled code reads them.
- The link and file-type checks on paths: in `DatabaseStartup` and `GenerationSnapshot` they
  are a start or a validation that fails.
- What `admin-reset-password` and `doctor` do with the open database: the first changes a
  password, the second rolls its write back.
- Build scripts, packaging and CI.

## Plan

What is left, most important first:

1. `TaskPolicy` - the field rules of `src/protocol` (task kinds, field lengths, the
   pattern rules) against a reference definition, with the two sides of the channel
   calling the same check.
2. An abstract specification of the outbox - each transition is logged at most once,
   with what happened - implemented by `AuditOutbox`, in the manner of
   `OperationLifecycle`.
