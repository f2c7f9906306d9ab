---------------------------- MODULE DatabaseStartup ----------------------------
(***************************************************************************)
(* The processes of one Manager database: servers, the administrator's     *)
(* offline commands and the doctor.  Each takes its locks                  *)
(* (src/src/runtime_lock.rs), opens or creates the database file           *)
(* (src/src/database_schema.rs), and then does its work (src/src/main.rs). *)
(* Any of them may fail or be killed at any step; a process is started     *)
(* once, and starting the Manager again is starting another process.       *)
(***************************************************************************)
EXTENDS FiniteSets

CONSTANTS
    Processes,      \* every process that is ever started
    Secrets,        \* credential keys, each with its id
    SecretOf,       \* the key in the environment that a process is started with
    None            \* no process

ASSUME StartupAssumption ==
    /\ None \notin Processes
    /\ SecretOf \in [Processes -> Secrets]

VARIABLES
    command,        \* what a process was started as
    at,             \* the step that a process does next
    instance,       \* who holds the instance lock
    maintenance,    \* how each process holds the maintenance lock
    file,           \* the database at the configured path, with its WAL; sealed: the
                    \* keys that the requests of its operations are encrypted with
    known,          \* history: the Managers (by creator) that someone came to rely on
    ready           \* history: the processes that reported admin-ready

vars == <<command, at, instance, maintenance, file, known, ready>>

\* A database is named by the process that created it, since that process also draws
\* the Manager's identity.
NoFile == [creator |-> None, schema |-> "none", administrator |-> None, sealed |-> {}]

NewFile(p) == [creator |-> p, schema |-> "empty", administrator |-> None, sealed |-> {}]

Init ==
    /\ command = [p \in Processes |-> "none"]
    /\ at = [p \in Processes |-> "unused"]
    /\ instance = None
    /\ maintenance = [p \in Processes |-> "none"]
    /\ file = NoFile
    /\ known = {}
    /\ ready = {}

Goto(p, step) == at' = [at EXCEPT ![p] = step]

------------------------------------------------------------------------------
(* Locks.  They are taken without waiting; the operating system releases    *)
(* them with the process.                                                   *)

\* Mutant: maintenance that creates an administrator takes the lock shared.
LockMode_Shared(c) == IF c = "admin-reset-password" THEN "exclusive" ELSE "shared"

\* How each command holds the maintenance lock.
LockMode(c) ==
    IF c \in {"admin-create", "admin-reset-password"} THEN "exclusive" ELSE "shared"

\* flock with LOCK_NB: what the other holders allow.
Grantable(mode) ==
    \A q \in Processes :
        IF mode = "exclusive" THEN maintenance[q] = "none" ELSE maintenance[q] # "exclusive"

\* Mutant: the instance lock is shared too.
LockInstance_Shared(p) ==
    /\ at[p] = "unused"
    /\ command' = [command EXCEPT ![p] = "serve"]
    /\ instance' = p
    /\ Goto(p, "maintenance")
    /\ UNCHANGED <<maintenance, file, known, ready>>

\* ApplicationLock::acquire, first lock: a server excludes other servers.
LockInstance(p) ==
    /\ at[p] = "unused"
    /\ instance = None
    /\ command' = [command EXCEPT ![p] = "serve"]
    /\ instance' = p
    /\ Goto(p, "maintenance")
    /\ UNCHANGED <<maintenance, file, known, ready>>

\* ApplicationLock::acquire, second lock; a server that does not get it ends.
LockMaintenance(p) ==
    /\ at[p] = "maintenance"
    /\ Grantable(LockMode("serve"))
    /\ maintenance' = [maintenance EXCEPT ![p] = LockMode("serve")]
    /\ Goto(p, "locked")
    /\ UNCHANGED <<command, instance, file, known, ready>>

\* MaintenanceLock: the commands that are not servers.
StartCommand(p, c) ==
    /\ at[p] = "unused"
    /\ Grantable(LockMode(c))
    /\ command' = [command EXCEPT ![p] = c]
    /\ maintenance' = [maintenance EXCEPT ![p] = LockMode(c)]
    /\ Goto(p, "locked")
    /\ UNCHANGED <<instance, file, known, ready>>

\* The process is over, in whatever way: an error, a signal, or its work is done.
Ends(p) ==
    /\ Goto(p, "ended")
    /\ instance' = IF instance = p THEN None ELSE instance
    /\ maintenance' = [maintenance EXCEPT ![p] = "none"]

Exit(p) ==
    /\ at[p] \notin {"unused", "ended"}
    /\ Ends(p)
    /\ UNCHANGED <<command, file, known, ready>>

------------------------------------------------------------------------------
(* open_or_initialize, open_existing.                                       *)

Creates(p) == command[p] \in {"serve", "admin-create"}

\* Mutant: an empty file counts as none.
CreateFile_Adopting(p) ==
    /\ at[p] = "locked"
    /\ Creates(p)
    /\ file.schema \in {"none", "empty"}
    /\ file' = NewFile(p)
    /\ Goto(p, "created")
    /\ UNCHANGED <<command, instance, maintenance, known, ready>>

\* Mutant: the new file is opened before it has its schema.
CreateFile_Opened(p) ==
    /\ at[p] = "locked"
    /\ Creates(p)
    /\ file = NoFile
    /\ file' = NewFile(p)
    /\ Goto(p, "opened")
    /\ UNCHANGED <<command, instance, maintenance, known, ready>>

\* create_new: the file is made, empty, unless the path exists.
CreateFile(p) ==
    /\ at[p] = "locked"
    /\ Creates(p)
    /\ file = NoFile
    /\ file' = NewFile(p)
    /\ Goto(p, "created")
    /\ UNCHANGED <<command, instance, maintenance, known, ready>>

\* initialize_empty: one transaction writes schema, identity and metadata.
Initialize(p) ==
    /\ at[p] = "created"
    /\ file.schema = "empty"
    /\ file' = [file EXCEPT !.schema = "current"]
    /\ Goto(p, "committed")
    /\ UNCHANGED <<command, instance, maintenance, known, ready>>

\* validate_pool and checkpoint_and_sync.
Checkpoint(p) ==
    /\ at[p] = "committed"
    /\ Goto(p, "opened")
    /\ UNCHANGED <<command, instance, maintenance, file, known, ready>>

\* Mutant: the opened database is cleaned away, too.
FailInitialization_Opened(p) ==
    /\ at[p] \in {"created", "committed", "opened"}
    /\ Goto(p, "cleaning")
    /\ UNCHANGED <<command, instance, maintenance, file, known, ready>>

\* fail_initialization: whatever failed, before the transaction or after it.
FailInitialization(p) ==
    /\ at[p] \in {"created", "committed"}
    /\ Goto(p, "cleaning")
    /\ UNCHANGED <<command, instance, maintenance, file, known, ready>>

\* cleanup_failed_initialization removes the WAL before the file: what was
\* committed and not yet checkpointed goes with it.
RemoveSidecars(p) ==
    /\ at[p] = "cleaning"
    /\ \E schema \in {file.schema, "empty"} : file' = [file EXCEPT !.schema = schema]
    /\ Goto(p, "removing")
    /\ UNCHANGED <<command, instance, maintenance, known, ready>>

RemoveFile(p) ==
    /\ at[p] = "removing"
    /\ file' = NoFile
    /\ Ends(p)
    /\ UNCHANGED <<command, known, ready>>

\* Validated on a private copy and again in the pool.
IsCurrent == file.schema = "current"

\* open_existing_path: only a database of exactly the current schema is opened.
OpenExisting(p) ==
    /\ at[p] = "locked"
    /\ IsCurrent
    /\ Goto(p, "opened")
    /\ UNCHANGED <<command, instance, maintenance, file, known, ready>>

------------------------------------------------------------------------------
(* What the process opened the database for.  The doctor and the reset of a *)
(* password change nothing that is modelled: they end with Exit.            *)

\* bootstrap_administrator creates an account only where there is none.
WithAdministrator(p) ==
    [file EXCEPT !.administrator = IF @ = None THEN p ELSE @]

\* SecretBox::decrypt: what one key sealed, no other opens.
Decrypts(p, secret) == SecretOf[p] = secret

\* Mutant: the operations are left to be decoded when they are dispatched.
RequireRuntimeState_Later(p) ==
    /\ at[p] = "opened"
    /\ command[p] = "serve"
    /\ Goto(p, "checked")
    /\ UNCHANGED <<command, instance, maintenance, file, known, ready>>

\* require_current_runtime_state: decode_task must decode every operation there is,
\* settled or not.  In pages, but nobody else writes any.
RequireRuntimeState(p) ==
    /\ at[p] = "opened"
    /\ command[p] = "serve"
    /\ \A secret \in file.sealed : Decrypts(p, secret)
    /\ Goto(p, "checked")
    /\ UNCHANGED <<command, instance, maintenance, file, known, ready>>

\* serve counts the administrators...
CountAdministrators(p) ==
    /\ at[p] = "checked"
    /\ Goto(p, IF file.administrator = None THEN "bootstrap" ELSE "recover")
    /\ UNCHANGED <<command, instance, maintenance, file, known, ready>>

\* ... and creates the first one; the answer is not looked at.
BootstrapAdministrator(p) ==
    /\ at[p] = "bootstrap"
    /\ file' = WithAdministrator(p)
    /\ Goto(p, "recover")
    /\ UNCHANGED <<command, instance, maintenance, known, ready>>

\* recover_startup, then requests are served.
StartServing(p) ==
    /\ at[p] = "recover"
    /\ Goto(p, "serving")
    /\ known' = known \cup {file.creator}
    /\ UNCHANGED <<command, instance, maintenance, file, ready>>

\* enqueue: the request is stored encrypted; no operation is ever deleted.
Enqueue(p) ==
    /\ at[p] = "serving"
    /\ file' = [file EXCEPT !.sealed = @ \cup {SecretOf[p]}]
    /\ UNCHANGED <<command, at, instance, maintenance, known, ready>>

\* admin-create reports admin-ready only for an account that it made.
AdminCreate(p) ==
    /\ at[p] = "opened"
    /\ command[p] = "admin-create"
    /\ file' = WithAdministrator(p)
    /\ IF file'.administrator = p
       THEN ready' = ready \cup {p} /\ known' = known \cup {file.creator}
       ELSE UNCHANGED <<ready, known>>
    /\ Ends(p)
    /\ UNCHANGED command

------------------------------------------------------------------------------
LockStep(p) ==
    \/ LockInstance(p)
    \/ LockMaintenance(p)
    \/ \E c \in {"admin-create", "admin-reset-password", "doctor"} : StartCommand(p, c)
    \/ Exit(p)

OpenStep(p) ==
    \/ CreateFile(p)
    \/ Initialize(p)
    \/ Checkpoint(p)
    \/ FailInitialization(p)
    \/ RemoveSidecars(p)
    \/ RemoveFile(p)
    \/ OpenExisting(p)

WorkStep(p) ==
    \/ RequireRuntimeState(p)
    \/ CountAdministrators(p)
    \/ BootstrapAdministrator(p)
    \/ StartServing(p)
    \/ Enqueue(p)
    \/ AdminCreate(p)

Next == \E p \in Processes : LockStep(p) \/ OpenStep(p) \/ WorkStep(p)

Spec == Init /\ [][Next]_vars

------------------------------------------------------------------------------
(* Properties.                                                              *)

Steps == {"unused", "maintenance", "locked", "created", "committed", "cleaning", "removing",
          "opened", "checked", "bootstrap", "recover", "serving", "ended"}

\* A file without its schema has no administrator and no operations.
Databases ==
    {NoFile} \cup
    {NewFile(p) : p \in Processes} \cup
    [creator : Processes, schema : {"current"}, administrator : Processes \cup {None},
     sealed : SUBSET Secrets]

\* Processes, locks and the database are of their types.
TypeOK ==
    /\ command \in [Processes -> {"none", "serve", "admin-create",
                                  "admin-reset-password", "doctor"}]
    /\ at \in [Processes -> Steps]
    /\ instance \in Processes \cup {None}
    /\ maintenance \in [Processes -> {"none", "shared", "exclusive"}]
    /\ file \in Databases
    /\ known \subseteq Processes
    /\ ready \subseteq Processes

\* The process has the database open, or is making it.
Open(p) == at[p] \notin {"unused", "maintenance", "locked", "ended"}

\* docs/project-workflow.md: the administrator's commands do not run beside a server,
\* and a second server does not run at all - else its recovery would put the first
\* one's running operations in doubt.  Only a doctor may look on.
WritersAlone ==
    \A p, q \in Processes :
        p # q /\ Open(p) /\ Open(q) =>
            \/ command[p] = "doctor" /\ LockMode(command[q]) = "shared"
            \/ command[q] = "doctor" /\ LockMode(command[p]) = "shared"

\* A Manager that has served, or was given an administrator, keeps its database and
\* with it the identity that Clients are bound to: no failed start and no clean-up
\* of another process's creation removes or replaces it.
IdentityKept ==
    \A c \in known : file.creator = c /\ file.schema = "current"

\* The account reported by admin-create is the Manager's administrator ever after, so
\* that no two such commands succeed and no start makes an account of its own.
AdministratorKept == \A p \in ready : file.administrator = p

\* docs/operations.md: the credential key must be that of every envelope in the
\* database.  Whatever keys the processes are started with, in whatever order and
\* however they end, no database has operations of two keys, and a server that gets as
\* far as to recover and serve them can decode every one.
OneKey ==
    /\ \A s, t \in file.sealed : s = t
    /\ \A p \in Processes :
          at[p] \in {"recover", "serving"} => \A secret \in file.sealed : Decrypts(p, secret)

\* docs/feature-inventory-and-tradeoffs.md, SUN-072: a database is created once; a
\* file that a killed process left without its schema is refused, and not changed, by
\* every later start.
RefusedUntouched ==
    [][file.schema = "empty" /\ at[file.creator] = "ended" => UNCHANGED file]_vars
==============================================================================
