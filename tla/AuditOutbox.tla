------------------------------ MODULE AuditOutbox ------------------------------
(***************************************************************************)
(* How the transitions of operations get into the audit log.  The store    *)
(* writes an event for each transition into its outbox, in the transition's *)
(* own transaction; deliver_outbox (src/src/operations.rs) copies them to  *)
(* audit_logs, once before the Manager serves and then in every round of   *)
(* the background task.  Statements may fail, the process may die at any   *)
(* step and is started again, and the wall clock may be set back.          *)
(***************************************************************************)
EXTENDS Naturals, Sequences, FiniteSets

CONSTANTS
    Ops,            \* the operations
    BatchSize,      \* events that one call of deliver_outbox looks at (128)
    MaxEvents       \* bound: events in the outbox at which nothing more is asked for

ASSUME OutboxAssumption == BatchSize \in Nat \ {0} /\ MaxEvents \in Nat

VARIABLES
    at,             \* what the process is at: its startup, then the background task
    initial,        \* the process is delivering for the first time and not yet serving
    batch,          \* the events that this call read and has not delivered yet
    clock,          \* the wall clock
    setBack,        \* the clock was set back; bound: once
    state,          \* operations table: state
    created,        \* operations table: created_at_micros
    events,         \* the outbox; an event's number stands for its event_id
    marked,         \* the events that have a delivered_at_micros
    log,            \* audit_logs: the rows with an outbox_id, in the order of their ids
    authored        \* audit_logs: for each operation, its operation.resolve rows

processVars == <<at, initial, batch>>
clockVars   == <<clock, setBack>>
tableVars   == <<state, created, events>>
logVars     == <<marked, log, authored>>
vars == <<processVars, clockVars, tableVars, logVars>>

Init ==
    /\ at = "down"
    /\ initial = FALSE
    /\ batch = {}
    /\ clock = 1
    /\ setBack = FALSE
    /\ state = [o \in Ops |-> "absent"]
    /\ created = [o \in Ops |-> 0]
    /\ events = <<>>
    /\ marked = {}
    /\ log = <<>>
    /\ authored = [o \in Ops |-> 0]

------------------------------------------------------------------------------
(* Transactions that write operations.                                      *)

\* The router answers: the first delivery is over.
Serving ==
    /\ at \in {"reading", "delivering", "expiring"}
    /\ ~initial
    /\ Len(events) < MaxEvents

\* A row moves to another state and the event is written with it.  The table
\* refuses a row updated before it was created.
Move(o, to) ==
    /\ clock >= created[o]
    /\ state' = [state EXCEPT ![o] = to]
    /\ events' = Append(events, [op |-> o, from |-> state[o], to |-> to, time |-> clock])
    /\ clock' = clock + 1
    /\ UNCHANGED <<created, setBack>>

Enqueue(o) ==
    /\ Serving
    /\ state[o] = "absent"
    /\ state' = [state EXCEPT ![o] = "pending"]
    /\ created' = [created EXCEPT ![o] = clock]
    /\ clock' = clock + 1
    /\ UNCHANGED <<processVars, setBack, events, logVars>>

\* next, complete and disconnected, of any session; failed is like succeeded here.
Progress(o) ==
    /\ Serving
    /\ \/ state[o] = "pending" /\ Move(o, "running")
       \/ state[o] = "running" /\ \E to \in {"succeeded", "unknown"} : Move(o, to)
    /\ UNCHANGED <<processVars, logVars>>

\* Mutant: the verdict is audited in a transaction of its own, which may not happen.
Resolve_Later(o) ==
    /\ Serving
    /\ \/ state[o] = "unknown" /\ \E to \in {"resolved", "dead_letter"} : Move(o, to)
       \/ state[o] = "dead_letter" /\ Move(o, "resolved")
    /\ \/ authored' = [authored EXCEPT ![o] = @ + 1]
       \/ UNCHANGED authored
    /\ UNCHANGED <<processVars, marked, log>>

\* resolve_for_actor: the verdict and who gave it are one transaction.
Resolve(o) ==
    /\ Serving
    /\ \/ state[o] = "unknown" /\ \E to \in {"resolved", "dead_letter"} : Move(o, to)
       \/ state[o] = "dead_letter" /\ Move(o, "resolved")
    /\ authored' = [authored EXCEPT ![o] = @ + 1]
    /\ UNCHANGED <<processVars, marked, log>>

------------------------------------------------------------------------------
(* The process: start-up, then the background task.                         *)

\* The supervisor starts the Manager again (the unit file's Restart=on-failure).
Start ==
    /\ at = "down"
    /\ at' = "recovering"
    /\ initial' = TRUE
    /\ UNCHANGED <<batch, clockVars, tableVars, logVars>>

\* recover_startup: one transaction for each namespace.
RecoverRunning(o) ==
    /\ at = "recovering"
    /\ state[o] = "running"
    /\ Move(o, "unknown")
    /\ UNCHANGED <<processVars, logVars>>

Recovered ==
    /\ at = "recovering"
    /\ \A o \in Ops : state[o] # "running"
    /\ at' = "reading"
    /\ UNCHANGED <<initial, batch, clockVars, tableVars, logVars>>

Unmarked == DOMAIN events \ marked

\* The events in the log.
Logged == {log[i] : i \in DOMAIN log}

\* n has the oldest created_at_micros of the set.
Oldest(S, n) == n \in S /\ \A m \in S : events[n].time <= events[m].time

\* Mutant: the newest events are read first.
Pending_Newest(S) ==
    /\ S \subseteq Unmarked
    /\ Cardinality(S) <= BatchSize
    /\ Cardinality(S) < BatchSize => S = Unmarked
    /\ \A n \in S, m \in Unmarked \ S : events[n].time >= events[m].time

\* Mutant: without its LIMIT.
Pending_Unlimited(S) == S = Unmarked

\* Mutant: delivered events are read again.
Pending_Delivered(S) ==
    /\ S \subseteq DOMAIN events
    /\ Cardinality(S) <= BatchSize
    /\ Cardinality(S) < BatchSize => S = DOMAIN events
    /\ \A n \in S, m \in DOMAIN events \ S : events[n].time <= events[m].time

\* pending_audit_events: the first BatchSize undelivered events in the order of the
\* outbox's index.
Pending(S) ==
    /\ S \subseteq Unmarked
    /\ Cardinality(S) <= BatchSize
    /\ Cardinality(S) < BatchSize => S = Unmarked
    /\ \A n \in S, m \in Unmarked \ S : events[n].time <= events[m].time

\* deliver_outbox, first statement.
ReadBatch ==
    /\ at = "reading"
    /\ \E S \in SUBSET DOMAIN events : Pending(S) /\ batch' = S
    /\ at' = "delivering"
    /\ UNCHANGED <<initial, clockVars, tableVars, logVars>>

\* Mutant: the log and the mark are written in two transactions.
DeliverNext_TwoSteps ==
    /\ at = "delivering"
    /\ \E n \in batch :
          /\ Oldest(batch, n)
          /\ log' = Append(log, n)
          /\ \/ marked' = marked \cup {n} /\ batch' = batch \ {n} /\ UNCHANGED at
             \/ at' = "down" /\ batch' = {} /\ UNCHANGED marked
    /\ UNCHANGED <<initial, clockVars, tableVars, authored>>

\* One event: its row, unless the log has it, and its mark, in one transaction.
DeliverNext ==
    /\ at = "delivering"
    /\ \E n \in batch :
          /\ Oldest(batch, n)
          /\ batch' = batch \ {n}
          /\ log' = IF n \in Logged THEN log ELSE Append(log, n)
          /\ marked' = marked \cup {n}
    /\ UNCHANGED <<at, initial, clockVars, tableVars, authored>>

\* Every event of the batch is delivered: the first time serve goes on to start the
\* background task, whose rounds go on to the expired leases.
Delivered ==
    /\ at = "delivering"
    /\ batch = {}
    /\ at' = IF initial THEN "reading" ELSE "expiring"
    /\ initial' = FALSE
    /\ UNCHANGED <<batch, clockVars, tableVars, logVars>>

\* recover_expired, for a lease that may have run out by now; then the pause.
Expire(o) ==
    /\ at = "expiring"
    /\ state[o] = "running"
    /\ Move(o, "unknown")
    /\ UNCHANGED <<processVars, logVars>>

RoundOver ==
    /\ at = "expiring"
    /\ at' = "reading"
    /\ UNCHANGED <<initial, batch, clockVars, tableVars, logVars>>

\* A statement of the first delivery fails: serve logs a warning and goes on.
GiveUpInitial ==
    /\ at \in {"reading", "delivering"}
    /\ initial
    /\ at' = "reading"
    /\ initial' = FALSE
    /\ batch' = {}
    /\ UNCHANGED <<clockVars, tableVars, logVars>>

\* The process ends: it dies, is shut down, its recovery fails, or a statement of the
\* background task does, which is registered as critical.
Stop ==
    /\ at # "down"
    /\ at' = "down"
    /\ initial' = FALSE
    /\ batch' = {}
    /\ UNCHANGED <<clockVars, tableVars, logVars>>

------------------------------------------------------------------------------
(* The wall clock moves on with every write; an operator may set it back.   *)

Times == {created[o] : o \in Ops} \cup {events[n].time : n \in DOMAIN events}

SetBack ==
    /\ ~setBack
    /\ clock > 1
    /\ setBack' = TRUE
    /\ clock' = 1
    /\ UNCHANGED <<processVars, tableVars, logVars>>

\* Time passes until the clock is where it was.
CatchUp ==
    /\ \E t \in Times :
          /\ clock <= t
          /\ \A u \in Times : u <= t
          /\ clock' = t + 1
    /\ UNCHANGED <<setBack, processVars, tableVars, logVars>>

------------------------------------------------------------------------------
Request(o) == Enqueue(o) \/ Progress(o) \/ Resolve(o)

Recover == (\E o \in Ops : RecoverRunning(o)) \/ Recovered

StartStep == Start \/ Recover \/ GiveUpInitial

Round == ReadBatch \/ DeliverNext \/ Delivered \/ (\E o \in Ops : Expire(o)) \/ RoundOver

Next ==
    \/ \E o \in Ops : Request(o)
    \/ StartStep
    \/ Round
    \/ Stop
    \/ SetBack
    \/ CatchUp

Spec == Init /\ [][Next]_vars

\* The process is started again, its tasks are scheduled, the clock moves; a statement
\* that is tried again and again does not fail every time.
Fairness ==
    /\ WF_vars(Start)
    /\ WF_vars(CatchUp)
    /\ SF_vars(Recover)
    /\ SF_vars(ReadBatch)
    /\ SF_vars(DeliverNext)
    /\ WF_vars(Delivered \/ RoundOver)

FairSpec == Spec /\ Fairness

------------------------------------------------------------------------------
(* Properties.                                                              *)

States == {"absent", "pending", "running", "unknown", "succeeded", "resolved",
           "dead_letter"}

\* Every variable is of its type, and a call of deliver_outbox has no more than its
\* batch to deliver.
TypeOK ==
    /\ at \in {"down", "recovering", "reading", "delivering", "expiring"}
    /\ initial \in BOOLEAN
    /\ batch \subseteq DOMAIN events
    /\ Cardinality(batch) <= BatchSize
    /\ clock \in Nat
    /\ setBack \in BOOLEAN
    /\ state \in [Ops -> States]
    /\ created \in [Ops -> Nat]
    /\ events \in Seq([op : Ops, from : States, to : States, time : Nat])
    /\ marked \subseteq DOMAIN events
    /\ log \in Seq(DOMAIN events)
    /\ authored \in [Ops -> Nat]

\* docs/project-workflow.md: events are copied idempotently under their stable id.
\* Over failed statements and killed processes no transition is in the log twice, and
\* exactly those in it are marked.
LoggedOnce ==
    /\ \A i, j \in DOMAIN log : log[i] = log[j] => i = j
    /\ Logged = marked

\* Unless the clock was set back, the log tells the transitions of an operation in the
\* order in which they happened and without a gap, batch by batch and whatever stops
\* delivering between two of them.
LogTellsHistory ==
    ~setBack =>
        \A i \in DOMAIN log : \A n \in DOMAIN events :
            events[n].op = events[log[i]].op /\ n < log[i] =>
                \E j \in DOMAIN log : j < i /\ log[j] = n

\* The verdicts on o: transitions that only a human causes.
Verdicts(o) ==
    {n \in DOMAIN events : events[n].op = o /\ events[n].to \in {"resolved", "dead_letter"}}

\* docs/operations.md: a verdict and the audit of who gave it are one transaction - at
\* no moment, crash or not, is there a verdict without its author.
VerdictHasAuthor == \A o \in Ops : authored[o] = Cardinality(Verdicts(o))

\* Every transition comes to be in the log, however often delivering fails.
EveryTransitionLogged ==
    \A n \in 1 .. MaxEvents + Cardinality(Ops) : n \in DOMAIN events ~> n \in Logged
==============================================================================
