------------------------------ MODULE SessionClock ------------------------------
(***************************************************************************)
(* The clocks of one Client's sessions: how long serve_client              *)
(* (src/src/http.rs) waits for a Hello, for any frame, for the result of a *)
(* task and for a send, against the lease of the operation it executes.    *)
(* Time passes in seconds, the period of the poll tick.  A task's claim    *)
(* and its dispatch, and everything that the database does, take no time.  *)
(* Takeovers and revocations are DeviceChannel's, whose leases run out at   *)
(* any time.                                                                *)
(***************************************************************************)
EXTENDS Naturals

CONSTANTS
    Silence,        \* seconds without a frame (45)
    ResultWait,     \* seconds for a result (110)
    SendWait,       \* seconds for a send, and for the Hello (10)
    Lease,          \* seconds that a claim is good for (120)
    MaxStalled      \* bound: the seconds that sends take of one wait

ASSUME ClockAssumption ==
    /\ Silence \in Nat /\ ResultWait \in Nat /\ Lease \in Nat /\ MaxStalled \in Nat
    /\ SendWait \in Nat \ {0}
    /\ ResultWait < Lease

VARIABLES
    phase,          \* the session: closed, hello, open
    silent,         \* last_seen.elapsed(), or the time waited for the Hello
    tick,           \* poll.tick(): ahead, or due
    doing,          \* the session selects what to do next, or it sends, ...
    spent,          \* ... for so many seconds
    pending,        \* none, execute, inspect
    waited,         \* dispatched.elapsed()
    stalled,        \* history: the seconds of this wait that sends took
    inspected,      \* the session inspected the operation: no, yes
    op,             \* the operation's state
    age             \* the seconds since it was claimed

session == <<phase, silent, tick, doing, spent>>
wait == <<pending, waited, stalled, inspected>>
vars == <<session, wait, op, age>>

Init ==
    /\ phase = "closed"
    /\ silent = 0
    /\ tick = "ahead"
    /\ doing = "select"
    /\ spent = 0
    /\ pending = "none"
    /\ waited = 0
    /\ stalled = 0
    /\ inspected = "no"
    /\ op = "none"
    /\ age = 0

------------------------------------------------------------------------------
(* The administrator and the lease.                                         *)

Enqueue ==
    /\ op = "none"
    /\ op' = "pending"
    /\ UNCHANGED <<session, wait, age>>

Resolve ==
    /\ op = "unknown"
    /\ op' = "none"
    /\ inspected' = "no"
    /\ UNCHANGED <<session, pending, waited, stalled, age>>

\* recover_expired, in a round of the background task.
RecoverExpired ==
    /\ op = "running"
    /\ age >= Lease
    /\ op' = "unknown"
    /\ age' = 0
    /\ UNCHANGED <<session, wait>>

------------------------------------------------------------------------------
(* The session.                                                             *)

Connect ==
    /\ phase = "closed"
    /\ phase' = "hello"
    /\ silent' = 0
    /\ UNCHANGED <<tick, doing, spent, wait, op, age>>

\* The session ends; disconnected gives the claim up.
Close ==
    /\ phase' = "closed"
    /\ silent' = 0
    /\ tick' = "ahead"
    /\ doing' = "select"
    /\ spent' = 0
    /\ pending' = "none"
    /\ waited' = 0
    /\ stalled' = 0
    /\ inspected' = "no"
    /\ IF pending = "execute" /\ op = "running"
       THEN op' = "unknown" /\ age' = 0
       ELSE UNCHANGED <<op, age>>

\* The first poll tick is ready at once.
Hello ==
    /\ phase = "hello"
    /\ phase' = "open"
    /\ silent' = 0
    /\ tick' = "due"
    /\ UNCHANGED <<doing, spent, wait, op, age>>

HelloTimesOut ==
    /\ phase = "hello"
    /\ silent = SendWait
    /\ Close

\* The connection breaks, or a frame or a send is refused.
Break ==
    /\ phase # "closed"
    /\ Close

Receiving == phase = "open" /\ doing = "select"

\* Mutant: a heartbeat restarts the wait.
Frame_Restarts ==
    /\ Receiving
    /\ silent' = 0
    /\ waited' = 0
    /\ UNCHANGED <<phase, tick, doing, spent, pending, stalled, inspected, op, age>>

\* A Pong or a heartbeat.
Frame ==
    /\ Receiving
    /\ silent' = 0
    /\ UNCHANGED <<phase, tick, doing, spent, wait, op, age>>

\* A Ping: the session sends a Pong before it does anything else.
Ping ==
    /\ Receiving
    /\ silent' = 0
    /\ doing' = "send"
    /\ spent' = 0
    /\ UNCHANGED <<phase, tick, wait, op, age>>

\* complete takes the result: as evidence on an unknown operation, or as the outcome of
\* one whose lease has not run out.
Takes ==
    \/ pending = "inspect" /\ op = "unknown"
    \/ pending = "execute" /\ op = "running" /\ age < Lease

\* The awaited result.  One that complete refuses ends the session.
Result ==
    /\ Receiving
    /\ pending # "none"
    /\ IF Takes
       THEN /\ silent' = 0
            /\ pending' = "none"
            /\ waited' = 0
            /\ stalled' = 0
            /\ op' \in IF pending = "execute" THEN {"none", "unknown"} ELSE {op}
            /\ age' = 0
            /\ UNCHANGED <<phase, tick, doing, spent, inspected>>
       ELSE Close

\* Mutant: silence is excused while a result is awaited.
GivesUp_Excused ==
    IF pending = "none" THEN silent > Silence ELSE waited > ResultWait

GivesUp ==
    \/ silent > Silence
    \/ pending # "none" /\ waited > ResultWait

\* The task is sent, and the wait for its result begins.
Dispatch(kind) ==
    /\ pending' = kind
    /\ waited' = 0
    /\ stalled' = 0
    /\ doing' = "send"
    /\ spent' = 0

\* The poll tick.
Poll ==
    /\ Receiving
    /\ tick = "due"
    /\ ~GivesUp
    /\ tick' = "ahead"
    /\ \/ /\ pending = "none" /\ op = "unknown" /\ inspected = "no"
          /\ Dispatch("inspect")
          /\ inspected' = "yes"
          /\ UNCHANGED <<op, age>>
       \/ /\ pending = "none" /\ op = "pending"
          /\ Dispatch("execute")
          /\ op' = "running"
          /\ age' = 0
          /\ UNCHANGED inspected
       \/ /\ pending # "none" \/ op \notin {"pending", "unknown"} \/ (op = "unknown" /\ inspected = "yes")
          /\ UNCHANGED <<doing, spent, wait, op, age>>
    /\ UNCHANGED <<phase, silent>>

GiveUp ==
    /\ Receiving
    /\ tick = "due"
    /\ GivesUp
    /\ Close

Sent ==
    /\ doing = "send"
    /\ doing' = "select"
    /\ spent' = 0
    /\ UNCHANGED <<phase, silent, tick, wait, op, age>>

SendTimesOut ==
    /\ doing = "send"
    /\ spent = SendWait
    /\ Close

------------------------------------------------------------------------------
\* A second passes; what is due by then has been done.  The next tick is ready, one
\* missed during a send is made up once.
Tick ==
    /\ phase = "hello" => silent < SendWait
    /\ phase = "open" => tick = "ahead" \/ doing = "send"
    /\ doing = "send" => spent < SendWait /\ stalled < MaxStalled
    /\ silent' = IF phase = "closed" THEN 0 ELSE silent + 1
    /\ tick' = IF phase = "open" THEN "due" ELSE "ahead"
    /\ spent' = IF doing = "send" THEN spent + 1 ELSE 0
    /\ waited' = IF pending = "none" THEN 0 ELSE waited + 1
    /\ stalled' = IF pending # "none" /\ doing = "send" THEN stalled + 1 ELSE stalled
    /\ age' = IF op = "running" THEN age + 1 ELSE 0
    /\ UNCHANGED <<phase, doing, pending, inspected, op>>

Next ==
    \/ Enqueue \/ Resolve \/ RecoverExpired
    \/ Connect \/ Hello \/ HelloTimesOut \/ Break
    \/ Frame \/ Ping \/ Result
    \/ Poll \/ GiveUp
    \/ Sent \/ SendTimesOut
    \/ Tick

Spec == Init /\ [][Next]_vars

------------------------------------------------------------------------------
(* Properties.                                                              *)

\* Every variable is of its type, and no send takes longer than its timeout.
TypeOK ==
    /\ phase \in {"closed", "hello", "open"}
    /\ silent \in Nat /\ spent \in Nat /\ waited \in Nat /\ stalled \in Nat /\ age \in Nat
    /\ tick \in {"ahead", "due"} /\ doing \in {"select", "send"} /\ inspected \in {"no", "yes"}
    /\ pending \in {"none", "execute", "inspect"}
    /\ op \in {"none", "pending", "running", "unknown"}
    /\ spent <= SendWait

\* A Client that falls silent is noticed: also while its result is awaited and while
\* a send to it blocks, the session outlives the Client's last frame - and the time
\* until which Device::view shows it online - by no more than a send.
SilenceEnds == phase = "open" => silent <= Silence + SendWait

\* docs/operations.md:143 has executions of at most 90 seconds under leases of 120;
\* this code enforces no such limit on the Client, it waits for a result for 110 of the
\* lease's 120 seconds.  A result that the session can read finds
\* its lease run out, and background recovery takes the operation from a session that
\* executes it, only if sends took up what there is between the two, but for the
\* second until the next tick.
LeaseOutlivesWait ==
    pending = "execute" /\ age >= Lease => stalled + 1 >= Lease - ResultWait
==============================================================================
