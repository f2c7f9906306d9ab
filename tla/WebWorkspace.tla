----------------------------- MODULE WebWorkspace -----------------------------
(***************************************************************************)
(* One administrator's page of one device (src/web/src/ClientWorkspace.tsx *)
(* and the device list of App.tsx): what the page believes, against the    *)
(* Manager that it polls and submits to and the device whose configuration *)
(* others change as well.  A poll's answer is what the Manager had when it *)
(* answered; answers arrive in any order, late or never.  (It reads a list *)
(* row by row; here, at one moment.)                                       *)
(*                                                                         *)
(* A configuration is its revision, 0 is "none read yet".  The device is   *)
(* registered and allows restarts.  The Manager and the Client are reduced *)
(* to what the page can tell of them; DeviceChannel has the rest.  The     *)
(* Client's look at the revision and what it then does are two steps, for  *)
(* somebody may edit the configuration on the device in between.           *)
(***************************************************************************)
EXTENDS Naturals, Sequences, FiniteSets

CONSTANTS
    Polls,          \* the polls of the task list that may be under way at once
    ListLimit,      \* the operations that the Manager lists (50)
    MaxRowPolls,    \* bound: the answers under way to polls of the device list
    MaxRequests,    \* bound: the requests that the page sends
    MaxRevision     \* bound: the revisions of the device's configuration

ASSUME WorkspaceAssumption ==
    /\ ListLimit \in Nat \ {0}
    /\ MaxRowPolls \in Nat /\ MaxRequests \in Nat /\ MaxRevision \in Nat \ {0}

VARIABLES
    \* the page
    operations,     \* the task list: from the numbers of operations to their states
    taskPolls,      \* [Polls -> {} or the one answer that is under way]
    device,         \* device.snapshot.revision of the last device list
    rowPolls,       \* the answers under way to the polls of the device list
    baseline,       \* the snapshot that the form compares with
    draft,          \* history: the snapshot whose fields the form was filled with
    preview,        \* {} or the patch that is previewed
    confirm,        \* {} or the request that the dialog would send
    waiting,        \* busy: the request whose answer is awaited, or 0
    \* the Manager and the device
    requests,       \* what was sent, each submission under a key of its own
    store,          \* the operations
    recorded,       \* devices.snapshot
    actual          \* the device's configuration

tasks == <<operations, taskPolls>>
rows == <<device, rowPolls>>
form == <<baseline, draft, preview>>
page == <<tasks, rows, form, confirm, waiting>>
world == <<store, recorded, actual>>
vars == <<page, requests, world>>

Revisions == 0..MaxRevision
Unfinished == {"pending", "running", "unknown"}
States == Unfinished \cup {"succeeded", "failed", "resolved"}

\* Submissions.  `seen' is the configuration whose fields the page showed.
ReadConfig == [kind |-> "read_config", expected |-> 0, seen |-> 0]
PatchConfig(expected, seen) ==
    [kind |-> "patch_config", expected |-> expected, seen |-> seen]
RestartAt(expected, seen) == [kind |-> "restart", expected |-> expected, seen |-> seen]
Verdict(n) == [kind |-> "resolve", number |-> n]

\* An operation as it is stored: `on' is the configuration that its check found,
\* `over' the one that it was carried out on.
New(command) == [command |-> command, state |-> "pending", on |-> 0, over |-> 0]

\* The page is opened; an operation of an earlier visit may be in doubt.
Init ==
    /\ actual = 1
    /\ recorded \in 0..1
    /\ device = recorded
    /\ baseline = device
    /\ draft = device
    /\ operations = <<>>
    /\ taskPolls = [p \in Polls |-> {}]
    /\ rowPolls = {}
    /\ preview = {}
    /\ confirm = {}
    /\ waiting = 0
    /\ requests = <<>>
    /\ store \in {<<>>, <<[New(ReadConfig) EXCEPT !.state = "unknown"]>>}

------------------------------------------------------------------------------
(* Polling.                                                                 *)

\* The task list as the Manager has it: the newest operations.
Listed == [n \in {m \in DOMAIN store : m + ListLimit > Len(store)} |-> store[n].state]

\* The timer: a poll is sent, and the Manager answers it.
AskTasks(p) ==
    /\ taskPolls[p] = {}
    /\ taskPolls' = [taskPolls EXCEPT ![p] = {Listed}]
    /\ UNCHANGED <<operations, rows, form, confirm, waiting, requests, world>>

\* Mutant: operations that the page knows are kept as they are.
TasksArrive_Merged(p) ==
    /\ \E answer \in taskPolls[p] :
          operations' = [n \in DOMAIN operations \cup DOMAIN answer |->
                            IF n \in DOMAIN operations THEN operations[n] ELSE answer[n]]
    /\ taskPolls' = [taskPolls EXCEPT ![p] = {}]
    /\ UNCHANGED <<rows, form, confirm, waiting, requests, world>>

\* An answer replaces the list, whatever has happened since.
TasksArrive(p) ==
    /\ operations' \in taskPolls[p]
    /\ taskPolls' = [taskPolls EXCEPT ![p] = {}]
    /\ UNCHANGED <<rows, form, confirm, waiting, requests, world>>

TasksFail(p) ==
    /\ taskPolls[p] # {}
    /\ taskPolls' = [taskPolls EXCEPT ![p] = {}]
    /\ UNCHANGED <<operations, rows, form, confirm, waiting, requests, world>>

\* The device list, every five seconds.
AskRows ==
    /\ Cardinality(rowPolls) < MaxRowPolls
    /\ rowPolls' = rowPolls \cup {recorded}
    /\ UNCHANGED <<tasks, device, form, confirm, waiting, requests, world>>

\* The first snapshot fills the form, a later one does not touch it.
RowsArrive(revision) ==
    /\ revision \in rowPolls
    /\ rowPolls' = rowPolls \ {revision}
    /\ device' = revision
    /\ IF baseline = 0
       THEN baseline' = revision /\ draft' = revision
       ELSE UNCHANGED <<baseline, draft>>
    /\ UNCHANGED <<tasks, preview, confirm, waiting, requests, world>>

------------------------------------------------------------------------------
(* The form and the buttons, which an open dialog covers.                   *)

Busy == waiting # 0
Blocked == Busy \/ \E n \in DOMAIN operations : operations[n] \in Unfinished

LoadLatest ==
    /\ ~Busy /\ confirm = {}
    /\ device # 0
    /\ baseline' = device
    /\ draft' = device
    /\ preview' = {}
    /\ UNCHANGED <<tasks, rows, confirm, waiting, requests, world>>

\* Mutant: the patch expects what the device list says, not what was edited.
Preview_Latest ==
    /\ ~Blocked /\ confirm = {}
    /\ baseline # 0
    /\ preview' = {PatchConfig(device, draft)}
    /\ UNCHANGED <<tasks, rows, baseline, draft, confirm, waiting, requests, world>>

\* "Preview changes": the difference of the edited fields to the baseline.
Preview ==
    /\ ~Blocked /\ confirm = {}
    /\ baseline # 0
    /\ preview' = {PatchConfig(baseline, draft)}
    /\ UNCHANGED <<tasks, rows, baseline, draft, confirm, waiting, requests, world>>

BackToEditing ==
    /\ preview # {} /\ confirm = {}
    /\ preview' = {}
    /\ UNCHANGED <<tasks, rows, baseline, draft, confirm, waiting, requests, world>>

\* perform and the request, whose Idempotency-Key is drawn anew.
Send(request) ==
    /\ ~Busy
    /\ Len(requests) < MaxRequests
    /\ requests' = Append(requests, [request |-> request, at |-> "sent", number |-> 0])
    /\ waiting' = Len(requests) + 1
    /\ UNCHANGED <<tasks, rows, form, world>>

SubmitRead == ~Blocked /\ confirm = {} /\ Send(ReadConfig) /\ UNCHANGED confirm

SubmitPatch ==
    /\ ~Blocked /\ confirm = {}
    /\ \E patch \in preview : Send(patch)
    /\ UNCHANGED confirm

\* The dialog keeps the device list's revision of the moment at which it was opened;
\* the fields that the page shows are the baseline's.
AskRestart ==
    /\ ~Blocked /\ confirm = {}
    /\ device # 0
    /\ confirm' = {RestartAt(device, baseline)}
    /\ UNCHANGED <<tasks, rows, form, waiting, requests, world>>

AskVerdict(n) ==
    /\ ~Busy /\ confirm = {}
    /\ operations[n] = "unknown"
    /\ confirm' = {Verdict(n)}
    /\ UNCHANGED <<tasks, rows, form, waiting, requests, world>>

\* It is confirmed without a look at what the polls have brought meanwhile.
Confirm == \E request \in confirm : Send(request) /\ confirm' = {}

CloseDialog ==
    /\ confirm # {}
    /\ confirm' = {}
    /\ UNCHANGED <<tasks, rows, form, waiting, requests, world>>

\* The answer enters the list, and the device list is loaded anew.
Answered ==
    /\ Busy
    /\ requests[waiting].at = "done"
    /\ LET n == requests[waiting].number IN
       IF requests[waiting].request.kind = "resolve"
       THEN /\ operations' = [m \in DOMAIN operations |->
                                 IF m = n THEN "resolved" ELSE operations[m]]
            /\ UNCHANGED preview
       ELSE /\ operations' = [m \in DOMAIN operations \cup {n} |->
                                 IF m = n THEN "pending" ELSE operations[m]]
            /\ preview' = {}
    /\ waiting' = 0
    /\ rowPolls' = {recorded}
    /\ UNCHANGED <<taskPolls, device, baseline, draft, confirm, requests, world>>

\* It was refused, or its answer or the request itself is lost.
NotAnswered ==
    /\ Busy
    /\ waiting' = 0
    /\ UNCHANGED <<tasks, rows, form, confirm, requests, world>>

\* The page is closed and opened again, or shows another device in between.
Reopen ==
    /\ operations' = <<>>
    /\ taskPolls' = [p \in Polls |-> {}]
    /\ baseline' = device
    /\ draft' = device
    /\ preview' = {}
    /\ confirm' = {}
    /\ waiting' = 0
    /\ UNCHANGED <<rows, requests, world>>

------------------------------------------------------------------------------
(* The Manager and the device, as the page meets them.                      *)

\* Mutant: a request is stored as often as it arrives.
Receive_Twice(i) ==
    /\ requests[i].request.kind # "resolve"
    /\ store' = Append(store, New(requests[i].request))
    /\ UNCHANGED <<page, requests, recorded, actual>>

\* A request arrives, also after the page has stopped waiting for it.
Receive(i) ==
    /\ requests[i].at = "sent"
    /\ LET request == requests[i].request IN
       IF request.kind = "resolve"
       THEN IF store[request.number].state = "unknown"
            THEN /\ store' = [store EXCEPT ![request.number].state = "resolved"]
                 /\ requests' = [requests EXCEPT ![i].at = "done",
                                                 ![i].number = request.number]
            ELSE /\ requests' = [requests EXCEPT ![i].at = "refused"]
                 /\ UNCHANGED store
       ELSE /\ store' = Append(store, New(request))
            /\ requests' = [requests EXCEPT ![i].at = "done",
                                            ![i].number = Len(store) + 1]
    /\ UNCHANGED <<page, recorded, actual>>

\* The queue: one at a time, in order.
Dispatch(n) ==
    /\ store[n].state = "pending"
    /\ \A m \in 1..(n - 1) : store[m].state \notin Unfinished
    /\ store' = [store EXCEPT ![n].state = "running"]
    /\ UNCHANGED <<page, requests, recorded, actual>>

\* Before it saves or restarts, the Client reads the configuration once more and
\* compares its revision with the expected one.
Check(n) ==
    LET operation == store[n] IN
    /\ operation.state = "running" /\ operation.on = 0
    /\ operation.command.kind # "read_config"
    /\ operation.command.expected = actual
    /\ store' = [store EXCEPT ![n].on = actual]
    /\ UNCHANGED <<page, requests, recorded, actual>>

\* It is carried out, on whatever the configuration is by then.
Done(n, state) ==
    LET kind == store[n].command.kind
        next == IF kind = "patch_config" THEN actual + 1 ELSE actual
    IN
    /\ store[n].state = "running"
    /\ kind # "read_config" => store[n].on # 0
    /\ next <= MaxRevision
    /\ store' = [store EXCEPT ![n].state = state, ![n].over = actual]
    /\ actual' = next
    /\ recorded' = IF state = "succeeded" THEN next ELSE recorded
    /\ UNCHANGED <<page, requests>>

\* It is refused, it fails, or nobody learns what became of it.
NotDone(n, state) ==
    /\ store[n].state = "running"
    /\ store' = [store EXCEPT ![n].state = state]
    /\ UNCHANGED <<page, requests, recorded, actual>>

\* Somebody edits the configuration on the device (the bound leaves a revision
\* for a patch); a heartbeat reports it.
EditLocally ==
    /\ actual < MaxRevision - 1
    /\ actual' = actual + 1
    /\ UNCHANGED <<page, requests, store, recorded>>

Heartbeat ==
    /\ recorded' = actual
    /\ UNCHANGED <<page, requests, store, actual>>

------------------------------------------------------------------------------

Poll == \/ \E p \in Polls : AskTasks(p) \/ TasksArrive(p) \/ TasksFail(p)
        \/ AskRows \/ \E revision \in rowPolls : RowsArrive(revision)
Click == \/ LoadLatest \/ Preview \/ BackToEditing \/ SubmitRead \/ SubmitPatch
         \/ AskRestart \/ Confirm \/ CloseDialog
         \/ \E n \in DOMAIN operations : AskVerdict(n)
Execute == \E n \in DOMAIN store :
    \/ Dispatch(n) \/ Check(n)
    \/ \E state \in {"succeeded", "unknown"} : Done(n, state)
    \/ \E state \in {"failed", "unknown"} : NotDone(n, state)

Next ==
    \/ Poll \/ Click \/ Answered \/ NotAnswered \/ Reopen
    \/ \E i \in DOMAIN requests : Receive(i)
    \/ Execute \/ EditLocally \/ Heartbeat

\* The timer does not stop, and a poll that is sent again and again is answered.
Fairness == \A p \in Polls : WF_vars(AskTasks(p)) /\ SF_vars(TasksArrive(p))

Spec == Init /\ [][Next]_vars
FairSpec == Spec /\ Fairness

------------------------------------------------------------------------------

\* Every value is of its kind, and a request that is waited for was sent.
TypeOK ==
    /\ {actual, recorded, device, baseline, draft} \subseteq Revisions
    /\ rowPolls \subseteq Revisions
    /\ DOMAIN operations \subseteq DOMAIN store
    /\ \A n \in DOMAIN operations : operations[n] \in States
    /\ \A n \in DOMAIN store :
          store[n].state \in States /\ {store[n].on, store[n].over} \subseteq Revisions
    /\ Len(store) <= 1 + Len(requests) /\ Len(requests) <= MaxRequests
    /\ \A i \in DOMAIN requests : /\ requests[i].at \in {"sent", "done", "refused"}
                                  /\ requests[i].number \in 0..Len(store)
    /\ waiting \in 0..Len(requests)

\* A patch that passes the Client's check is checked against the configuration that
\* the administrator had before him when he edited (the form's baseline), whatever
\* polls, edits and other operations came in between.  Nothing is claimed of an edit
\* on the device after the check, which the patch overwrites, nor of a restart, whose
\* revision is not that of the fields that the page shows.
PatchesWhatWasSeen ==
    \A n \in DOMAIN store :
        store[n].command.kind = "patch_config" /\ store[n].on # 0 =>
            store[n].command.seen = store[n].on

\* Every operation that has come to an end is at some time shown as ended, however
\* old the answers were that arrived before (ClientWorkspace's poll).
EndIsShown ==
    \A n \in 1 .. 1 + MaxRequests :
        (n \in DOMAIN store /\ store[n].state \notin Unfinished)
            ~> (n \in DOMAIN operations /\ operations[n] = store[n].state)
===============================================================================
