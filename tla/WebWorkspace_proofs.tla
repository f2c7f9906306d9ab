-------------------------- MODULE WebWorkspace_proofs --------------------------
(***************************************************************************)
(* A patch is checked against what the administrator saw, for any number  *)
(* of polls, requests and revisions.  The form's fields and the revision   *)
(* it compares with change together only, so that every patch under way -  *)
(* in the preview, sent or stored - expects the revision that was looked   *)
(* at; and the Client's check finds it at no other.                        *)
(***************************************************************************)
EXTENDS WebWorkspace, FiniteSetTheorems, TLAPS

\* What is submitted: a patch expects what was seen, a restart what the list says.
Commands ==
    {ReadConfig} \cup {PatchConfig(r, r) : r \in Revisions}
                 \cup {RestartAt(r, q) : r \in Revisions, q \in Revisions}
VerdictsUpTo(k) == {Verdict(n) : n \in 1..k}
RequestsUpTo(k) == Commands \cup VerdictsUpTo(k)

Operation == [command : Commands, state : States, on : Revisions, over : Revisions]
Submission(k) ==
    [request : RequestsUpTo(k), at : {"sent", "done", "refused"}, number : 0..k]

\* A list that tells of operations the Manager has.
IsList(f) == DOMAIN f \subseteq DOMAIN store /\ f \in [DOMAIN f -> States]

Received == {i \in DOMAIN requests : requests[i].at # "sent"}

\* The Client's check of an operation has found the revision that it expects.
OnSeen(n) == store[n].on # 0 => store[n].command.expected = store[n].on

WorkspaceInv ==
    /\ {actual, recorded, device, baseline} \subseteq Revisions
    /\ draft = baseline
    /\ rowPolls \subseteq Revisions
    /\ store \in Seq(Operation)
    /\ requests \in Seq(Submission(Len(store)))
    /\ \A i \in DOMAIN requests :
          requests[i].at = "done" => requests[i].number \in DOMAIN store
    /\ Len(requests) <= MaxRequests
    /\ Len(store) <= 1 + Cardinality(Received)
    /\ waiting \in 0..Len(requests)
    /\ IsList(operations)
    /\ taskPolls = [p \in Polls |-> taskPolls[p]]
    /\ \A p \in Polls : \A answer \in taskPolls[p] : IsList(answer)
    /\ preview \subseteq Commands
    /\ confirm \subseteq RequestsUpTo(Len(store))
    /\ \A n \in DOMAIN store : OnSeen(n)

LEMMA InitWorkspace == Init => WorkspaceInv
<1>. SUFFICES ASSUME Init PROVE WorkspaceInv
  OBVIOUS
<1>1. {actual, recorded, device, baseline} \subseteq Revisions
  BY WorkspaceAssumption DEF Init, Revisions
<1>2. ReadConfig \in Commands /\ "unknown" \in States /\ 0 \in Revisions
  BY WorkspaceAssumption DEF Commands, States, Unfinished, Revisions
<1>3. store \in Seq(Operation) /\ Len(store) <= 1 /\ \A n \in DOMAIN store : OnSeen(n)
  <2>. DEFINE doubtful == [command |-> ReadConfig, state |-> "unknown", on |-> 0, over |-> 0]
  <2>1. doubtful \in Operation /\ doubtful.on = 0
    BY <1>2 DEF Operation
  <2>2. store \in {<<>>, <<doubtful>>}
    BY DEF Init, New
  <2>. HIDE DEF doubtful
  <2>3. store \in Seq(Operation) /\ Len(store) <= 1
    <3>1. CASE store = <<>>
      BY <3>1
    <3>2. CASE store = <<doubtful>>
      BY <2>1, <3>2
    <3>. QED  BY <2>2, <3>1, <3>2
  <2>4. \A n \in DOMAIN store : store[n] = doubtful
    BY <2>2
  <2>. QED  BY <2>1, <2>3, <2>4 DEF OnSeen
<1>4. Received = {}
  BY DEF Init, Received
<1>5. Cardinality(Received) = 0
  BY <1>4, FS_EmptySet
<1>6. IsList(operations)
  BY DEF Init, IsList
<1>. QED  BY <1>1, <1>3, <1>5, <1>6, WorkspaceAssumption DEF Init, WorkspaceInv

\* What may be submitted stays so while the Manager's list grows.
LEMMA RequestsGrow ==
  ASSUME NEW k \in Nat, NEW l \in Nat, k <= l
  PROVE  RequestsUpTo(k) \subseteq RequestsUpTo(l) /\ Submission(k) \subseteq Submission(l)
<1>1. RequestsUpTo(k) \subseteq RequestsUpTo(l)
  BY DEF RequestsUpTo, VerdictsUpTo
<1>. QED  BY <1>1 DEF Submission

LEMMA ReceivedIsFinite ==
  ASSUME WorkspaceInv
  PROVE  /\ IsFiniteSet(Received) /\ Cardinality(Received) \in Nat
         /\ Cardinality(Received) <= Len(requests)
<1>1. Received \in SUBSET (1 .. Len(requests)) /\ Len(requests) \in Nat
  BY DEF Received, WorkspaceInv
<1>2. IsFiniteSet(1 .. Len(requests)) /\ Cardinality(1 .. Len(requests)) = Len(requests)
  BY <1>1, FS_Interval
<1>. QED  BY <1>1, <1>2, FS_Subset, FS_CardinalityType

LEMMA StatesListed ==
  ASSUME WorkspaceInv, NEW n \in DOMAIN store
  PROVE  /\ store[n] \in Operation /\ store[n].state \in States
         /\ store[n].command \in Commands
<1>1. store[n] \in Operation
  BY DEF WorkspaceInv
<1>. QED  BY <1>1 DEF Operation

LEMMA PollKeeps ==
  ASSUME WorkspaceInv, Poll
  PROVE  WorkspaceInv'
<1>. USE DEF WorkspaceInv
<1>1. ASSUME NEW p \in Polls, AskTasks(p)
      PROVE  WorkspaceInv'
  <2>1. IsList(Listed)
    BY StatesListed DEF Listed, IsList
  <2>. QED  BY <1>1, <2>1 DEF AskTasks, rows, form, world, IsList, OnSeen, Received
<1>2. ASSUME NEW p \in Polls, TasksArrive(p) \/ TasksFail(p)
      PROVE  WorkspaceInv'
  BY <1>2 DEF TasksArrive, TasksFail, rows, form, world, IsList, OnSeen, Received
<1>3. CASE AskRows
  BY <1>3 DEF AskRows, tasks, form, world, IsList, OnSeen, Received
<1>4. ASSUME NEW revision \in rowPolls, RowsArrive(revision)
      PROVE  WorkspaceInv'
  BY <1>4 DEF RowsArrive, tasks, world, IsList, OnSeen, Received
<1>. QED  BY <1>1, <1>2, <1>3, <1>4 DEF Poll

\* What is sent is one more submission, not received yet.
LEMMA SendKeeps ==
  ASSUME WorkspaceInv, NEW request \in RequestsUpTo(Len(store)), Send(request),
         confirm' \in {confirm, {}}
  PROVE  WorkspaceInv'
<1>. DEFINE sent == [request |-> request, at |-> "sent", number |-> 0]
<1>0. requests \in Seq(Submission(Len(store))) /\ Len(store) \in Nat
  BY DEF WorkspaceInv
<1>1. sent \in Submission(Len(store)) /\ requests' = Append(requests, sent)
  BY <1>0 DEF Submission, Send
<1>2. /\ requests' \in Seq(Submission(Len(store))) /\ Len(requests') = Len(requests) + 1
      /\ \A i \in DOMAIN requests' :
            \/ i \in DOMAIN requests /\ requests'[i] = requests[i]
            \/ requests'[i] = sent
      /\ \A i \in DOMAIN requests : i \in DOMAIN requests' /\ requests'[i] = requests[i]
  BY <1>0, <1>1
<1>3. Received' = Received
  BY <1>2 DEF Received
<1>4. Len(requests') <= MaxRequests
  BY <1>0, <1>2, WorkspaceAssumption DEF Send
<1>5. waiting' \in 0 .. Len(requests')
  BY <1>0, <1>2 DEF Send
<1>. QED  BY <1>1, <1>2, <1>3, <1>4, <1>5
          DEF Send, tasks, rows, form, world, WorkspaceInv, IsList, OnSeen

LEMMA ClickKeeps ==
  ASSUME WorkspaceInv, Click
  PROVE  WorkspaceInv'
<1>0. /\ ReadConfig \in Commands /\ Commands \subseteq RequestsUpTo(Len(store))
      /\ \A r \in Revisions : PatchConfig(r, r) \in Commands
      /\ \A r \in Revisions, q \in Revisions : RestartAt(r, q) \in Commands
  BY DEF Commands, RequestsUpTo
<1>1. CASE LoadLatest \/ BackToEditing
  BY <1>1 DEF LoadLatest, BackToEditing, WorkspaceInv, tasks, rows, world, IsList, OnSeen,
              Received
<1>2. CASE Preview
  <2>1. preview' \subseteq Commands
    BY <1>0, <1>2 DEF Preview, WorkspaceInv
  <2>. QED  BY <1>2, <2>1 DEF Preview, WorkspaceInv, tasks, rows, world, IsList, OnSeen, Received
<1>3. CASE AskRestart
  <2>1. confirm' \subseteq RequestsUpTo(Len(store))
    BY <1>0, <1>3 DEF AskRestart, WorkspaceInv
  <2>. QED  BY <1>3, <2>1 DEF AskRestart, WorkspaceInv, tasks, rows, form, world, IsList, OnSeen,
                              Received
<1>4. ASSUME NEW n \in DOMAIN operations, AskVerdict(n)
      PROVE  WorkspaceInv'
  <2>1. n \in 1 .. Len(store)
    BY DEF WorkspaceInv, IsList
  <2>2. confirm' \subseteq RequestsUpTo(Len(store))
    BY <1>4, <2>1 DEF AskVerdict, RequestsUpTo, VerdictsUpTo
  <2>. QED  BY <1>4, <2>2 DEF AskVerdict, WorkspaceInv, tasks, rows, form, world, IsList, OnSeen,
                              Received
<1>5. CASE CloseDialog
  BY <1>5 DEF CloseDialog, WorkspaceInv, tasks, rows, form, world, IsList, OnSeen, Received
<1>6. CASE SubmitRead
  BY <1>0, <1>6, SendKeeps DEF SubmitRead
<1>7. CASE SubmitPatch
  BY <1>0, <1>7, SendKeeps DEF SubmitPatch, WorkspaceInv
<1>8. CASE Confirm
  BY <1>8, SendKeeps DEF Confirm, WorkspaceInv
<1>. QED  BY <1>1, <1>2, <1>3, <1>4, <1>5, <1>6, <1>7, <1>8 DEF Click

LEMMA AnswerKeeps ==
  ASSUME WorkspaceInv, Answered \/ NotAnswered \/ Reopen
  PROVE  WorkspaceInv'
<1>. USE DEF WorkspaceInv
<1>1. CASE Answered
  <2>. DEFINE n == requests[waiting].number
  <2>1. n \in DOMAIN store
    BY <1>1 DEF Answered, Busy
  <2>2. IsList(operations')
    <3>1. CASE requests[waiting].request.kind = "resolve"
      BY <1>1, <3>1 DEF Answered, IsList, States
    <3>2. CASE requests[waiting].request.kind # "resolve"
      <4>1. operations' = [m \in DOMAIN operations \cup {n} |->
                              IF m = n THEN "pending" ELSE operations[m]]
        BY <1>1, <3>2 DEF Answered
      <4>. QED  BY <2>1, <4>1 DEF IsList, States, Unfinished
    <3>. QED  BY <3>1, <3>2
  <2>3. preview' \in {preview, {}} /\ UNCHANGED store
    BY <1>1 DEF Answered, world
  <2>. QED  BY <1>1, <2>2, <2>3 DEF Answered, world, IsList, OnSeen, Received
<1>2. CASE NotAnswered
  BY <1>2 DEF NotAnswered, tasks, rows, form, world, IsList, OnSeen, Received
<1>3. CASE Reopen
  BY <1>3 DEF Reopen, rows, world, IsList, OnSeen, Received
<1>. QED  BY <1>1, <1>2, <1>3

\* An operation gets a state, is checked or is carried out.
Becomes(n, state, on, over) ==
    \/ store' = [store EXCEPT ![n].state = state] /\ on = store[n].on /\ over = store[n].over
    \/ store' = [store EXCEPT ![n].on = on] /\ state = store[n].state /\ over = store[n].over
    \/ store' = [store EXCEPT ![n].state = state, ![n].over = over] /\ on = store[n].on

LEMMA StateChanges ==
  ASSUME store \in Seq(Operation), NEW n \in DOMAIN store, NEW state \in States,
         NEW on \in Revisions, NEW over \in Revisions, Becomes(n, state, on, over)
  PROVE  /\ store' \in Seq(Operation) /\ Len(store') = Len(store)
         /\ \A m \in DOMAIN store :
               /\ store'[m].command = store[m].command
               /\ store'[m].on = IF m = n THEN on ELSE store[m].on
<1>. DEFINE x == [command |-> store[n].command, state |-> state, on |-> on, over |-> over]
<1>1. store[n] \in Operation
  OBVIOUS
<1>2. x \in Operation /\ x.command = store[n].command /\ x.on = on
  BY <1>1 DEF Operation
<1>3. store' = [store EXCEPT ![n] = x]
  BY <1>1 DEF Operation, Becomes
<1>. HIDE DEF x
<1>. QED  BY <1>2, <1>3

\* A submission has an effect once: it is no longer "sent" when it is in the list.
Settles(i, at, number) ==
    requests' = [requests EXCEPT ![i].at = at, ![i].number = number]

LEMMA AnswerCounts ==
  ASSUME WorkspaceInv, NEW i \in DOMAIN requests, requests[i].at = "sent",
         store' \in Seq(Operation), Len(store) <= Len(store'),
         NEW at \in {"done", "refused"}, NEW number \in 0 .. Len(store'),
         at = "done" => number \in DOMAIN store',
         Settles(i, at, number)
  PROVE  /\ requests' \in Seq(Submission(Len(store'))) /\ Len(requests') = Len(requests)
         /\ \A j \in DOMAIN requests' :
               requests'[j].at = "done" => requests'[j].number \in DOMAIN store'
         /\ Cardinality(Received') = Cardinality(Received) + 1
<1>. DEFINE x == [request |-> requests[i].request, at |-> at, number |-> number]
<1>1. /\ requests \in Seq(Submission(Len(store))) /\ Len(store) \in Nat /\ Len(store') \in Nat
  BY DEF WorkspaceInv
<1>2. requests \in Seq(Submission(Len(store')))
  BY <1>1, RequestsGrow
<1>3. requests[i] \in Submission(Len(store'))
  BY <1>2
<1>4. x \in Submission(Len(store'))
  BY <1>3 DEF Submission
<1>5. requests' = [requests EXCEPT ![i] = x]
  <2>1. requests = [j \in DOMAIN requests |-> requests[j]]
    BY <1>1
  <2>2. PICK r, a, k : requests[i] = [request |-> r, at |-> a, number |-> k]
    BY <1>3 DEF Submission
  <2>. DEFINE y == [requests EXCEPT ![i].at = at]
  <2>3. /\ y[i] = [request |-> r, at |-> at, number |-> k] /\ DOMAIN y = DOMAIN requests
        /\ \A j \in DOMAIN requests : j # i => y[j] = requests[j]
    BY <2>2
  <2>4. requests' = [y EXCEPT ![i].number = number]
    BY DEF Settles
  <2>5. x = [request |-> r, at |-> at, number |-> number]
    BY <2>2
  <2>. HIDE DEF x, y
  <2>6. [y[i] EXCEPT !.number = number] = x
    BY <2>3, <2>5
  <2>. QED  BY <2>1, <2>3, <2>4, <2>6
<1>6. x.at = at /\ x.number = number
  OBVIOUS
<1>. HIDE DEF x
<1>. DEFINE S == Submission(Len(store'))
<1>. HIDE DEF S
<1>7. /\ requests' \in Seq(S) /\ Len(requests') = Len(requests)
      /\ DOMAIN requests' = DOMAIN requests
      /\ \A j \in DOMAIN requests : requests'[j] = IF j = i THEN x ELSE requests[j]
  <2>1. requests \in Seq(S) /\ x \in S
    BY <1>2, <1>4 DEF S
  <2>. QED  BY <1>5, <2>1
<1>8. \A j \in DOMAIN requests' :
          requests'[j].at = "done" => requests'[j].number \in DOMAIN store'
  <2>. SUFFICES ASSUME NEW j \in DOMAIN requests, requests'[j].at = "done"
                PROVE  requests'[j].number \in DOMAIN store'
    BY <1>7
  <2>1. CASE j = i
    BY <1>6, <1>7, <2>1
  <2>2. CASE j # i
    <3>1. requests[j].number \in DOMAIN store
      BY <1>7, <2>2 DEF WorkspaceInv
    <3>. QED  BY <1>1, <1>7, <2>2, <3>1 DEF WorkspaceInv
  <2>. QED  BY <2>1, <2>2
<1>9. Received' = Received \cup {i} /\ i \notin Received
  BY <1>6, <1>7 DEF Received
<1>. QED  BY <1>7, <1>8, <1>9, ReceivedIsFinite, FS_AddElement DEF S

LEMMA ReceiveKeeps ==
  ASSUME WorkspaceInv, NEW i \in DOMAIN requests, Receive(i)
  PROVE  WorkspaceInv'
<1>. DEFINE request == requests[i].request
<1>0. /\ store \in Seq(Operation) /\ Len(store) \in Nat
      /\ requests \in Seq(Submission(Len(store)))
      /\ requests[i].at = "sent" /\ UNCHANGED <<page, recorded, actual>>
  BY DEF WorkspaceInv, Receive
<1>1. requests[i] \in Submission(Len(store))
  BY <1>0
<1>2. request \in RequestsUpTo(Len(store)) /\ requests[i].number \in 0 .. Len(store)
  BY <1>1 DEF Submission
<1>3. PICK at \in {"done", "refused"}, number \in 0 .. Len(store') :
          /\ at = "done" => number \in DOMAIN store'
          /\ Settles(i, at, number)
          /\ store' \in Seq(Operation)
          /\ Len(store) <= Len(store') /\ Len(store') <= Len(store) + 1
          /\ \A n \in DOMAIN store' : OnSeen(n)'
  <2>1. CASE /\ request.kind = "resolve" /\ store[request.number].state # "unknown"
    <3>1. requests' = [requests EXCEPT ![i].at = "refused"] /\ UNCHANGED store
      BY <2>1 DEF Receive
    <3>2. Settles(i, "refused", requests[i].number)
      <4>1. requests[i] = [request |-> request, at |-> requests[i].at,
                           number |-> requests[i].number]
        BY <1>1 DEF Submission
      <4>. QED  BY <1>0, <3>1, <4>1 DEF Settles
    <3>3. \A n \in DOMAIN store' : OnSeen(n)'
      BY <3>1 DEF WorkspaceInv, OnSeen
    <3>4. Len(store') = Len(store) /\ store' \in Seq(Operation)
      BY <1>0, <3>1
    <3>. QED  BY <1>0, <1>2, <3>2, <3>3, <3>4
  <2>2. CASE /\ request.kind = "resolve" /\ store[request.number].state = "unknown"
    <3>. DEFINE n == request.number
    <3>1. /\ store' = [store EXCEPT ![n].state = "resolved"]
          /\ requests' = [requests EXCEPT ![i].at = "done", ![i].number = n]
      BY <2>2 DEF Receive
    <3>2. n \in 1 .. Len(store)
      BY <1>2, <2>2 DEF RequestsUpTo, Commands, ReadConfig, PatchConfig, RestartAt, VerdictsUpTo,
                        Verdict
    <3>3. /\ store' \in Seq(Operation) /\ Len(store') = Len(store)
          /\ \A m \in DOMAIN store : /\ store'[m].command = store[m].command
                                     /\ store'[m].on = store[m].on
      <4>1. {store[n].on, store[n].over} \subseteq Revisions /\ "resolved" \in States /\ n \in DOMAIN store
        BY <1>0, <3>2, StatesListed DEF States, Operation
      <4>2. Becomes(n, "resolved", store[n].on, store[n].over)
        BY <3>1 DEF Becomes
      <4>. QED  BY <1>0, <4>1, <4>2, StateChanges
    <3>4. \A m \in DOMAIN store' : OnSeen(m)'
      BY <1>0, <3>3 DEF WorkspaceInv, OnSeen
    <3>5. Settles(i, "done", n)
      BY <3>1 DEF Settles
    <3>. QED  BY <1>0, <3>2, <3>3, <3>4, <3>5
  <2>3. CASE request.kind # "resolve"
    <3>. DEFINE o == [command |-> request, state |-> "pending", on |-> 0, over |-> 0]
    <3>1. /\ store' = Append(store, o)
          /\ requests' = [requests EXCEPT ![i].at = "done", ![i].number = Len(store) + 1]
      BY <2>3 DEF Receive, New
    <3>2. request \in Commands
      BY <1>2, <2>3 DEF RequestsUpTo, VerdictsUpTo, Verdict
    <3>3. o \in Operation /\ o.on = 0
      BY <3>2, WorkspaceAssumption DEF Operation, States, Unfinished, Revisions
    <3>. HIDE DEF o
    <3>4. /\ store' \in Seq(Operation) /\ Len(store') = Len(store) + 1
          /\ \A m \in DOMAIN store' : \/ m \in DOMAIN store /\ store'[m] = store[m]
                                      \/ store'[m] = o
      BY <1>0, <3>1, <3>3
    <3>5. \A n \in DOMAIN store' : OnSeen(n)'
      BY <3>3, <3>4 DEF WorkspaceInv, OnSeen
    <3>6. Settles(i, "done", Len(store) + 1)
      BY <3>1 DEF Settles
    <3>7. Len(store) + 1 \in DOMAIN store' /\ Len(store) + 1 \in 0 .. Len(store')
      BY <1>0, <3>4
    <3>. QED  BY <1>0, <3>4, <3>5, <3>6, <3>7
  <2>. QED  BY <2>1, <2>2, <2>3
<1>4. /\ requests' \in Seq(Submission(Len(store'))) /\ Len(requests') = Len(requests)
      /\ \A j \in DOMAIN requests' :
            requests'[j].at = "done" => requests'[j].number \in DOMAIN store'
      /\ Cardinality(Received') = Cardinality(Received) + 1
  BY <1>0, <1>3, AnswerCounts
<1>5. DOMAIN store \subseteq DOMAIN store' /\ Len(store') \in Nat
  BY <1>0, <1>3
<1>6. Len(store') <= 1 + Cardinality(Received')
  BY <1>0, <1>3, <1>4, <1>5, ReceivedIsFinite DEF WorkspaceInv
<1>7. RequestsUpTo(Len(store)) \subseteq RequestsUpTo(Len(store'))
  BY <1>0, <1>3, <1>5, RequestsGrow
<1>. QED  BY <1>0, <1>3, <1>4, <1>5, <1>6, <1>7
          DEF WorkspaceInv, page, tasks, rows, form, IsList

LEMMA ExecuteKeeps ==
  ASSUME WorkspaceInv, NEW n \in DOMAIN store,
         \/ Dispatch(n) \/ Check(n)
         \/ \E state \in {"succeeded", "unknown"} : Done(n, state)
         \/ \E state \in {"failed", "unknown"} : NotDone(n, state)
  PROVE  WorkspaceInv'
<1>0. /\ store \in Seq(Operation) /\ Len(store) \in Nat
      /\ store[n] \in Operation /\ {store[n].on, store[n].over} \subseteq Revisions /\ OnSeen(n)
      /\ {"running", "succeeded", "unknown", "failed"} \subseteq States
      /\ store[n].state \in States /\ actual \in Revisions /\ recorded \in Revisions
  BY StatesListed DEF WorkspaceInv, Operation, States, Unfinished
<1>1. PICK state \in States, on \in Revisions, over \in Revisions :
         /\ Becomes(n, state, on, over)
         /\ on # 0 => store[n].command.expected = on
         /\ {actual', recorded'} \subseteq Revisions
         /\ UNCHANGED <<page, requests>>
  <2>1. CASE Dispatch(n) \/ \E state \in {"failed", "unknown"} : NotDone(n, state)
    <3>1. \E state \in {"running", "failed", "unknown"} :
             Becomes(n, state, store[n].on, store[n].over)
      BY <2>1 DEF Dispatch, NotDone, Becomes
    <3>2. UNCHANGED <<page, requests, actual, recorded>>
      BY <2>1 DEF Dispatch, NotDone
    <3>. QED  BY <1>0, <3>1, <3>2 DEF OnSeen
  <2>2. CASE Check(n)
    <3>1. Becomes(n, store[n].state, actual, store[n].over)
      BY <2>2 DEF Check, Becomes
    <3>2. /\ store[n].command.expected = actual
          /\ UNCHANGED <<page, requests, actual, recorded>>
      BY <2>2 DEF Check
    <3>. QED  BY <1>0, <3>1, <3>2
  <2>3. ASSUME NEW state \in {"succeeded", "unknown"}, Done(n, state)
        PROVE  /\ Becomes(n, state, store[n].on, actual)
               /\ {actual', recorded'} \subseteq Revisions
               /\ UNCHANGED <<page, requests>>
    BY <1>0, <2>3, WorkspaceAssumption DEF Done, Revisions, Becomes
  <2>. QED  BY <1>0, <2>1, <2>2, <2>3 DEF OnSeen
<1>2. /\ store' \in Seq(Operation) /\ Len(store') = Len(store)
      /\ \A m \in DOMAIN store :
            /\ store'[m].command = store[m].command
            /\ store'[m].on = IF m = n THEN on ELSE store[m].on
  BY <1>0, <1>1, StateChanges
<1>3. DOMAIN store' = DOMAIN store
  BY <1>0, <1>2
<1>4. \A m \in DOMAIN store' : OnSeen(m)'
  BY <1>1, <1>2, <1>3 DEF OnSeen, WorkspaceInv
<1>. QED  BY <1>1, <1>2, <1>3, <1>4
          DEF WorkspaceInv, page, tasks, rows, form, IsList, Received

LEMMA WorkspaceStep == WorkspaceInv /\ [Next]_vars => WorkspaceInv'
<1>. SUFFICES ASSUME WorkspaceInv, [Next]_vars PROVE WorkspaceInv'
  OBVIOUS
<1>1. CASE UNCHANGED vars
  BY <1>1 DEF vars, page, world, tasks, rows, form, WorkspaceInv, IsList, OnSeen, Received
<1>2. CASE EditLocally
  <2>1. actual' \in Revisions
    BY <1>2, WorkspaceAssumption DEF EditLocally, WorkspaceInv, Revisions
  <2>. QED  BY <1>2, <2>1 DEF EditLocally, page, tasks, rows, form, WorkspaceInv, IsList, OnSeen,
                             Received
<1>3. CASE Heartbeat
  BY <1>3 DEF Heartbeat, page, tasks, rows, form, WorkspaceInv, IsList, OnSeen, Received
<1>. QED  BY <1>1, <1>2, <1>3, PollKeeps, ClickKeeps, AnswerKeeps, ReceiveKeeps, ExecuteKeeps
          DEF Next, Execute

\* ClientWorkspace: every patch on its way expects what was seen, and each submission
\* is at most once in the Manager's list.
THEOREM WorkspaceInvariant == Spec => []WorkspaceInv
  BY InitWorkspace, WorkspaceStep, PTL DEF Spec

LEMMA InvTypes == WorkspaceInv => TypeOK
<1>. SUFFICES ASSUME WorkspaceInv PROVE TypeOK
  OBVIOUS
<1>1. \A n \in DOMAIN store :
         store[n].state \in States /\ {store[n].on, store[n].over} \subseteq Revisions
  BY StatesListed DEF Operation
<1>2. Len(store) <= 1 + Len(requests)
  BY ReceivedIsFinite DEF WorkspaceInv
<1>3. \A i \in DOMAIN requests : /\ requests[i].at \in {"sent", "done", "refused"}
                                 /\ requests[i].number \in 0..Len(store)
  <2>. SUFFICES ASSUME NEW i \in DOMAIN requests
                PROVE  requests[i] \in Submission(Len(store))
    BY DEF Submission
  <2>. QED  BY DEF WorkspaceInv
<1>. QED  BY <1>1, <1>2, <1>3 DEF WorkspaceInv, TypeOK, IsList

\* Every value is of its kind, and the Manager has no operation that was not submitted:
\* a submission is stored once, however late it arrives.
THEOREM TypeCorrect == Spec => []TypeOK
  BY WorkspaceInvariant, InvTypes, PTL

\* ClientWorkspace sends with a patch the revision of the snapshot that it was edited on
\* (baseline.revision), over polls, reloads and snapshots that change meanwhile, and the
\* Client's check lets no other pass: of a patch that is carried out, the configuration
\* which the check found is the one that the administrator saw.
THEOREM OnlySeenIsPatched == Spec => []PatchesWhatWasSeen
<1>1. WorkspaceInv => PatchesWhatWasSeen
  <2>. SUFFICES ASSUME WorkspaceInv, NEW n \in DOMAIN store, store[n].on # 0,
                       store[n].command.kind = "patch_config"
                PROVE  store[n].command.seen = store[n].on
    BY DEF PatchesWhatWasSeen
  <2>1. store[n].command \in Commands /\ OnSeen(n)
    BY StatesListed DEF WorkspaceInv
  <2>2. store[n].command.seen = store[n].command.expected
    BY <2>1 DEF Commands, ReadConfig, PatchConfig, RestartAt
  <2>. QED  BY <2>1, <2>2 DEF OnSeen
<1>. QED  BY <1>1, WorkspaceInvariant, PTL
=============================================================================
