------------------------- MODULE DeviceChannel_proofs -------------------------
(***************************************************************************)
(* Theorems about DeviceChannel, for any number of devices, sessions,      *)
(* operations, messages and crashes.                                       *)
(*                                                                         *)
(* Part 1  Types.                                                          *)
(* Part 2  The operations of a device form a queue that is worked off one  *)
(*         at a time.  Every step of the system is, on the table, one of   *)
(*         three: an operation is queued, one is claimed, or rows that     *)
(*         were claimed move on (TableStep).  QueueInv is proved over      *)
(*         these three, not over the actions; ClaimInv ties what a session *)
(*         captured to the claim; TruthInv ties what is in flight and in   *)
(*         the Client's journal to the outcome.                            *)
(* Part 3  The table implements OperationLifecycle.                        *)
(* Part 4  What the Manager records of a device's configuration follows    *)
(*         it.  A step does little to one connection (DownMoves, UpMoves), *)
(*         over which three layers are proved: RouteInv, where a           *)
(*         connection leads; OrderInv, that a Client executes in the order *)
(*         of the queue; RecordInv, that what is reported and recorded is  *)
(*         in the journal, whose revisions grow in that order whatever is  *)
(*         edited at the device in between.                                *)
(***************************************************************************)
EXTENDS DeviceChannel, TLAPS

------------------------------------------------------------------------------
(* PART 1.  Types.                                                          *)

Table == [Ops -> OperationRow]

------------------------------------------------------------------------------
(* What the store's operators make of a well-typed table.                   *)

\* Settling a row keeps it a row of the table.
LEMMA SettleType ==
  ASSUME NEW row \in OperationRow, NEW st \in OperationState
  PROVE  Settle(row, st) \in OperationRow
  BY DEF Settle, OperationRow, RowState

\* A transition is a well-typed write of one row.
LEMMA TransitionType ==
  ASSUME NEW table \in Table, NEW o \in Ops, NEW st \in OperationState
  PROVE  ApplyTransition(table, o, st) \in Table
  BY SettleType DEF ApplyTransition, Table

LEMMA EnqueueType ==
  ASSUME NEW table \in Table, NEW o \in Ops, NEW d \in Devices, NEW c \in Commands
  PROVE  EnqueueIn(table, o, d, c) \in Table
  BY DEF EnqueueIn, Table, OperationRow, RowState, OperationState

LEMMA ClaimType ==
  ASSUME NEW table \in Table, NEW o \in Ops, NEW s \in Sessions
  PROVE  ClaimNextIn(table, o, s) \in Table
  BY DEF ClaimNextIn, Table, OperationRow, RowState, OperationState, Active

LEMMA LeaseType ==
  ASSUME NEW table \in Table, NEW o \in Ops
  PROVE  LeaseRunsOut(table, o) \in Table
  BY DEF LeaseRunsOut, Table, OperationRow

\* Both recoveries are well-typed writes of the running rows of a device.
LEMMA RecoverType ==
  ASSUME NEW table \in Table, NEW d \in Devices
  PROVE  RecoverRunning(table, d) \in Table /\ RecoverExpired(table, d) \in Table
<1>1. "unknown" \in OperationState
  BY DEF OperationState, Active
<1>2. \A o \in Ops : Settle(table[o], "unknown") \in OperationRow
  BY <1>1, SettleType DEF Table
<1>. QED  BY <1>2 DEF RecoverRunning, RecoverExpired, Table

------------------------------------------------------------------------------
(* Type correctness.                                                        *)

LEMMA InitType == Init => TypeOK
  BY ChannelAssumption
  DEF Init, TypeOK, DeviceRow, OperationRow, Vacant, Ops, Revisions, Phase,
      RowState

LEMMA AdminType ==
  ASSUME TypeOK, AdminStep
  PROVE  TypeOK'
<1>1. ASSUME NEW d \in Devices, Revoke(d)
      PROVE  TypeOK'
  BY <1>1 DEF TypeOK, Revoke, DeviceRow, managerVars, sessionVars, clientVars,
              historyVars
<1>2. ASSUME NEW d \in Devices, NEW c \in Commands, Enqueue(d, c)
      PROVE  TypeOK'
  <2>0. PICK o \in Ops : ops' = EnqueueIn(ops, o, d, c)
    BY <1>2 DEF Enqueue
  <2>1. ops' \in Table
    BY <2>0, EnqueueType DEF TypeOK, Table
  <2>. QED  BY <1>2, <2>1 DEF TypeOK, Table, Enqueue, managerVars, sessionVars,
              clientVars, historyVars
<1>3. ASSUME NEW o \in Ops, NEW r \in Resolution, Resolve(o, r)
      PROVE  TypeOK'
  <2>1. ops' \in Table
    BY <1>3, TransitionType
    DEF Resolve, ResolveIn, TypeOK, Table, OperationState, Settled
  <2>. QED  BY <1>3, <2>1 DEF TypeOK, Table, Resolve, managerVars, sessionVars,
              clientVars, historyVars
<1>. QED  BY <1>1, <1>2, <1>3, ChannelAssumption DEF AdminStep

LEMMA ProcessType ==
  ASSUME TypeOK, ProcessStep
  PROVE  TypeOK'
<1>1. CASE Crash
  BY <1>1 DEF TypeOK, Crash, Phase, tableVars, clientVars, historyVars
<1>2. CASE Restart
  BY <1>2 DEF TypeOK, Restart, DeviceRow, sessionVars, clientVars, historyVars
<1>3. CASE Serve
  BY <1>3 DEF TypeOK, Serve, tableVars, sessionVars, clientVars, historyVars
<1>4. ASSUME NEW d \in Devices, Reap(d) \/ Recover(d)
      PROVE  TypeOK'
  <2>0. ops' = RecoverExpired(ops, d) \/ ops' = RecoverRunning(ops, d)
    BY <1>4 DEF Reap, Recover
  <2>1. ops \in Table
    BY DEF TypeOK, Table
  <2>2. ops' \in Table
    BY <2>0, <2>1, RecoverType
  <2>. QED  BY <1>4, <2>2 DEF TypeOK, Table, Reap, Recover, managerVars, sessionVars,
              clientVars, historyVars
<1>5. ASSUME NEW o \in Ops, LeaseExpires(o)
      PROVE  TypeOK'
  BY <1>5, LeaseType DEF TypeOK, Table, LeaseExpires, managerVars, sessionVars,
              clientVars, historyVars
<1>. QED  BY <1>1, <1>2, <1>3, <1>4, <1>5 DEF ProcessStep

\* Where a task stands, it has what it needs: a frame to handle, an operation to
\* inspect.
AtHand ==
    \A s \in Sessions :
        /\ phase[s] = "received" => up[s] # <<>>
        /\ phase[s] = "inspecting" => target[s] \in Ops

TypeInv == TypeOK /\ AtHand

\* What a Client sends is a message.
LEMMA ReplyType ==
  ASSUME TypeOK, NEW s \in Sessions, NEW m \in Message, Reply(s, m)
  PROVE  up' \in [Sessions -> Seq(Message)]
  BY DEF TypeOK, Reply

LEMMA MessageType ==
  /\ \A o \in Ops, r \in Report : ResultOf(o, r) \in Message
  /\ \A r \in Revisions : Heartbeat(r) \in Message
  BY DEF ResultOf, Heartbeat, Message

LEMMA ClientType ==
  ASSUME TypeOK, NEW s \in Sessions, ClientStep(s)
  PROVE  TypeOK'
<1>1. CASE ClientHeartbeat(s)
  <2>1. PICK r \in 1 .. revision[peer[s]] : Reply(s, Heartbeat(r))
    BY <1>1 DEF ClientHeartbeat
  <2>2. up' \in [Sessions -> Seq(Message)]
    BY <2>1, MessageType, ReplyType DEF Revisions
  <2>. QED  BY <1>1, <2>2 DEF TypeOK, ClientHeartbeat, managerVars, tableVars,
                sessionVars, clientVars, historyVars
<1>2. CASE ClientRepeat(s)
  <2>0. PICK o \in Ops : \E r \in journal[o] : Reply(s, ResultOf(o, r))
    BY <1>2 DEF ClientRepeat
  <2>1. PICK r \in journal[o] : Reply(s, ResultOf(o, r))
    BY <2>0
  <2>2. r \in Report
    BY DEF TypeOK
  <2>3. up' \in [Sessions -> Seq(Message)]
    BY <2>1, <2>2, MessageType, ReplyType
  <2>. QED  BY <1>2, <2>3 DEF TypeOK, ClientRepeat, managerVars, tableVars,
                sessionVars, clientVars, historyVars
<1>3. CASE ClientInspect(s)
  <2> DEFINE o == Head(down[s]).op
             d == peer[s]
  <2>1. o \in Ops /\ down' \in [Sessions -> Seq(Delivery)]
    BY <1>3 DEF ClientInspect, TypeOK, Delivery, RevokedNotice
  <2>2. PICK r \in Recollection(d, o) : Reply(s, ResultOf(o, r))
    BY <1>3 DEF ClientInspect
  <2>4. r \in Report
    BY <2>1, <2>2 DEF Recollection, TypeOK, Report, ReportKinds, Confirmations,
                      Revisions
  <2>5. up' \in [Sessions -> Seq(Message)]
    BY <2>1, <2>2, <2>4, MessageType, ReplyType
  <2>. QED  BY <1>3, <2>1, <2>5 DEF TypeOK, ClientInspect, managerVars, tableVars,
                sessionVars, clientVars, historyVars
<1>4. CASE ClientExecute(s)
  <2> DEFINE o == Head(down[s]).op
             d == peer[s]
  <2>1. o \in Ops /\ down' \in [Sessions -> Seq(Delivery)]
    BY <1>4 DEF ClientExecute, TypeOK, Delivery, RevokedNotice
  <2>2. PICK x \in Execution(d, o) :
           /\ journal' = [journal EXCEPT ![o] = {x.report}]
           /\ revision' = [revision EXCEPT ![d] = x.effect]
           /\ Reply(s, ResultOf(o, x.report))
    BY <1>4 DEF ClientExecute
  <2>3. /\ revision[d] + 1 \in Revisions /\ 0 \in Revisions
        /\ revision[d] \in Revisions
    BY <1>4 DEF Revisions, ClientExecute, Using, TypeOK
  <2>4. x.report \in Report /\ x.effect \in Revisions
    BY <2>2, <2>3, ChannelAssumption
    DEF Execution, Report, ReportKinds, Confirmation, Confirmations
  <2>5. up' \in [Sessions -> Seq(Message)]
    BY <2>1, <2>2, <2>4, MessageType, ReplyType
  <2>6. journal' \in [Ops -> SUBSET Report] /\ revision' \in [Devices -> Revisions]
    BY <2>2, <2>4 DEF TypeOK
  <2>. QED  BY <1>4, <2>1, <2>5, <2>6 DEF TypeOK, ClientExecute, managerVars, tableVars,
                sessionVars, historyVars
<1>. QED  BY <1>1, <1>2, <1>3, <1>4 DEF ClientStep

\* A task that ends keeps nothing.
LEMMA LeaveType ==
  ASSUME TypeOK, NEW s \in Sessions, Leave(s)
  PROVE  /\ phase' \in [Sessions -> Phase]
         /\ inspected' \in [Sessions -> SUBSET Ops]
         /\ target' \in [Sessions -> Ops \cup {0}]
         /\ up' \in [Sessions -> Seq(Message)]
  BY DEF TypeOK, Leave, Goto, Phase

LEMMA SendType ==
  ASSUME TypeOK, NEW s \in Sessions, NEW m \in Delivery, Send(s, m)
  PROVE  down' \in [Sessions -> Seq(Delivery)]
  BY DEF TypeOK, Send

LEMMA DismissType ==
  ASSUME TypeOK, NEW s \in Sessions, Dismiss(s)
  PROVE  /\ phase' \in [Sessions -> Phase]
         /\ inspected' \in [Sessions -> SUBSET Ops]
         /\ target' \in [Sessions -> Ops \cup {0}]
         /\ up' \in [Sessions -> Seq(Message)]
         /\ down' \in [Sessions -> Seq(Delivery)]
  BY LeaveType, SendType DEF Dismiss, Delivery

LEMMA ConnectionType ==
  ASSUME TypeOK, NEW s \in Sessions, ConnectionStep(s)
  PROVE  TypeOK'
<1>1. ASSUME NEW d \in Devices, Connect(s, d)
      PROVE  TypeOK'
  <2>1. down' \in [Sessions -> Seq(Delivery)]
    BY <1>1 DEF TypeOK, Connect
  <2>. QED  BY <1>1, <2>1 DEF TypeOK, Connect, Phase, Serving, managerVars, tableVars,
                historyVars
<1>2. CASE Hello(s)
  <2>1. /\ phase' \in [Sessions -> Phase]
        /\ inspected' \in [Sessions -> SUBSET Ops]
        /\ target' \in [Sessions -> Ops \cup {0}]
        /\ up' \in [Sessions -> Seq(Message)]
    <3>1. CASE Leave(s)
      BY <3>1, LeaveType
    <3>2. CASE Goto(s, "idle") /\ UNCHANGED <<inspected, target, up>>
      BY <3>2 DEF TypeOK, Goto, Phase, Serving
    <3>. QED  BY <1>2, <3>1, <3>2 DEF Hello
  <2>2. devices' \in [Devices -> DeviceRow]
    <3>1. \A row \in DeviceRow : [row EXCEPT !.session = s] \in DeviceRow
      BY DEF DeviceRow
    <3>2. \/ devices' = devices
          \/ devices' = [devices EXCEPT ![peer[s]] = [@ EXCEPT !.session = s]]
      BY <1>2 DEF Hello
    <3>3. devices \in [Devices -> DeviceRow]
      BY DEF TypeOK
    <3>. QED  BY <3>1, <3>2, <3>3
  <2>. QED  BY <1>2, <2>1, <2>2 DEF TypeOK, Hello, managerVars, clientVars, historyVars
<1>3. CASE TimeOut(s)
  BY <1>3, LeaveType DEF TypeOK, TimeOut, managerVars, tableVars, clientVars,
                historyVars
<1>4. CASE Disconnect(s)
  BY <1>4, LeaveType DEF TypeOK, Disconnect, managerVars, tableVars, clientVars,
                historyVars
<1>. QED  BY <1>1, <1>2, <1>3, <1>4 DEF ConnectionStep

\* What a report writes into a devices row is a devices row.
LEMMA RecordedType ==
  ASSUME NEW row \in DeviceRow, NEW r \in Report
  PROVE  Recorded(row, r) \in DeviceRow
<1>1. CASE r.kind = "config_read"
  BY <1>1 DEF Recorded, DeviceRow, Report
<1>2. CASE r.kind = "config_saved"
  BY <1>2 DEF Recorded, DeviceRow, Report
<1>3. CASE r.kind = "restart_acknowledged"
  BY <1>3 DEF Recorded, DeviceRow, Report
<1>. QED  BY <1>1, <1>2, <1>3 DEF Recorded

LEMMA CompleteType ==
  ASSUME TypeOK, NEW c \in Capture, NEW r \in Report, Complete(c, r)
  PROVE  /\ ops' \in Table
         /\ observed' \subseteq Ops
         /\ devices' \in [Devices -> DeviceRow]
<1>1. c.op \in Ops
  BY DEF Capture
<1>2. Outcome(r) \in OperationState
  BY DEF Outcome, OperationState, Active, Settled
<1>3. ops' \in Table /\ observed' \subseteq Ops
  <2>1. ApplyTransition(ops, c.op, Outcome(r)) \in Table
    BY <1>1, <1>2, TransitionType DEF TypeOK, Table
  <2>. QED  BY <1>1, <2>1 DEF Complete, TypeOK, Table
<1>4. devices' \in [Devices -> DeviceRow]
  BY RecordedType DEF Complete, TypeOK
<1>. QED  BY <1>3, <1>4

\* The claim's two outcomes: the operation is dispatched, or it does not decode.
LEMMA ClaimOldestType ==
  ASSUME TypeOK, NEW s \in Sessions, ClaimOldest(s)
  PROVE  /\ ops' \in Table
         /\ claimedBy' \in [Ops -> Sessions \cup {None}]
         /\ sent' \in [Ops -> Nat]
         /\ pending' \in [Sessions -> SUBSET Capture]
         /\ phase' \in [Sessions -> Phase]
         /\ inspected' \in [Sessions -> SUBSET Ops]
         /\ target' \in [Sessions -> Ops \cup {0}]
         /\ up' \in [Sessions -> Seq(Message)]
         /\ down' \in [Sessions -> Seq(Delivery)]
<1>1. PICK o \in Ops :
        /\ ops' = ClaimNextIn(ops, o, s)
        /\ claimedBy' = [claimedBy EXCEPT ![o] = s]
        /\ \/ /\ pending' = [pending EXCEPT
                               ![s] = {[op |-> o, state |-> "running", owner |-> s]}]
              /\ Send(s, Task("execute", o))
              /\ sent' = [sent EXCEPT ![o] = @ + 1]
              /\ Goto(s, "idle")
              /\ UNCHANGED <<inspected, target, up>>
           \/ /\ Leave(s)
              /\ UNCHANGED <<pending, down, sent>>
  BY DEF ClaimOldest
<1>2. ops' \in Table /\ claimedBy' \in [Ops -> Sessions \cup {None}]
  BY <1>1, ClaimType DEF TypeOK, Table
<1>3. CASE /\ pending' = [pending EXCEPT
                             ![s] = {[op |-> o, state |-> "running", owner |-> s]}]
           /\ Send(s, Task("execute", o))
           /\ sent' = [sent EXCEPT ![o] = @ + 1]
           /\ Goto(s, "idle")
           /\ UNCHANGED <<inspected, target, up>>
  <2>1. [op |-> o, state |-> "running", owner |-> s] \in Capture
    BY DEF Capture, RowState, OperationState, Active
  <2>2. Task("execute", o) \in Delivery
    BY DEF Task, Delivery
  <2>3. down' \in [Sessions -> Seq(Delivery)]
    BY <1>3, <2>2, SendType
  <2>4. pending' \in [Sessions -> SUBSET Capture] /\ sent' \in [Ops -> Nat]
    BY <1>3, <2>1 DEF TypeOK
  <2>. QED  BY <1>2, <1>3, <2>3, <2>4 DEF TypeOK, Goto, Phase, Serving
<1>4. CASE Leave(s) /\ UNCHANGED <<pending, down, sent>>
  <2>1. /\ pending' \in [Sessions -> SUBSET Capture]
        /\ sent' \in [Ops -> Nat]
        /\ down' \in [Sessions -> Seq(Delivery)]
    BY <1>4 DEF TypeOK
  <2>. QED  BY <1>2, <1>4, <2>1, LeaveType
<1>. QED  BY <1>1, <1>3, <1>4

LEMMA ServeType ==
  ASSUME TypeInv, NEW s \in Sessions, ServeStep(s)
  PROVE  TypeOK'
<1>. USE DEF TypeInv
<1>1. CASE Receive(s)
  <2>1. CASE Dismiss(s)
    BY <1>1, <2>1, DismissType DEF TypeOK, Receive, managerVars, tableVars, clientVars,
       historyVars
  <2>2. CASE Goto(s, "received") /\ UNCHANGED <<inspected, target, down, up>>
    BY <1>1, <2>2 DEF TypeOK, Receive, Goto, Phase, Serving, managerVars, tableVars,
       clientVars, historyVars
  <2>. QED  BY <1>1, <2>1, <2>2 DEF Receive
<1>2. CASE HandleHeartbeat(s)
  <2>1. Head(up[s]) \in Message /\ up' \in [Sessions -> Seq(Message)]
    BY <1>2 DEF TypeOK, HandleHeartbeat, AtHand
  <2>2. Head(up[s]).revision \in Revisions
    BY <1>2, <2>1 DEF HandleHeartbeat, Message
  <2>3. devices' \in [Devices -> DeviceRow]
    <3>1. \A row \in DeviceRow, r \in Revisions :
             [row EXCEPT !.snapshot = r] \in DeviceRow
      BY DEF DeviceRow
    <3>2. \/ devices' = devices
          \/ devices' = [devices EXCEPT ![peer[s]] =
                            [@ EXCEPT !.snapshot = Head(up[s]).revision]]
      BY <1>2 DEF HandleHeartbeat
    <3>3. devices \in [Devices -> DeviceRow]
      BY DEF TypeOK
    <3>. QED  BY <2>2, <3>1, <3>2, <3>3
  <2>. QED  BY <1>2, <2>1, <2>3 DEF TypeOK, HandleHeartbeat, Goto, Phase, Serving,
                managerVars, clientVars, historyVars
<1>3. CASE HandleResult(s)
  <2> DEFINE m == Head(up[s])
  <2>1. m \in Message /\ up' \in [Sessions -> Seq(Message)]
    BY <1>3 DEF TypeOK, HandleResult, AtHand
  <2>2. m.report \in Report
    BY <1>3, <2>1 DEF HandleResult, Message
  <2>3. PICK c \in Matching(s, m) : Complete(c, m.report)
    BY <1>3 DEF HandleResult
  <2>4. c \in Capture
    BY <2>3 DEF Matching, TypeOK
  <2>5. ops' \in Table /\ observed' \subseteq Ops /\ devices' \in [Devices -> DeviceRow]
    BY <2>2, <2>3, <2>4, CompleteType
  <2>. QED  BY <1>3, <2>1, <2>5 DEF TypeOK, Table, HandleResult, Goto, Phase, Serving,
                managerVars, clientVars, historyVars
<1>4. CASE RefuseResult(s)
  BY <1>4, LeaveType DEF TypeOK, RefuseResult, managerVars, tableVars, clientVars,
     historyVars
<1>5. CASE Tick(s)
  <2>1. CASE Dismiss(s)
    BY <1>5, <2>1, DismissType DEF TypeOK, Tick, managerVars, tableVars, clientVars,
       historyVars
  <2>2. CASE Goto(s, "polled") /\ UNCHANGED <<inspected, target, down, up>>
    BY <1>5, <2>2 DEF TypeOK, Tick, Goto, Phase, Serving, managerVars, tableVars,
       clientVars, historyVars
  <2>. QED  BY <1>5, <2>1, <2>2 DEF Tick
<1>6. CASE FindUncertain(s)
  <2>1. target' \in [Sessions -> Ops \cup {0}] /\ phase' \in [Sessions -> Phase]
    BY <1>6 DEF FindUncertain, UnknownOf, Goto, Phase, Serving, TypeOK
  <2>. QED  BY <1>6, <2>1 DEF TypeOK, FindUncertain, managerVars, tableVars, clientVars,
                historyVars
<1>7. CASE Inspect(s)
  <2>1. target[s] \in Ops
    BY <1>7 DEF Inspect, AtHand
  <2>2. CaptureOf(target[s]) \in Capture
    BY <2>1 DEF CaptureOf, Capture, TypeOK, OperationRow
  <2>3. Task("inspect_only", target[s]) \in Delivery
    BY <2>1 DEF Task, Delivery
  <2>4. down' \in [Sessions -> Seq(Delivery)]
    <3>1. CASE Send(s, Task("inspect_only", target[s]))
      BY <2>3, <3>1, SendType
    <3>2. CASE UNCHANGED down
      BY <3>2 DEF TypeOK
    <3>. QED  BY <1>7, <3>1, <3>2 DEF Inspect
  <2>5. /\ pending' \in [Sessions -> SUBSET Capture]
        /\ inspected' \in [Sessions -> SUBSET Ops]
        /\ target' \in [Sessions -> Ops \cup {0}]
        /\ phase' \in [Sessions -> Phase]
    <3>1. target' \in [Sessions -> Ops \cup {0}] /\ phase' \in [Sessions -> Phase]
      BY <1>7 DEF Inspect, TypeOK, Goto, Phase, Serving
    <3>2. \/ UNCHANGED <<pending, inspected>>
          \/ /\ inspected' = [inspected EXCEPT ![s] = @ \cup {target[s]}]
             /\ pending' = [pending EXCEPT ![s] = {CaptureOf(target[s])}]
      BY <1>7 DEF Inspect
    <3>3. /\ pending' \in [Sessions -> SUBSET Capture]
          /\ inspected' \in [Sessions -> SUBSET Ops]
      <4>1. pending \in [Sessions -> SUBSET Capture]
            /\ inspected \in [Sessions -> SUBSET Ops]
        BY DEF TypeOK
      <4>2. CASE UNCHANGED <<pending, inspected>>
        BY <4>1, <4>2
      <4>3. CASE /\ inspected' = [inspected EXCEPT ![s] = @ \cup {target[s]}]
                 /\ pending' = [pending EXCEPT ![s] = {CaptureOf(target[s])}]
        BY <2>1, <2>2, <4>1, <4>3
      <4>. QED  BY <3>2, <4>2, <4>3
    <3>. QED  BY <3>1, <3>3
  <2>. QED  BY <1>7, <2>4, <2>5 DEF TypeOK, Inspect, managerVars, tableVars, clientVars,
                historyVars
<1>8. CASE Claim(s)
  <2>1. CASE ClaimOldest(s)
    BY <1>8, <2>1, ClaimOldestType DEF TypeOK, Table, Claim, managerVars, clientVars
  <2>2. CASE Leave(s) /\ UNCHANGED <<ops, pending, down, historyVars>>
    BY <1>8, <2>2, LeaveType DEF TypeOK, Claim, managerVars, clientVars, historyVars
  <2>3. CASE /\ Goto(s, "idle")
             /\ UNCHANGED <<ops, pending, inspected, target, down, up, historyVars>>
    BY <1>8, <2>3 DEF TypeOK, Claim, Goto, Phase, Serving, managerVars, clientVars,
       historyVars
  <2>. QED  BY <1>8, <2>1, <2>2, <2>3 DEF Claim
<1>9. CASE Abandon(s)
  <2>1. ops' \in Table
    <3>1. CASE UNCHANGED ops
      BY <3>1 DEF TypeOK, Table
    <3>2. CASE \E c \in pending[s] : ops' = ApplyTransition(ops, c.op, "unknown")
      <4>1. PICK c \in pending[s] : ops' = ApplyTransition(ops, c.op, "unknown")
        BY <3>2
      <4>2. c.op \in Ops /\ "unknown" \in OperationState
        BY <4>1 DEF TypeOK, Capture, OperationState, Active
      <4>. QED  BY <4>1, <4>2, TransitionType DEF TypeOK, Table
    <3>. QED  BY <1>9, <3>1, <3>2 DEF Abandon
  <2>. QED  BY <1>9, <2>1 DEF TypeOK, Table, Abandon, Goto, Phase, managerVars,
                clientVars, historyVars
<1>10. CASE Clear(s)
  <2>1. devices' \in [Devices -> DeviceRow]
    <3>1. \A row \in DeviceRow : [row EXCEPT !.session = None] \in DeviceRow
      BY DEF DeviceRow
    <3>2. \/ devices' = devices
          \/ devices' = [devices EXCEPT ![peer[s]] = [@ EXCEPT !.session = None]]
      BY <1>10 DEF Clear
    <3>3. devices \in [Devices -> DeviceRow]
      BY DEF TypeOK
    <3>. QED  BY <3>1, <3>2, <3>3
  <2>. QED  BY <1>10, <2>1 DEF TypeOK, Clear, Goto, Phase, managerVars, clientVars,
                historyVars
<1>. QED  BY <1>1, <1>2, <1>3, <1>4, <1>5, <1>6, <1>7, <1>8, <1>9, <1>10 DEF ServeStep

\* A Client only adds to what is under way, and only a task moves its own phase.
LEMMA AtHandStep ==
  ASSUME TypeInv, [Next]_vars
  PROVE  AtHand'
<1>. SUFFICES ASSUME NEW s \in Sessions
              PROVE  /\ phase'[s] = "received" => up'[s] # <<>>
                     /\ phase'[s] = "inspecting" => target'[s] \in Ops
  BY DEF AtHand
<1>. USE DEF TypeInv
<1>1. CASE UNCHANGED vars \/ \E d \in Devices : EditLocally(d)
  BY <1>1 DEF vars, EditLocally, sessionVars, AtHand
<1>2. CASE AdminStep
  BY <1>2 DEF AdminStep, Revoke, Enqueue, Resolve, sessionVars, AtHand
<1>3. CASE ProcessStep
  <2>1. CASE Crash
    BY <2>1 DEF Crash, TypeOK
  <2>2. CASE ~Crash
    BY <1>3, <2>2 DEF ProcessStep, Restart, Serve, Reap, Recover, LeaseExpires,
                      tableVars, sessionVars, AtHand
  <2>. QED  BY <2>1, <2>2
<1>4. ASSUME NEW t \in Sessions, ClientStep(t)
      PROVE  /\ phase'[s] = "received" => up'[s] # <<>>
             /\ phase'[s] = "inspecting" => target'[s] \in Ops
  <2>1. UNCHANGED sessionVars
    BY <1>4 DEF ClientStep, ClientExecute, ClientInspect, ClientRepeat, ClientHeartbeat
  <2>2. ASSUME NEW m, Reply(t, m), up[s] # <<>>
        PROVE  up'[s] # <<>>
    <3>1. up[s] \in Seq(Message \cup {m})
      BY DEF TypeOK
    <3>2. Append(up[s], m) # <<>>
      BY <3>1
    <3>3. up'[s] = up[s] \/ up'[s] = Append(up[s], m)
      BY <2>2 DEF Reply, TypeOK
    <3>. QED  BY <2>2, <3>2, <3>3
  <2>3. up[s] # <<>> => up'[s] # <<>>
    BY <1>4, <2>2 DEF ClientStep, ClientExecute, ClientInspect, ClientRepeat,
                      ClientHeartbeat
  <2>. QED  BY <2>1, <2>3 DEF sessionVars, AtHand
<1>5. ASSUME NEW t \in Sessions, ConnectionStep(t)
      PROVE  /\ phase'[s] = "received" => up'[s] # <<>>
             /\ phase'[s] = "inspecting" => target'[s] \in Ops
  BY <1>5 DEF ConnectionStep, Connect, Hello, TimeOut, Disconnect, Leave, Goto, TypeOK,
              AtHand
<1>6. ASSUME NEW t \in Sessions, ServeStep(t)
      PROVE  /\ phase'[s] = "received" => up'[s] # <<>>
             /\ phase'[s] = "inspecting" => target'[s] \in Ops
  <2>1. CASE Receive(t) \/ Tick(t)
    BY <2>1 DEF Receive, Tick, Dismiss, Leave, Goto, TypeOK, AtHand
  <2>2. CASE HandleHeartbeat(t) \/ HandleResult(t) \/ RefuseResult(t)
    BY <2>2 DEF HandleHeartbeat, HandleResult, RefuseResult, Leave, Goto, TypeOK, AtHand
  <2>3. CASE FindUncertain(t)
    BY <2>3 DEF FindUncertain, UnknownOf, Goto, TypeOK, AtHand
  <2>4. CASE Inspect(t)
    BY <2>4 DEF Inspect, Goto, TypeOK, AtHand
  <2>5. CASE Claim(t)
    BY <2>5 DEF Claim, ClaimOldest, Leave, Goto, TypeOK, AtHand
  <2>6. CASE Abandon(t) \/ Clear(t)
    BY <2>6 DEF Abandon, Clear, Goto, TypeOK, AtHand
  <2>. QED  BY <1>6, <2>1, <2>2, <2>3, <2>4, <2>5, <2>6 DEF ServeStep
<1>. QED  BY <1>1, <1>2, <1>3, <1>4, <1>5, <1>6 DEF Next

LEMMA TypeStep == TypeInv /\ [Next]_vars => TypeInv'
<1>. SUFFICES ASSUME TypeInv, [Next]_vars
              PROVE  TypeOK'
  BY AtHandStep DEF TypeInv
<1>1. CASE UNCHANGED vars
  BY <1>1 DEF TypeInv, TypeOK, vars, managerVars, tableVars, sessionVars, clientVars,
              historyVars
<1>2. ASSUME NEW d \in Devices, EditLocally(d)
      PROVE  TypeOK'
  BY <1>2 DEF TypeInv, TypeOK, EditLocally, Revisions, managerVars, tableVars,
              sessionVars, historyVars
<1>3. CASE Next
  BY <1>2, <1>3, AdminType, ProcessType, ClientType, ConnectionType, ServeType
  DEF Next, TypeInv
<1>. QED  BY <1>1, <1>3

\* Every table, every task's locals, every frame under way and every journal is of
\* its type in every reachable state, for any number of devices, connections and
\* operations.
THEOREM TypeCorrect == Spec => []TypeOK
<1>1. Init => TypeInv
  BY InitType DEF Init, TypeInv, AtHand
<1>2. TypeInv => TypeOK
  BY DEF TypeInv
<1>. QED  BY <1>1, <1>2, TypeStep, PTL DEF Spec

------------------------------------------------------------------------------
(* PART 2.  The queue.                                                      *)

Untaken == {"absent", "pending"}

\* No row changes device or command, none is taken up or given back, a settled one
\* stays settled, and only a row that stays as it is keeps its owner.
MovesOn(o) ==
    /\ ops'[o].device = ops[o].device /\ ops'[o].command = ops[o].command
    /\ ops[o].state \in Untaken => ops'[o].state = ops[o].state
    /\ ops[o].state \in Active => ops'[o].state \in Active \cup Settled
    /\ ops[o].state \in Settled => ops'[o].state \in Settled
    /\ ops'[o].state = "running" \/ ops'[o].owner # None =>
          ops'[o].state = ops[o].state /\ ops'[o].owner = ops[o].owner

Queues(o) ==
    /\ \E d \in Devices, c \in Commands : ops' = EnqueueIn(ops, o, d, c)
    /\ IsNext(ops, o)
    /\ UNCHANGED historyVars

Claims(o) ==
    /\ \E d \in Devices \cup {None} : Claimable(ops, d, o)
    /\ \E s \in Sessions : /\ ops' = ClaimNextIn(ops, o, s)
                           /\ claimedBy' = [claimedBy EXCEPT ![o] = s]
                           /\ IsCurrent(s) /\ ops[o].device = peer[s]
    /\ sent' = sent \/ sent' = [sent EXCEPT ![o] = @ + 1]

------------------------------------------------------------------------------
(* The three kinds of step.                                                 *)

LEMMA StateKinds ==
  ASSUME TypeOK, NEW o \in Ops
  PROVE  ops[o].state \in Untaken \cup Active \cup Settled
  BY DEF TypeOK, OperationRow, RowState, OperationState, Untaken

\* A transition of a row that was taken up is a move.
LEMMA TransitionMoves ==
  ASSUME TypeOK, NEW o \in Ops, NEW st \in {"unknown"} \cup Settled,
         ops[o].state \notin Untaken,
         ops[o].state \in Settled => st \in Settled,
         ops' = ApplyTransition(ops, o, st)
  PROVE  \A p \in Ops : MovesOn(p)
<1>1. /\ ops'[o].state = st /\ ops'[o].owner = None
      /\ ops'[o].device = ops[o].device /\ ops'[o].command = ops[o].command
  BY DEF TypeOK, ApplyTransition, Settle
<1>2. \A p \in Ops : p # o => ops'[p] = ops[p]
  BY DEF TypeOK, ApplyTransition
<1>3. MovesOn(o)
  BY <1>1, StateKinds DEF MovesOn, Untaken, Active, Settled
<1>. QED  BY <1>2, <1>3 DEF MovesOn

\* Rows that do not change move on.
LEMMA UnchangedMoves ==
  ASSUME UNCHANGED ops
  PROVE  \A o \in Ops : MovesOn(o)
  BY DEF MovesOn

LEMMA RecoverMoves ==
  ASSUME TypeOK, NEW d \in Devices,
         ops' = RecoverExpired(ops, d) \/ ops' = RecoverRunning(ops, d)
  PROVE  \A o \in Ops : MovesOn(o)
<1>. SUFFICES ASSUME NEW o \in Ops
              PROVE  MovesOn(o)
  OBVIOUS
<1>1. \/ ops'[o] = ops[o]
      \/ ops[o].state = "running" /\ ops'[o] = Settle(ops[o], "unknown")
  BY DEF RecoverExpired, RecoverRunning, TypeOK
<1>. QED  BY <1>1 DEF MovesOn, Settle, Untaken, Active, Settled

LEMMA AdminTable ==
  ASSUME TypeOK, AdminStep
  PROVE  \/ UNCHANGED historyVars /\ \A o \in Ops : MovesOn(o)
         \/ \E o \in Ops : Queues(o)
<1>1. ASSUME NEW d \in Devices, Revoke(d)
      PROVE  UNCHANGED historyVars /\ \A o \in Ops : MovesOn(o)
  BY <1>1, UnchangedMoves DEF Revoke
<1>2. ASSUME NEW d \in Devices, NEW c \in Commands, Enqueue(d, c)
      PROVE  \E o \in Ops : Queues(o)
  BY <1>2 DEF Enqueue, Queues
<1>3. ASSUME NEW o \in Ops, NEW r \in Resolution, Resolve(o, r)
      PROVE  UNCHANGED historyVars /\ \A p \in Ops : MovesOn(p)
  <2>1. ops' = ApplyTransition(ops, o, "dead_letter") \/
        ops' = ApplyTransition(ops, o, "resolved")
    BY <1>3 DEF Resolve, ResolveIn
  <2>2. ops[o].state \in {"unknown", "dead_letter"}
    BY <1>3 DEF Resolve, Resolvable
  <2>3. \A p \in Ops : MovesOn(p)
    BY <2>1, <2>2, TransitionMoves DEF Untaken, Settled
  <2>. QED  BY <1>3, <2>3 DEF Resolve
<1>. QED  BY <1>1, <1>2, <1>3, ChannelAssumption DEF AdminStep

LEMMA ProcessTable ==
  ASSUME TypeOK, ProcessStep
  PROVE  UNCHANGED historyVars /\ \A o \in Ops : MovesOn(o)
<1>1. CASE Crash \/ Restart \/ Serve
  BY <1>1, UnchangedMoves DEF Crash, Restart, Serve, tableVars
<1>2. ASSUME NEW d \in Devices, Reap(d) \/ Recover(d)
      PROVE  UNCHANGED historyVars /\ \A o \in Ops : MovesOn(o)
  BY <1>2, RecoverMoves DEF Reap, Recover
<1>3. ASSUME NEW o \in Ops, LeaseExpires(o)
      PROVE  UNCHANGED historyVars /\ \A p \in Ops : MovesOn(p)
  <2>1. /\ ops'[o].state = ops[o].state /\ ops'[o].device = ops[o].device
        /\ ops'[o].owner = ops[o].owner /\ ops'[o].command = ops[o].command
        /\ \A p \in Ops : p # o => ops'[p] = ops[p]
    BY <1>3 DEF LeaseExpires, LeaseRunsOut, TypeOK, OperationRow
  <2>. QED  BY <1>3, <2>1 DEF LeaseExpires, MovesOn
<1>. QED  BY <1>1, <1>2, <1>3 DEF ProcessStep

LEMMA ServeTable ==
  ASSUME TypeInv, NEW s \in Sessions, ServeStep(s)
  PROVE  \/ UNCHANGED historyVars /\ \A o \in Ops : MovesOn(o)
         \/ \E o \in Ops : Claims(o)
<1>. USE DEF TypeInv
<1>1. CASE Receive(s) \/ HandleHeartbeat(s) \/ RefuseResult(s) \/ Tick(s)
           \/ FindUncertain(s) \/ Inspect(s) \/ Clear(s)
  BY <1>1, UnchangedMoves
  DEF Receive, HandleHeartbeat, RefuseResult, Tick, FindUncertain, Inspect, Clear,
      tableVars
<1>2. CASE HandleResult(s)
  <2> DEFINE r == Head(up[s]).report
  <2>1. PICK c \in Matching(s, Head(up[s])) : Completable(s, c, r) /\ Complete(c, r)
    BY <1>2 DEF HandleResult
  <2>2. c.op \in Ops
    BY <2>1 DEF Matching, TypeOK, Capture
  <2>3. CASE c.state = "unknown"
    BY <1>2, <2>1, <2>3, UnchangedMoves DEF Complete, HandleResult
  <2>4. CASE c.state # "unknown"
    <3>1. ops[c.op].state = "running" /\ ops' = ApplyTransition(ops, c.op, Outcome(r))
      BY <2>1, <2>4 DEF Completable, Complete, OwnedBy
    <3>2. Outcome(r) \in {"unknown"} \cup Settled
      BY DEF Outcome, Settled
    <3>3. \A o \in Ops : MovesOn(o)
      BY <2>2, <3>1, <3>2, TransitionMoves DEF Untaken, Settled
    <3>. QED  BY <1>2, <3>3 DEF HandleResult
  <2>. QED  BY <2>3, <2>4
<1>3. CASE Claim(s)
  <2>1. CASE IsCurrent(s) /\ ClaimOldest(s)
    <3>1. PICK o \in Ops :
            /\ Claimable(ops, peer[s], o)
            /\ ops' = ClaimNextIn(ops, o, s)
            /\ claimedBy' = [claimedBy EXCEPT ![o] = s]
            /\ sent' = sent \/ sent' = [sent EXCEPT ![o] = @ + 1]
      BY <2>1 DEF ClaimOldest
    <3>2. peer[s] \in Devices \cup {None}
      BY DEF TypeOK
    <3>3. ops[o].device = peer[s]
      BY <3>1 DEF Claimable
    <3>. QED  BY <2>1, <3>1, <3>2, <3>3 DEF Claims
  <2>2. CASE UNCHANGED <<ops, historyVars>>
    BY <2>2, UnchangedMoves
  <2>. QED  BY <1>3, <2>1, <2>2 DEF Claim
<1>4. CASE Abandon(s)
  <2>1. CASE UNCHANGED ops
    BY <1>4, <2>1, UnchangedMoves DEF Abandon
  <2>2. CASE \E c \in pending[s] : /\ HeldBy(ops, c.op, c.owner)
                                   /\ ops' = ApplyTransition(ops, c.op, "unknown")
    <3>1. PICK c \in pending[s] : /\ HeldBy(ops, c.op, c.owner)
                                  /\ ops' = ApplyTransition(ops, c.op, "unknown")
      BY <2>2
    <3>2. c.op \in Ops
      BY <3>1 DEF TypeOK, Capture
    <3>3. \A o \in Ops : MovesOn(o)
      BY <3>1, <3>2, TransitionMoves DEF HeldBy, Untaken, Active, Settled
    <3>. QED  BY <1>4, <3>3 DEF Abandon
  <2>. QED  BY <1>4, <2>1, <2>2 DEF Abandon
<1>. QED  BY <1>1, <1>2, <1>3, <1>4 DEF ServeStep

LEMMA TableStep ==
  ASSUME TypeInv, [Next]_vars
  PROVE  \/ UNCHANGED historyVars /\ \A o \in Ops : MovesOn(o)
         \/ \E o \in Ops : Queues(o) \/ Claims(o)
<1>. USE DEF TypeInv
<1>1. CASE UNCHANGED vars \/ \E d \in Devices : EditLocally(d)
  BY <1>1, UnchangedMoves DEF vars, EditLocally, tableVars
<1>2. CASE AdminStep
  BY <1>2, AdminTable
<1>3. CASE ProcessStep
  BY <1>3, ProcessTable
<1>4. ASSUME NEW s \in Sessions, ServeStep(s)
      PROVE  \/ UNCHANGED historyVars /\ \A o \in Ops : MovesOn(o)
             \/ \E o \in Ops : Queues(o) \/ Claims(o)
  BY <1>4, ServeTable
<1>5. ASSUME NEW s \in Sessions, ConnectionStep(s) \/ ClientStep(s)
      PROVE  UNCHANGED historyVars /\ \A o \in Ops : MovesOn(o)
  BY <1>5, UnchangedMoves
  DEF ConnectionStep, Connect, Hello, TimeOut, Disconnect, ClientStep, ClientExecute,
      ClientInspect, ClientRepeat, ClientHeartbeat, tableVars
<1>. QED  BY <1>1, <1>2, <1>3, <1>4, <1>5 DEF Next

------------------------------------------------------------------------------
(* The queue's invariant.                                                   *)

\* The history says of an operation that it was claimed iff it was taken up ...
TakenIsClaimed == \A o \in Ops : claimedBy[o] = None <=> ops[o].state \in Untaken

\* ... and that it was sent at most once, and not before it was taken up.
SentWhenTaken ==
    \A o \in Ops : sent[o] <= 1 /\ (ops[o].state \in Untaken => sent[o] = 0)

\* Numbers are given out in order.
NumberedInOrder == \A o, p \in Ops : o < p /\ Exists(ops, p) => Exists(ops, o)

QueueInv ==
    /\ TypeInv
    /\ TakenIsClaimed
    /\ SentWhenTaken
    /\ NumberedInOrder
    /\ SettledBeforeNext

LEMMA QueueInit == Init => QueueInv
<1>. SUFFICES ASSUME Init
              PROVE  QueueInv
  OBVIOUS
<1>1. TypeInv
  BY InitType DEF Init, TypeInv, AtHand
<1>2. \A o \in Ops : ops[o].state = "absent" /\ claimedBy[o] = None /\ sent[o] = 0
  BY DEF Init, Vacant
<1>. QED  BY <1>1, <1>2 DEF QueueInv, TakenIsClaimed, SentWhenTaken, NumberedInOrder,
            SettledBeforeNext, Untaken, Exists

LEMMA QueueMoves ==
  ASSUME QueueInv, TypeInv', UNCHANGED historyVars, \A o \in Ops : MovesOn(o)
  PROVE  QueueInv'
<1>1. \A o \in Ops : /\ claimedBy'[o] = claimedBy[o]
                     /\ sent'[o] = sent[o]
                     /\ ops'[o].device = ops[o].device
                     /\ ops'[o].state \in Untaken <=> ops[o].state \in Untaken
                     /\ ops'[o].state = "absent" <=> ops[o].state = "absent"
                     /\ ops[o].state \in Settled => ops'[o].state \in Settled
  BY StateKinds DEF QueueInv, TypeInv, historyVars, MovesOn, Untaken, Active, Settled
<1>2. TakenIsClaimed' /\ SentWhenTaken'
  BY <1>1 DEF QueueInv, TakenIsClaimed, SentWhenTaken
<1>3. NumberedInOrder'
  BY <1>1 DEF QueueInv, NumberedInOrder, Exists
<1>4. SettledBeforeNext'
  BY <1>1 DEF QueueInv, SettledBeforeNext, SameDevice
<1>. QED  BY <1>2, <1>3, <1>4 DEF QueueInv

LEMMA QueueQueues ==
  ASSUME QueueInv, TypeInv', NEW o \in Ops, Queues(o)
  PROVE  QueueInv'
<1>1. /\ ops[o].state = "absent"
      /\ \A p \in Ops : p < o => ops[p].state # "absent"
  BY DEF Queues, IsNext, Exists, QueueInv, TypeInv, TypeOK
<1>2. /\ ops'[o].state = "pending"
      /\ \A p \in Ops : p # o => ops'[p] = ops[p]
      /\ UNCHANGED <<claimedBy, sent>>
  BY DEF Queues, EnqueueIn, QueueInv, TypeInv, TypeOK, historyVars
<1>3. TakenIsClaimed' /\ SentWhenTaken'
  BY <1>1, <1>2 DEF QueueInv, TakenIsClaimed, SentWhenTaken, Untaken
<1>4. NumberedInOrder'
  BY <1>1, <1>2 DEF QueueInv, NumberedInOrder, Exists
<1>5. SettledBeforeNext'
  <2>. SUFFICES ASSUME NEW q \in Ops, NEW p \in Ops, q < p, SameDevice(q, p)',
                       claimedBy'[p] # None
                PROVE  ops'[q].state \in Settled
    BY DEF SettledBeforeNext
  <2>1. p # o /\ ops[p].state \notin Untaken
    BY <1>1, <1>2 DEF QueueInv, TakenIsClaimed, Untaken
  <2>2. q # o
    BY <1>1, <2>1 DEF QueueInv, NumberedInOrder, Exists, Untaken
  <2>. QED  BY <1>2, <2>1, <2>2 DEF QueueInv, SettledBeforeNext, SameDevice
<1>. QED  BY <1>3, <1>4, <1>5 DEF QueueInv

LEMMA QueueClaims ==
  ASSUME QueueInv, TypeInv', NEW o \in Ops, Claims(o)
  PROVE  QueueInv'
<1>1. PICK d \in Devices \cup {None} : Claimable(ops, d, o)
  BY DEF Claims
<1>2. PICK s \in Sessions : /\ ops' = ClaimNextIn(ops, o, s)
                            /\ claimedBy' = [claimedBy EXCEPT ![o] = s]
  BY DEF Claims
<1>3. /\ ops[o].state = "pending" /\ ops[o].device = d
      /\ \A p \in Ops : ops[p].device = d =>
            /\ ops[p].state \notin Active
            /\ p < o => ops[p].state # "pending"
  BY <1>1 DEF Claimable, QueueInv, TypeInv, TypeOK
<1>4. /\ ops'[o].state = "running" /\ ops'[o].device = d
      /\ claimedBy'[o] # None
      /\ \A p \in Ops : p # o => ops'[p] = ops[p] /\ claimedBy'[p] = claimedBy[p]
  BY <1>2, <1>3, ChannelAssumption
  DEF ClaimNextIn, QueueInv, TypeInv, TypeOK, OperationRow
<1>5. /\ sent'[o] <= 1
      /\ \A p \in Ops : p # o => sent'[p] = sent[p]
  BY <1>3 DEF Claims, QueueInv, TypeInv, TypeOK, SentWhenTaken, Untaken
<1>6. TakenIsClaimed' /\ SentWhenTaken'
  BY <1>4, <1>5 DEF QueueInv, TakenIsClaimed, SentWhenTaken, Untaken
<1>7. NumberedInOrder'
  BY <1>3, <1>4 DEF QueueInv, NumberedInOrder, Exists
<1>8. SettledBeforeNext'
  <2>. SUFFICES ASSUME NEW q \in Ops, NEW p \in Ops, q < p, SameDevice(q, p)',
                       claimedBy'[p] # None
                PROVE  ops'[q].state \in Settled
    BY DEF SettledBeforeNext
  <2>1. CASE p = o
    <3>1. q # o /\ ops[q].device = d /\ ops[q].state # "absent"
      BY <1>3, <1>4, <2>1 DEF QueueInv, NumberedInOrder, Exists, SameDevice, Ops
    <3>. QED  BY <1>3, <1>4, <2>1, <3>1, StateKinds DEF QueueInv, TypeInv, Untaken
  <2>2. CASE p # o
    <3>1. SameDevice(q, p) /\ claimedBy[p] # None
      BY <1>3, <1>4, <2>2 DEF SameDevice
    <3>2. ops[q].state \in Settled
      BY <3>1 DEF QueueInv, SettledBeforeNext
    <3>. QED  BY <1>3, <1>4, <3>2 DEF Settled
  <2>. QED  BY <2>1, <2>2
<1>. QED  BY <1>6, <1>7, <1>8 DEF QueueInv

LEMMA QueueStep == QueueInv /\ [Next]_vars => QueueInv'
<1>. SUFFICES ASSUME QueueInv, [Next]_vars
              PROVE  QueueInv'
  OBVIOUS
<1>1. TypeInv'
  BY TypeStep DEF QueueInv
<1>. QED  BY <1>1, TableStep, QueueMoves, QueueQueues, QueueClaims DEF QueueInv

THEOREM QueueInvariant == Spec => []QueueInv
  BY QueueInit, QueueStep, PTL DEF Spec

------------------------------------------------------------------------------

\* An operation is dispatched to be executed at most once, whatever sessions,
\* leases, revocations, administrators and crashes do: claim_next_in takes only a
\* pending row, and no statement of the program makes a row pending again.
THEOREM AtMostOnce == Spec => []ExecuteAtMostOnce
<1>1. QueueInv => ExecuteAtMostOnce
  BY DEF QueueInv, SentWhenTaken, ExecuteAtMostOnce
<1>. QED  BY <1>1, QueueInvariant, PTL

\* An operation is claimed only when every earlier one of its device is settled.
THEOREM InOrder == Spec => []SettledBeforeNext
<1>1. QueueInv => SettledBeforeNext
  BY DEF QueueInv
<1>. QED  BY <1>1, QueueInvariant, PTL

\* At most one operation of a device is running or unknown: the unique partial
\* index active_target of the schema is never what stops a statement.
OneActive ==
    \A o, p \in Ops :
        SameDevice(o, p) /\ ops[o].state \in Active /\ ops[p].state \in Active => o = p

LEMMA OneActiveHolds == QueueInv => OneActive
<1>. SUFFICES ASSUME QueueInv, NEW o \in Ops, NEW p \in Ops, SameDevice(o, p),
                     ops[o].state \in Active, ops[p].state \in Active, o < p
              PROVE  FALSE
  BY DEF OneActive, SameDevice, Ops
<1>1. claimedBy[p] # None
  BY DEF QueueInv, TakenIsClaimed, Untaken, Active
<1>2. ops[o].state \in Settled
  BY <1>1 DEF QueueInv, SettledBeforeNext
<1>. QED  BY <1>2 DEF Active, Settled

\* No recovery, abandonment, evidence or verdict brings a second operation of a
\* device to running or unknown: the claim itself looks first.
THEOREM ActiveTargetUnique == Spec => []OneActive
  BY OneActiveHolds, QueueInvariant, PTL

------------------------------------------------------------------------------
(* What sessions may do to the devices row and to an outcome.               *)

LEMMA DeviceSteps ==
  ASSUME [Next]_vars
  PROVE  \/ UNCHANGED devices
         \/ \E d \in Devices : Revoke(d)
         \/ Restart
         \/ \E s \in Sessions :
               Hello(s) \/ HandleHeartbeat(s) \/ HandleResult(s) \/ Clear(s)
<1>1. CASE UNCHANGED vars \/ \E d \in Devices : EditLocally(d)
  BY <1>1 DEF vars, EditLocally, tableVars
<1>2. CASE AdminStep
  BY <1>2 DEF AdminStep, Enqueue, Resolve
<1>3. CASE ProcessStep
  BY <1>3 DEF ProcessStep, Crash, Serve, Reap, Recover, LeaseExpires, tableVars
<1>4. ASSUME NEW s \in Sessions, ServeStep(s)
      PROVE  \/ UNCHANGED devices
             \/ HandleHeartbeat(s) \/ HandleResult(s) \/ Clear(s)
  BY <1>4 DEF ServeStep, Receive, RefuseResult, Tick, FindUncertain, Inspect, Claim,
              Abandon, tableVars
<1>5. ASSUME NEW s \in Sessions, ConnectionStep(s) \/ ClientStep(s)
      PROVE  UNCHANGED devices \/ Hello(s)
  BY <1>5 DEF ConnectionStep, Connect, TimeOut, Disconnect, ClientStep, ClientExecute,
              ClientInspect, ClientRepeat, ClientHeartbeat, tableVars
<1>. QED  BY <1>1, <1>2, <1>3, <1>4, <1>5 DEF Next

\* A report is accepted of an operation that the session holds, as evidence on one
\* that is unknown or as the outcome of one that is running.
LEMMA AcceptedResult ==
  ASSUME TypeInv, NEW s \in Sessions, HandleResult(s)
  PROVE  \E c \in pending[s] :
            /\ c.op \in Ops /\ c.op = Head(up[s]).op /\ Head(up[s]) \in Message
            /\ Head(up[s]).type = "result" /\ up[s] # <<>>
            /\ Completable(s, c, Head(up[s]).report) /\ Complete(c, Head(up[s]).report)
            /\ ops[c.op].state \in Active
            /\ ops[c.op].state = "running" => c.state # "unknown"
<1>. USE DEF TypeInv
<1>1. PICK c \in Matching(s, Head(up[s])) :
         Completable(s, c, Head(up[s]).report) /\ Complete(c, Head(up[s]).report)
  BY DEF HandleResult
<1>2. c \in pending[s] /\ c.op = Head(up[s]).op /\ c.op \in Ops
  BY <1>1 DEF Matching, TypeOK, Capture
<1>3. up[s] # <<>> /\ Head(up[s]) \in Message /\ Head(up[s]).type = "result"
  BY DEF HandleResult, AtHand, TypeOK
<1>4. ops[c.op].state \in Active /\ (ops[c.op].state = "running" => c.state # "unknown")
  BY <1>1 DEF Completable, OwnedBy, Active
<1>. QED  BY <1>1, <1>2, <1>3, <1>4

\* The recorded saved revision is a report's, the session column a takeover's,
\* a revocation's, a restart's or the session's own.
LEMMA CompleteDevices ==
  ASSUME TypeInv, NEW c, NEW r, Complete(c, r), NEW d \in Devices
  PROVE  /\ devices'[d].session = devices[d].session
         /\ devices'[d].revoked = devices[d].revoked
         /\ devices'[d].saved # devices[d].saved => d = ops[c.op].device
<1>1. devices \in [Devices -> DeviceRow]
  BY DEF TypeInv, TypeOK
<1>2. \A row \in DeviceRow : /\ Recorded(row, r).session = row.session
                             /\ Recorded(row, r).revoked = row.revoked
  BY DEF Recorded, DeviceRow
<1>3. devices' = [devices EXCEPT ![ops[c.op].device] = Recorded(@, r)]
  BY DEF Complete
<1>. QED  BY <1>1, <1>2, <1>3

\* db: the end of an earlier connection never clears the session of a later one.
THEOREM SessionStays == Spec => CurrentSessionKept
<1>1. ASSUME TypeInv, [Next]_vars, NEW d \in Devices, NEW s \in Sessions,
             devices[d].session = s, devices'[d].session = None
      PROVE  devices'[d].revoked \/ phase[s] \notin Serving \/ mgr = "down"
  <2>0. s # None /\ devices \in [Devices -> DeviceRow]
    BY <1>1, ChannelAssumption DEF TypeInv, TypeOK
  <2>1. CASE UNCHANGED devices
    BY <1>1, <2>0, <2>1
  <2>2. ASSUME NEW e \in Devices, Revoke(e)
        PROVE  devices'[d].revoked
    <3>1. d = e
      BY <1>1, <2>0, <2>2 DEF Revoke
    <3>. QED  BY <2>0, <2>2, <3>1 DEF Revoke, DeviceRow
  <2>3. CASE Restart
    BY <2>3 DEF Restart
  <2>4. ASSUME NEW t \in Sessions, Hello(t)
        PROVE  FALSE
    <3>1. t # None
      BY ChannelAssumption
    <3>. QED  BY <1>1, <2>0, <2>4, <3>1 DEF Hello, DeviceRow
  <2>5. ASSUME NEW t \in Sessions, HandleHeartbeat(t)
        PROVE  FALSE
    BY <1>1, <2>0, <2>5 DEF HandleHeartbeat, DeviceRow
  <2>6. ASSUME NEW t \in Sessions, HandleResult(t)
        PROVE  FALSE
    BY <1>1, <2>0, <2>6, AcceptedResult, CompleteDevices
  <2>7. ASSUME NEW t \in Sessions, Clear(t)
        PROVE  phase[s] \notin Serving
    BY <1>1, <2>0, <2>7 DEF Clear, Serving
  <2>. QED  BY <1>1, <2>1, <2>2, <2>3, <2>4, <2>5, <2>6, <2>7, DeviceSteps
<1>2. TypeInv /\ [Next]_vars =>
         [\A d \in Devices, s \in Sessions :
             devices[d].session = s /\ devices'[d].session = None =>
                 \/ devices'[d].revoked
                 \/ phase[s] \notin Serving
                 \/ mgr = "down"]_devices
  BY <1>1
<1>3. Init => TypeInv
  BY InitType DEF Init, TypeInv, AtHand
<1>. QED  BY <1>2, <1>3, TypeStep, PTL DEF Spec, CurrentSessionKept

\* client_observations gets a row in the transaction of an accepted result only.
LEMMA ObservedSteps ==
  ASSUME [Next]_vars
  PROVE  UNCHANGED observed \/ \E s \in Sessions : HandleResult(s)
<1>1. CASE UNCHANGED vars \/ \E d \in Devices : EditLocally(d)
  BY <1>1 DEF vars, EditLocally, tableVars
<1>2. CASE AdminStep
  BY <1>2 DEF AdminStep, Enqueue, Resolve, Revoke
<1>3. CASE ProcessStep
  BY <1>3 DEF ProcessStep, Crash, Restart, Serve, Reap, Recover, LeaseExpires, tableVars
<1>4. ASSUME NEW s \in Sessions, ServeStep(s)
      PROVE  UNCHANGED observed \/ HandleResult(s)
  BY <1>4 DEF ServeStep, Receive, HandleHeartbeat, RefuseResult, Tick, FindUncertain,
              Inspect, Claim, Abandon, Clear, tableVars
<1>5. ASSUME NEW s \in Sessions, ConnectionStep(s) \/ ClientStep(s)
      PROVE  UNCHANGED observed
  BY <1>5 DEF ConnectionStep, Connect, Hello, TimeOut, Disconnect, ClientStep,
              ClientExecute, ClientInspect, ClientRepeat, ClientHeartbeat, tableVars
<1>. QED  BY <1>1, <1>2, <1>3, <1>4, <1>5 DEF Next

\* A report is evidence on an operation that is, and stays, unknown.
LEMMA EvidenceSteps ==
  ASSUME TypeInv, [Next]_vars, NEW o \in observed' \ observed
  PROVE  ops[o].state = "unknown" /\ ops'[o].state = "unknown"
<1>1. PICK s \in Sessions : HandleResult(s)
  BY ObservedSteps
<1>2. PICK c \in pending[s] :
        /\ Completable(s, c, Head(up[s]).report)
        /\ Complete(c, Head(up[s]).report)
  BY <1>1, AcceptedResult
<1>3. c.state = "unknown"
  BY <1>2 DEF Complete
<1>4. ops' = ops /\ ops[c.op].state = "unknown" /\ observed' = observed \cup {c.op}
  BY <1>2, <1>3 DEF Complete, Completable
<1>. QED  BY <1>4

------------------------------------------------------------------------------
(* Who may settle a running operation.                                      *)

\* What an operation that is no longer waiting or running can be.
Past == {"unknown"} \cup Settled

\* The owner column is the claimant, and NULL unless the operation is running.
OwnerIsClaimant ==
    \A o \in Ops : /\ ops[o].state = "running" => ops[o].owner = claimedBy[o]
                   /\ ops[o].owner # None => ops[o].state = "running"

\* A captured claim is the session's own, on an operation of its own device.
OwnCapture ==
    \A s \in Sessions : \A c \in pending[s] :
        c.owner # None => /\ c.owner = s
                          /\ ops[c.op].device = peer[s]
                          /\ ops[c.op].state \notin Untaken

\* An operation to be asked about has left running.
TargetIsPast ==
    \A s \in Sessions : target[s] # 0 => ops[target[s]].state \in Past

UnusedIsBare ==
    \A s \in Sessions : phase[s] = "unused" => pending[s] = {} /\ target[s] = 0

ClaimInv ==
    /\ TypeInv
    /\ OwnerIsClaimant
    /\ OwnCapture
    /\ TargetIsPast
    /\ UnusedIsBare

\* What a step leaves of the locals of session t: the device is its own for good, a
\* capture is made by an inspection or a claim only.
Locals(t) ==
    /\ peer'[t] = peer[t] \/ phase[t] = "unused"
    /\ pending'[t] \in {pending[t], {}} \/ Inspect(t) \/ (Claim(t) /\ ClaimOldest(t))
    /\ target'[t] \in {target[t], 0} \/ FindUncertain(t)
    /\ phase'[t] = "unused" => /\ phase[t] = "unused"
                               /\ pending'[t] \in {pending[t], {}}
                               /\ target'[t] \in {target[t], 0}

LEMMA LeaveLocals ==
  ASSUME TypeInv, NEW s \in Sessions, NEW t \in Sessions, Leave(s)
  PROVE  /\ target'[t] \in {target[t], 0}
         /\ t # s => phase'[t] = phase[t] /\ target'[t] = target[t]
         /\ t = s => phase'[t] = "closing"
  BY DEF TypeInv, TypeOK, Leave, Goto

LEMMA LocalsOfServe ==
  ASSUME TypeInv, NEW s \in Sessions, ServeStep(s), NEW t \in Sessions
  PROVE  Locals(t)
<1>. USE DEF TypeInv
<1>1. CASE Receive(s)
  BY <1>1, LeaveLocals DEF TypeOK, Receive, Dismiss, Goto, Locals
<1>2. CASE HandleHeartbeat(s)
  BY <1>2 DEF TypeOK, HandleHeartbeat, Goto, Locals
<1>3. CASE HandleResult(s)
  BY <1>3 DEF TypeOK, HandleResult, Goto, Locals
<1>4. CASE RefuseResult(s)
  BY <1>4, LeaveLocals DEF TypeOK, RefuseResult, Locals
<1>5. CASE Tick(s)
  BY <1>5, LeaveLocals DEF TypeOK, Tick, Dismiss, Goto, Locals
<1>6. CASE FindUncertain(s)
  BY <1>6 DEF TypeOK, FindUncertain, Goto, Locals
<1>7. CASE Inspect(s)
  BY <1>7 DEF TypeOK, Inspect, Goto, Locals
<1>8. CASE Claim(s)
  <2>1. CASE ClaimOldest(s)
    <3>1. CASE Leave(s) /\ UNCHANGED pending
      BY <1>8, <2>1, <3>1, LeaveLocals DEF TypeOK, Claim, Locals
    <3>2. CASE /\ Goto(s, "idle") /\ UNCHANGED target
               /\ \E c : pending' = [pending EXCEPT ![s] = c]
      BY <1>8, <2>1, <3>2 DEF TypeOK, Claim, Goto, Locals
    <3>. QED  BY <2>1, <3>1, <3>2 DEF ClaimOldest
  <2>2. CASE Leave(s) /\ UNCHANGED pending
    BY <1>8, <2>2, LeaveLocals DEF TypeOK, Claim, Locals
  <2>3. CASE Goto(s, "idle") /\ UNCHANGED <<pending, target>>
    BY <1>8, <2>3 DEF TypeOK, Claim, Goto, Locals
  <2>. QED  BY <1>8, <2>1, <2>2, <2>3 DEF Claim
<1>9. CASE Abandon(s) \/ Clear(s)
  BY <1>9 DEF TypeOK, Abandon, Clear, Goto, Locals
<1>. QED  BY <1>1, <1>2, <1>3, <1>4, <1>5, <1>6, <1>7, <1>8, <1>9 DEF ServeStep

LEMMA LocalsStep ==
  ASSUME TypeInv, [Next]_vars, NEW t \in Sessions
  PROVE  Locals(t)
<1>. USE DEF TypeInv
<1>1. CASE UNCHANGED vars \/ \E d \in Devices : EditLocally(d)
  BY <1>1 DEF vars, EditLocally, sessionVars, Locals
<1>2. CASE AdminStep
  BY <1>2 DEF AdminStep, Enqueue, Resolve, Revoke, sessionVars, Locals
<1>3. CASE ProcessStep
  <2>1. CASE Crash
    BY <2>1 DEF TypeOK, Crash, Locals
  <2>2. CASE UNCHANGED sessionVars
    BY <2>2 DEF sessionVars, Locals
  <2>. QED  BY <1>3, <2>1, <2>2
            DEF ProcessStep, Restart, Serve, Reap, Recover, LeaseExpires
<1>4. ASSUME NEW s \in Sessions, ServeStep(s)
      PROVE  Locals(t)
  BY <1>4, LocalsOfServe
<1>5. ASSUME NEW s \in Sessions, ConnectionStep(s)
      PROVE  Locals(t)
  <2>1. CASE \E d \in Devices : Connect(s, d)
    BY <2>1 DEF TypeOK, Connect, Locals
  <2>2. CASE Hello(s)
    BY <2>2, LeaveLocals DEF TypeOK, Hello, Goto, Locals
  <2>3. CASE TimeOut(s) \/ Disconnect(s)
    BY <2>3, LeaveLocals DEF TypeOK, TimeOut, Disconnect, Locals
  <2>. QED  BY <1>5, <2>1, <2>2, <2>3 DEF ConnectionStep
<1>6. ASSUME NEW s \in Sessions, ClientStep(s)
      PROVE  Locals(t)
  BY <1>6 DEF ClientStep, ClientExecute, ClientInspect, ClientRepeat, ClientHeartbeat,
              sessionVars, Locals
<1>. QED  BY <1>1, <1>2, <1>3, <1>4, <1>5, <1>6 DEF Next

\* The table of a claim, row by row.
LEMMA ClaimRows ==
  ASSUME TypeInv, NEW o \in Ops, Claims(o)
  PROVE  /\ ops[o].state = "pending" /\ ops'[o].state = "running"
         /\ ops'[o].device = ops[o].device
         /\ ops'[o].owner = claimedBy'[o]
         /\ \A p \in Ops : p # o => ops'[p] = ops[p] /\ claimedBy'[p] = claimedBy[p]
  BY DEF TypeInv, TypeOK, Claims, Claimable, ClaimNextIn, OperationRow

LEMMA QueueRows ==
  ASSUME TypeInv, NEW o \in Ops, Queues(o)
  PROVE  /\ ops[o].state = "absent" /\ ops'[o].state = "pending" /\ ops'[o].owner = None
         /\ \A p \in Ops : p # o => ops'[p] = ops[p]
         /\ UNCHANGED claimedBy
  BY DEF TypeInv, TypeOK, Queues, IsNext, Exists, EnqueueIn, historyVars

\* An operation that was taken up stays taken up, on the same device, and one that left
\* running does not return to it.
LEMMA Forward ==
  ASSUME TypeInv, [Next]_vars, NEW o \in Ops, ops[o].state \notin Untaken
  PROVE  /\ ops'[o].state \notin Untaken
         /\ ops'[o].device = ops[o].device
         /\ ops[o].state \in Past => ops'[o].state \in Past
<1>1. CASE MovesOn(o)
  BY <1>1, StateKinds DEF TypeInv, MovesOn, Untaken, Active, Settled, Past
<1>2. ASSUME NEW p \in Ops, Queues(p) \/ Claims(p)
      PROVE  ops'[o] = ops[o]
  BY <1>2, QueueRows, ClaimRows DEF Untaken
<1>. QED  BY <1>1, <1>2, TableStep

LEMMA ClaimInit == Init => ClaimInv
<1>1. Init => TypeInv
  BY InitType DEF Init, TypeInv, AtHand
<1>. QED  BY <1>1 DEF Init, Vacant, ClaimInv, OwnerIsClaimant, OwnCapture, TargetIsPast,
            UnusedIsBare

LEMMA ClaimStep == ClaimInv /\ [Next]_vars => ClaimInv'
<1>. SUFFICES ASSUME ClaimInv, [Next]_vars
              PROVE  ClaimInv'
  OBVIOUS
<1>0. TypeInv /\ TypeInv' /\ TypeOK /\ TypeOK'
  BY TypeStep DEF ClaimInv, TypeInv
<1>1. OwnerIsClaimant'
  <2>1. CASE UNCHANGED historyVars /\ \A o \in Ops : MovesOn(o)
    BY <2>1 DEF ClaimInv, OwnerIsClaimant, MovesOn, historyVars
  <2>2. ASSUME NEW o \in Ops, Queues(o) \/ Claims(o)
        PROVE  OwnerIsClaimant'
    BY <1>0, <2>2, QueueRows, ClaimRows DEF ClaimInv, OwnerIsClaimant
  <2>. QED  BY <1>0, <2>1, <2>2, TableStep
<1>2. OwnCapture'
  <2>. SUFFICES ASSUME NEW s \in Sessions, NEW c \in pending'[s], c.owner # None
                PROVE  /\ c.owner = s
                       /\ ops'[c.op].device = peer'[s]
                       /\ ops'[c.op].state \notin Untaken
    BY DEF OwnCapture
  <2>1. Locals(s)
    BY <1>0, LocalsStep
  <2>2. CASE c \in pending[s]
    <3>1. c.op \in Ops
      BY <1>0, <2>2 DEF TypeOK, Capture
    <3>2. peer'[s] = peer[s]
      BY <2>1, <2>2 DEF Locals, ClaimInv, UnusedIsBare
    <3>. QED  BY <1>0, <2>2, <3>1, <3>2, Forward DEF ClaimInv, OwnCapture
  <2>3. CASE Inspect(s) /\ c \notin pending[s]
    <3>1. target[s] \in Ops /\ c = CaptureOf(target[s])
      BY <1>0, <2>3 DEF Inspect, TypeInv, TypeOK, AtHand
    <3>2. ops[target[s]].state \in Past
      BY <3>1 DEF ClaimInv, TargetIsPast, Ops
    <3>3. ops[target[s]].owner = None
      BY <3>1, <3>2 DEF ClaimInv, OwnerIsClaimant, Past, Settled
    <3>. QED  BY <3>1, <3>3 DEF CaptureOf
  <2>4. CASE Claim(s) /\ ClaimOldest(s) /\ c \notin pending[s]
    <3>1. PICK o \in Ops :
            /\ Claimable(ops, peer[s], o)
            /\ ops' = ClaimNextIn(ops, o, s)
            /\ \/ pending' = [pending EXCEPT
                                ![s] = {[op |-> o, state |-> "running", owner |-> s]}]
               \/ UNCHANGED pending
      BY <2>4 DEF ClaimOldest
    <3>2. c = [op |-> o, state |-> "running", owner |-> s]
      BY <1>0, <2>4, <3>1 DEF TypeOK
    <3>3. ops[o].device = peer[s]
      BY <3>1 DEF Claimable
    <3>4. ops'[o].state = "running" /\ ops'[o].device = ops[o].device
      BY <1>0, <3>1 DEF ClaimNextIn, TypeOK, OperationRow
    <3>5. peer' = peer
      BY <2>4 DEF Claim
    <3>. QED  BY <3>2, <3>3, <3>4, <3>5 DEF Untaken
  <2>. QED  BY <2>1, <2>2, <2>3, <2>4 DEF Locals
<1>3. TargetIsPast'
  <2>. SUFFICES ASSUME NEW s \in Sessions, target'[s] # 0
                PROVE  ops'[target'[s]].state \in Past
    BY DEF TargetIsPast
  <2>1. CASE target'[s] = target[s]
    <3>1. target[s] \in Ops /\ ops[target[s]].state \in Past
      BY <1>0, <2>1 DEF ClaimInv, TargetIsPast, TypeOK
    <3>. QED  BY <1>0, <2>1, <3>1, Forward DEF Past, Settled, Untaken
  <2>2. CASE FindUncertain(s) /\ target'[s] # target[s]
    <3>1. target'[s] \in UnknownOf(peer[s]) /\ UNCHANGED ops
      BY <1>0, <2>2 DEF FindUncertain, TypeOK, tableVars
    <3>. QED  BY <3>1 DEF UnknownOf, Past
  <2>3. Locals(s)
    BY <1>0, LocalsStep
  <2>. QED  BY <2>1, <2>2, <2>3 DEF Locals
<1>4. UnusedIsBare'
  BY <1>0, LocalsStep DEF ClaimInv, UnusedIsBare, Locals
<1>. QED  BY <1>0, <1>1, <1>2, <1>3, <1>4 DEF ClaimInv

\* An operation becomes succeeded or failed by a result that completes a capture of it.
LEMMA OutcomeSteps ==
  ASSUME TypeInv, [Next]_vars, NEW o \in Ops,
         ops'[o].state \in {"succeeded", "failed"}, ops'[o].state # ops[o].state
  PROVE  \E s \in Sessions : \E c \in pending[s] :
            /\ c.op = o /\ c.state # "unknown" /\ ops[o].state = "running"
            /\ up[s] # <<>> /\ Head(up[s]) \in Message /\ Head(up[s]).type = "result"
            /\ Head(up[s]).op = o
            /\ Completable(s, c, Head(up[s]).report) /\ Complete(c, Head(up[s]).report)
            /\ ops'[o].state = Outcome(Head(up[s]).report)
            /\ UNCHANGED <<peer, clientVars>>
<1>. USE DEF TypeInv
<1>1. ASSUME NEW s \in Sessions, HandleResult(s)
      PROVE  \E c \in pending[s] :
                /\ c.op = o /\ c.state # "unknown" /\ ops[o].state = "running"
                /\ up[s] # <<>> /\ Head(up[s]) \in Message /\ Head(up[s]).type = "result"
                /\ Head(up[s]).op = o
                /\ Completable(s, c, Head(up[s]).report) /\ Complete(c, Head(up[s]).report)
                /\ ops'[o].state = Outcome(Head(up[s]).report)
                /\ UNCHANGED <<peer, clientVars>>
  <2>1. PICK c \in pending[s] :
          /\ c.op \in Ops /\ c.op = Head(up[s]).op /\ Head(up[s]) \in Message
          /\ Head(up[s]).type = "result" /\ up[s] # <<>>
          /\ Completable(s, c, Head(up[s]).report) /\ Complete(c, Head(up[s]).report)
    BY <1>1, AcceptedResult
  <2>2. c.state # "unknown" /\ ops' = ApplyTransition(ops, c.op, Outcome(Head(up[s]).report))
    BY <2>1 DEF Complete
  <2>3. c.op = o /\ ops'[o].state = Outcome(Head(up[s]).report)
    BY <2>1, <2>2 DEF ApplyTransition, Settle, TypeOK
  <2>4. ops[o].state = "running"
    BY <2>1, <2>2, <2>3 DEF Completable, OwnedBy
  <2>. QED  BY <1>1, <2>1, <2>2, <2>3, <2>4 DEF HandleResult
<1>2. CASE UNCHANGED ops
  BY <1>2
<1>3. ASSUME NEW d \in Devices, NEW c \in Commands, Enqueue(d, c)
      PROVE  FALSE
  BY <1>3 DEF Enqueue, EnqueueIn, TypeOK
<1>4. ASSUME NEW p \in Ops, NEW st \in {"unknown", "dead_letter", "resolved"},
             ops' = ApplyTransition(ops, p, st)
      PROVE  FALSE
  BY <1>4 DEF ApplyTransition, Settle, TypeOK
<1>5. ASSUME NEW d \in Devices, Reap(d) \/ Recover(d)
      PROVE  FALSE
  <2>1. ops'[o] = ops[o] \/ ops'[o] = Settle(ops[o], "unknown")
    BY <1>5 DEF Reap, Recover, RecoverExpired, RecoverRunning, TypeOK
  <2>. QED  BY <2>1 DEF Settle
<1>6. ASSUME NEW p \in Ops, LeaseExpires(p)
      PROVE  FALSE
  BY <1>6 DEF LeaseExpires, LeaseRunsOut, TypeOK, OperationRow
<1>7. ASSUME NEW p \in Ops, NEW s \in Sessions, ops' = ClaimNextIn(ops, p, s)
      PROVE  FALSE
  BY <1>7 DEF ClaimNextIn, TypeOK, OperationRow
<1>8. CASE AdminStep
  BY <1>2, <1>3, <1>4, <1>8 DEF AdminStep, Revoke, Resolve, ResolveIn
<1>9. CASE ProcessStep
  BY <1>2, <1>5, <1>6, <1>9 DEF ProcessStep, Crash, Restart, Serve, tableVars
<1>10. ASSUME NEW s \in Sessions, ServeStep(s), ~HandleResult(s)
       PROVE  FALSE
  <2>1. CASE Claim(s)
    BY <1>2, <1>7, <2>1 DEF Claim, ClaimOldest
  <2>2. CASE Abandon(s)
    <3>1. ASSUME NEW c \in pending[s], ops' = ApplyTransition(ops, c.op, "unknown")
          PROVE  FALSE
      BY <1>4, <3>1 DEF TypeOK, Capture
    <3>. QED  BY <1>2, <2>2, <3>1 DEF Abandon
  <2>. QED  BY <1>2, <1>10, <2>1, <2>2
            DEF ServeStep, Receive, HandleHeartbeat, RefuseResult, Tick, FindUncertain,
                Inspect, Clear, tableVars
<1>11. ASSUME NEW s \in Sessions, ConnectionStep(s) \/ ClientStep(s)
       PROVE  FALSE
  BY <1>2, <1>11 DEF ConnectionStep, Connect, Hello, TimeOut, Disconnect, ClientStep,
                     ClientExecute, ClientInspect, ClientRepeat, ClientHeartbeat,
                     tableVars
<1>12. CASE UNCHANGED vars \/ \E d \in Devices : EditLocally(d)
  BY <1>2, <1>12 DEF vars, EditLocally, tableVars
<1>. QED  BY <1>1, <1>8, <1>9, <1>10, <1>11, <1>12 DEF Next

\* next and complete: a device's operation is claimed for the device's current session,
\* and settled by a report to that session while it is still the current one.
THEOREM CurrentDecides == Spec => CurrentSessionDecides
<1> DEFINE Current(o) == /\ devices[ops[o].device].session = claimedBy'[o]
                         /\ ~devices[ops[o].device].revoked
<1>1. ASSUME ClaimInv, [Next]_vars, NEW o \in Ops, ops[o].state = "running",
             ops'[o].state \in {"succeeded", "failed"}
      PROVE  Current(o)
  <2>1. PICK s \in Sessions : \E c \in pending[s] :
          /\ c.op = o /\ c.state # "unknown"
          /\ Completable(s, c, Head(up[s]).report)
    BY <1>1, OutcomeSteps DEF ClaimInv
  <2>0. PICK c \in pending[s] :
          /\ c.op = o /\ c.state # "unknown"
          /\ Completable(s, c, Head(up[s]).report)
    BY <2>1
  <2>2. c.owner # None /\ ops[o].owner = c.owner /\ IsCurrent(s)
    BY <2>0 DEF Completable, OwnedBy
  <2>3. c.owner = s /\ ops[o].device = peer[s] /\ claimedBy[o] = s
    BY <1>1, <2>0, <2>2 DEF ClaimInv, OwnCapture, OwnerIsClaimant
  <2>4. ASSUME NEW p \in Ops, Queues(p) \/ Claims(p)
        PROVE  FALSE
    BY <1>1, <2>4, QueueRows, ClaimRows DEF ClaimInv
  <2>5. UNCHANGED claimedBy
    BY <1>1, <2>4, TableStep DEF ClaimInv, historyVars
  <2>. QED  BY <2>2, <2>3, <2>5 DEF IsCurrent
<1>2. ASSUME ClaimInv, [Next]_vars, NEW o \in Ops, ops[o].state = "pending",
             ops'[o].state = "running"
      PROVE  Current(o)
  <2>1. ~MovesOn(o)
    BY <1>2 DEF MovesOn, Untaken
  <2>2. ASSUME NEW p \in Ops, Queues(p)
        PROVE  FALSE
    BY <1>2, <2>2, QueueRows DEF ClaimInv
  <2>3. PICK p \in Ops : Claims(p)
    BY <1>2, <2>1, <2>2, TableStep DEF ClaimInv
  <2>4. p = o
    BY <1>2, <2>3, ClaimRows DEF ClaimInv
  <2>5. PICK s \in Sessions : /\ claimedBy' = [claimedBy EXCEPT ![o] = s]
                              /\ IsCurrent(s) /\ ops[o].device = peer[s]
    BY <2>3, <2>4 DEF Claims
  <2>6. claimedBy'[o] = s
    BY <1>2, <2>5 DEF ClaimInv, TypeInv, TypeOK
  <2>. QED  BY <2>5, <2>6 DEF IsCurrent
<1>3. ClaimInv /\ [Next]_vars =>
         [\A o \in Ops :
             <<ops[o].state, ops'[o].state>> \in
                 {<<"pending", "running">>, <<"running", "succeeded">>,
                  <<"running", "failed">>} =>
                 /\ devices[ops[o].device].session = claimedBy'[o]
                 /\ ~devices[ops[o].device].revoked]_ops
  BY <1>1, <1>2
<1>. QED  BY <1>3, ClaimInit, ClaimStep, PTL DEF Spec, CurrentSessionDecides

------------------------------------------------------------------------------
(* What is in flight, in the journals and in the outcomes.                  *)

Frames(q) == {q[i] : i \in DOMAIN q}

LEMMA FramesOfTail ==
  ASSUME NEW S, NEW q \in Seq(S), q # <<>>
  PROVE  Frames(Tail(q)) \subseteq Frames(q)
<1>. SUFFICES ASSUME NEW i \in DOMAIN Tail(q)
              PROVE  \E j \in DOMAIN q : Tail(q)[i] = q[j]
  BY DEF Frames
<1>1. i + 1 \in DOMAIN q /\ Tail(q)[i] = q[i + 1]
  OBVIOUS
<1>. QED  BY <1>1

LEMMA FramesOfAppend ==
  ASSUME NEW S, NEW q \in Seq(S), NEW m \in S
  PROVE  Frames(Append(q, m)) \subseteq Frames(q) \cup {m}
<1>. SUFFICES ASSUME NEW i \in DOMAIN Append(q, m)
              PROVE  Append(q, m)[i] = m \/ (i \in DOMAIN q /\ Append(q, m)[i] = q[i])
  BY DEF Frames
<1>. QED  OBVIOUS

\* What a Client was told to execute was claimed, what it was asked about is past.
ToldOk(m) ==
    /\ m.type = "execute" => m.op \in Ops /\ ops[m.op].state \notin Untaken
    /\ m.type = "inspect_only" => m.op \in Ops /\ ops[m.op].state \in Past

\* A result is the journal's, or of an operation that is past.
SaidOk(m) ==
    m.type = "result" =>
        /\ m.op \in Ops
        /\ ops[m.op].state \in Past \/ m.report \in journal[m.op]

Told == \A s \in Sessions : \A m \in Frames(down[s]) : ToldOk(m)
Said == \A s \in Sessions : \A m \in Frames(up[s]) : SaidOk(m)

\* A journal has what executing the operation can end in, once it was taken up.
Journalled ==
    \A o \in Ops : \A r \in journal[o] :
        /\ ops[o].state \notin Untaken
        /\ r.kind \in {Confirmation(ops[o].command), "unknown"} \cup Refusals

TruthInv ==
    /\ ClaimInv
    /\ Told
    /\ Said
    /\ Journalled
    /\ OutcomeIsTrue

\* A Client's journal of an operation is written once.
JournalKept == \A o \in Ops : journal[o] # {} => journal'[o] = journal[o]

LEMMA JournalSteps ==
  ASSUME TypeInv, [Next]_vars
  PROVE  UNCHANGED journal \/ \E s \in Sessions : ClientExecute(s)
<1>1. CASE UNCHANGED vars \/ \E d \in Devices : EditLocally(d)
  BY <1>1 DEF vars, EditLocally, clientVars
<1>2. CASE AdminStep \/ ProcessStep
  BY <1>2 DEF AdminStep, Enqueue, Resolve, Revoke, ProcessStep, Crash, Restart, Serve,
              Reap, Recover, LeaseExpires, clientVars
<1>3. ASSUME NEW s \in Sessions, ServeStep(s)
      PROVE  UNCHANGED journal
  BY <1>3 DEF ServeStep, Receive, HandleHeartbeat, HandleResult, RefuseResult, Tick,
              FindUncertain, Inspect, Claim, Abandon, Clear, clientVars
<1>4. ASSUME NEW s \in Sessions, ConnectionStep(s) \/ ClientStep(s)
      PROVE  UNCHANGED journal \/ ClientExecute(s)
  BY <1>4 DEF ConnectionStep, Connect, Hello, TimeOut, Disconnect, ClientStep,
              ClientInspect, ClientRepeat, ClientHeartbeat, clientVars
<1>. QED  BY <1>1, <1>2, <1>3, <1>4 DEF Next

LEMMA JournalStays ==
  ASSUME TypeInv, [Next]_vars
  PROVE  JournalKept
<1>1. ASSUME NEW s \in Sessions, ClientExecute(s)
      PROVE  JournalKept
  BY <1>1 DEF TypeInv, TypeOK, ClientExecute, JournalKept
<1>. QED  BY <1>1, JournalSteps DEF JournalKept

\* The command of an operation that was taken up does not change.
LEMMA CommandKept ==
  ASSUME TypeInv, [Next]_vars, NEW o \in Ops, ops[o].state \notin Untaken
  PROVE  ops'[o].command = ops[o].command
<1>1. ASSUME NEW p \in Ops, Queues(p) \/ Claims(p)
      PROVE  ops'[o] = ops[o]
  BY <1>1, QueueRows, ClaimRows DEF Untaken
<1>. QED  BY <1>1, TableStep DEF MovesOn

------------------------------------------------------------------------------
(* The frames a step adds.                                                  *)

LEMMA SendFrames ==
  ASSUME TypeInv, NEW s \in Sessions, NEW m \in Delivery, Send(s, m), NEW t \in Sessions
  PROVE  Frames(down'[t]) \subseteq Frames(down[t]) \cup {m}
<1>1. down[t] \in Seq(Delivery)
  BY DEF TypeInv, TypeOK
<1>2. down'[t] = down[t] \/ down'[t] = Append(down[t], m)
  BY DEF TypeInv, TypeOK, Send
<1>. QED  BY <1>1, <1>2, FramesOfAppend

LEMMA DismissFrames ==
  ASSUME TypeInv, NEW s \in Sessions, Dismiss(s), NEW t \in Sessions
  PROVE  Frames(down'[t]) \subseteq Frames(down[t]) \cup {RevokedNotice}
<1>1. RevokedNotice \in Delivery
  BY DEF Delivery
<1>. QED  BY <1>1, SendFrames DEF Dismiss

LEMMA ReplyFrames ==
  ASSUME TypeInv, NEW s \in Sessions, NEW m \in Message, Reply(s, m), NEW t \in Sessions
  PROVE  Frames(up'[t]) \subseteq Frames(up[t]) \cup {m}
<1>1. up[t] \in Seq(Message)
  BY DEF TypeInv, TypeOK
<1>2. up'[t] = up[t] \/ up'[t] = Append(up[t], m)
  BY DEF TypeInv, TypeOK, Reply
<1>. QED  BY <1>1, <1>2, FramesOfAppend

\* A Client that takes a delivery has one less to read.
LEMMA TakenFrames ==
  ASSUME TypeInv, NEW s \in Sessions, down[s] # <<>>,
         down' = [down EXCEPT ![s] = Tail(@)], NEW t \in Sessions
  PROVE  Frames(down'[t]) \subseteq Frames(down[t])
<1>1. down[s] \in Seq(Delivery)
  BY DEF TypeInv, TypeOK
<1>2. down'[t] = down[t] \/ (t = s /\ down'[t] = Tail(down[s]))
  BY DEF TypeInv, TypeOK
<1>. QED  BY <1>1, <1>2, FramesOfTail

LEMMA EmptyFrames == Frames(<<>>) = {}
  BY DEF Frames

\* What is told: nothing new, the notice, an inspection of the target, or a claim.
LEMMA ToldSteps ==
  ASSUME TypeInv, [Next]_vars, NEW t \in Sessions, NEW m \in Frames(down'[t])
  PROVE  \/ m \in Frames(down[t])
         \/ m = RevokedNotice
         \/ \E s \in Sessions : /\ target[s] \in Ops
                                /\ m = Task("inspect_only", target[s])
         \/ \E o \in Ops : m = Task("execute", o) /\ ops'[o].state = "running"
<1> DEFINE New == \/ m \in Frames(down[t])
                  \/ m = RevokedNotice
                  \/ \E s \in Sessions : /\ target[s] \in Ops
                                         /\ m = Task("inspect_only", target[s])
                  \/ \E o \in Ops : m = Task("execute", o) /\ ops'[o].state = "running"
<1>. USE DEF TypeInv
<1>0. CASE UNCHANGED down
  BY <1>0
<1>1. CASE UNCHANGED vars \/ \E d \in Devices : EditLocally(d)
  BY <1>0, <1>1 DEF vars, EditLocally
<1>2. CASE AdminStep \/ ProcessStep
  BY <1>0, <1>2 DEF AdminStep, Enqueue, Resolve, Revoke, ProcessStep, Crash, Restart,
                    Serve, Reap, Recover, LeaseExpires
<1>3. ASSUME NEW s \in Sessions, ServeStep(s)
      PROVE  New
  <2>1. CASE Dismiss(s)
    BY <2>1, DismissFrames
  <2>2. CASE Inspect(s)
    <3>1. target[s] \in Ops
      BY <2>2 DEF Inspect, AtHand
    <3>2. Task("inspect_only", target[s]) \in Delivery
      BY <3>1 DEF Task, Delivery
    <3>3. UNCHANGED down \/ Send(s, Task("inspect_only", target[s]))
      BY <2>2 DEF Inspect
    <3>. QED  BY <1>0, <3>1, <3>2, <3>3, SendFrames
  <2>3. CASE Claim(s) /\ ~UNCHANGED down
    <3>1. PICK o \in Ops : /\ Claimable(ops, peer[s], o)
                           /\ ops' = ClaimNextIn(ops, o, s)
                           /\ Send(s, Task("execute", o))
      BY <2>3 DEF Claim, ClaimOldest
    <3>2. Task("execute", o) \in Delivery
      BY DEF Task, Delivery
    <3>3. ops'[o].state = "running"
      BY <3>1 DEF ClaimNextIn, TypeOK, OperationRow
    <3>. QED  BY <3>1, <3>2, <3>3, SendFrames
  <2>. QED  BY <1>0, <1>3, <2>1, <2>2, <2>3
            DEF ServeStep, Receive, HandleHeartbeat, HandleResult, RefuseResult, Tick,
                FindUncertain, Abandon, Clear
<1>4. ASSUME NEW s \in Sessions, ConnectionStep(s)
      PROVE  New
  <2>1. ASSUME NEW d \in Devices, Connect(s, d)
        PROVE  New
    <3>1. down'[t] = down[t] \/ down'[t] = <<>>
      BY <2>1 DEF Connect, TypeOK
    <3>. QED  BY <3>1, EmptyFrames
  <2>. QED  BY <1>0, <1>4, <2>1 DEF ConnectionStep, Hello, TimeOut, Disconnect
<1>5. ASSUME NEW s \in Sessions, ClientStep(s)
      PROVE  New
  BY <1>0, <1>5, TakenFrames
  DEF ClientStep, ClientExecute, ClientInspect, ClientRepeat, ClientHeartbeat
<1>. QED  BY <1>1, <1>2, <1>3, <1>4, <1>5 DEF Next

\* What is said: nothing new, a heartbeat, the journal's report, or an answer on an
\* operation that the Client was asked about.
LEMMA SaidSteps ==
  ASSUME TypeInv, [Next]_vars, NEW t \in Sessions, NEW m \in Frames(up'[t])
  PROVE  \/ m \in Frames(up[t])
         \/ m.type = "heartbeat"
         \/ m.op \in Ops /\ m.report \in journal'[m.op]
         \/ \E s \in Sessions : \E d \in Frames(down[s]) :
               d.type = "inspect_only" /\ m.op = d.op
<1> DEFINE New == \/ m \in Frames(up[t])
                  \/ m.type = "heartbeat"
                  \/ m.op \in Ops /\ m.report \in journal'[m.op]
                  \/ \E s \in Sessions : \E d \in Frames(down[s]) :
                        d.type = "inspect_only" /\ m.op = d.op
<1>. USE DEF TypeInv
<1>0. CASE UNCHANGED up
  BY <1>0
<1>1. CASE UNCHANGED vars \/ \E d \in Devices : EditLocally(d)
  BY <1>0, <1>1 DEF vars, EditLocally
<1>2. CASE AdminStep
  BY <1>0, <1>2 DEF AdminStep, Enqueue, Resolve, Revoke
<1>3. CASE ProcessStep
  <2>1. CASE Crash
    BY <2>1, EmptyFrames DEF Crash
  <2>. QED  BY <1>0, <1>3, <2>1
            DEF ProcessStep, Restart, Serve, Reap, Recover, LeaseExpires
<1>4. ASSUME NEW s \in Sessions, Leave(s)
      PROVE  New
  <2>1. up'[t] = up[t] \/ up'[t] = <<>>
    BY <1>4 DEF Leave, TypeOK
  <2>. QED  BY <2>1, EmptyFrames
<1>5. ASSUME NEW s \in Sessions, HandleHeartbeat(s) \/ HandleResult(s)
      PROVE  New
  <2>1. up[s] # <<>> /\ up[s] \in Seq(Message)
    BY <1>5 DEF AtHand, HandleHeartbeat, HandleResult, TypeOK
  <2>2. up'[t] = up[t] \/ (t = s /\ up'[t] = Tail(up[s]))
    BY <1>5 DEF HandleHeartbeat, HandleResult, TypeOK
  <2>. QED  BY <2>1, <2>2, FramesOfTail
<1>6. ASSUME NEW s \in Sessions, ServeStep(s)
      PROVE  New
  BY <1>0, <1>4, <1>5, <1>6
  DEF ServeStep, Receive, RefuseResult, Tick, Dismiss, FindUncertain, Inspect, Claim,
      ClaimOldest, Abandon, Clear
<1>7. ASSUME NEW s \in Sessions, ConnectionStep(s)
      PROVE  New
  BY <1>0, <1>4, <1>7 DEF ConnectionStep, Connect, Hello, TimeOut, Disconnect
<1>8. ASSUME NEW s \in Sessions, ClientExecute(s)
      PROVE  New
  <2> DEFINE o == Head(down[s]).op
  <2>1. PICK x \in Execution(peer[s], o) :
          /\ journal' = [journal EXCEPT ![o] = {x.report}]
          /\ Reply(s, ResultOf(o, x.report))
    BY <1>8 DEF ClientExecute
  <2>2. o \in Ops
    BY <1>8 DEF ClientExecute, TypeOK, Delivery, RevokedNotice
  <2>3. journal'[o] = {x.report}
    BY <2>1, <2>2 DEF TypeOK
  <2>4. x.report \in Report
    <3>1. TypeOK'
      BY TypeStep
    <3>. QED  BY <2>2, <2>3, <3>1 DEF TypeOK
  <2>5. ResultOf(o, x.report) \in Message
    BY <2>2, <2>4, MessageType
  <2>. QED  BY <2>1, <2>2, <2>3, <2>5, ReplyFrames DEF ResultOf
<1>9. ASSUME NEW s \in Sessions, ClientInspect(s)
      PROVE  New
  <2> DEFINE o == Head(down[s]).op
  <2>1. PICK r \in Recollection(peer[s], o) : Reply(s, ResultOf(o, r))
    BY <1>9 DEF ClientInspect
  <2>2. /\ down[s] # <<>> /\ down[s] \in Seq(Delivery)
        /\ Head(down[s]).type = "inspect_only"
    BY <1>9 DEF ClientInspect, TypeOK
  <2>3. Head(down[s]) \in Frames(down[s])
    BY <2>2 DEF Frames
  <2>4. up'[t] = up[t] \/ up'[t] = Append(up[t], ResultOf(o, r))
    BY <2>1 DEF Reply, TypeOK
  <2>5. m \in Frames(up[t]) \/ m = ResultOf(o, r)
    <3> DEFINE a == ResultOf(o, r)
    <3>1. up[t] \in Seq(Message \cup {a}) /\ a \in Message \cup {a}
      BY DEF TypeOK
    <3> HIDE DEF a
    <3>2. Frames(Append(up[t], a)) \subseteq Frames(up[t]) \cup {a}
      BY <3>1, FramesOfAppend
    <3>. QED  BY <2>4, <3>2 DEF a
  <2>. QED  BY <2>2, <2>3, <2>5 DEF ResultOf
<1>10. ASSUME NEW s \in Sessions, ClientRepeat(s)
       PROVE  New
  <2>1. PICK o \in Ops : \E r \in journal[o] : Reply(s, ResultOf(o, r))
    BY <1>10 DEF ClientRepeat
  <2>2. PICK r \in journal[o] : Reply(s, ResultOf(o, r))
    BY <2>1
  <2>3. ResultOf(o, r) \in Message
    BY MessageType DEF TypeOK
  <2>. QED  BY <1>10, <2>2, <2>3, ReplyFrames DEF ResultOf, ClientRepeat, clientVars
<1>11. ASSUME NEW s \in Sessions, ClientHeartbeat(s)
       PROVE  New
  <2>1. PICK r \in 1 .. revision[peer[s]] : Reply(s, Heartbeat(r))
    BY <1>11 DEF ClientHeartbeat
  <2>2. Heartbeat(r) \in Message
    BY MessageType DEF Revisions
  <2>. QED  BY <2>1, <2>2, ReplyFrames DEF Heartbeat
<1>. QED  BY <1>1, <1>2, <1>3, <1>6, <1>7, <1>8, <1>9, <1>10, <1>11 DEF Next, ClientStep

------------------------------------------------------------------------------
(* What is in flight stays true.                                            *)

LEMMA TruthInit == Init => TruthInv
  BY ClaimInit, EmptyFrames
  DEF Init, Vacant, TruthInv, Told, Said, Journalled, OutcomeIsTrue

LEMMA JournalledStep ==
  ASSUME TruthInv, [Next]_vars
  PROVE  Journalled'
<1>. SUFFICES ASSUME NEW o \in Ops, NEW r \in journal'[o]
              PROVE  /\ ops'[o].state \notin Untaken
                     /\ r.kind \in {Confirmation(ops'[o].command), "unknown"} \cup Refusals
  BY DEF Journalled
<1>0. TypeInv /\ TypeOK
  BY DEF TruthInv, ClaimInv, TypeInv
<1>1. CASE r \in journal[o]
  BY <1>0, <1>1, Forward, CommandKept DEF TruthInv, Journalled
<1>2. ASSUME NEW s \in Sessions, ClientExecute(s), r \notin journal[o]
      PROVE  /\ ops[o].state \notin Untaken
             /\ r.kind \in {Confirmation(ops[o].command), "unknown"} \cup Refusals
  <2>1. down[s] # <<>> /\ down[s] \in Seq(Delivery) /\ Head(down[s]).type = "execute"
    BY <1>0, <1>2 DEF ClientExecute, TypeOK
  <2>2. Head(down[s]) \in Frames(down[s])
    BY <2>1 DEF Frames
  <2>3. PICK x \in Execution(peer[s], Head(down[s]).op) :
          journal' = [journal EXCEPT ![Head(down[s]).op] = {x.report}]
    BY <1>2 DEF ClientExecute
  <2>4. Head(down[s]).op = o /\ r = x.report
    BY <1>0, <1>2, <2>3 DEF TypeOK
  <2>5. ops[o].state \notin Untaken
    BY <2>1, <2>2, <2>4 DEF TruthInv, Told, ToldOk
  <2>6. x.report.kind \in {Confirmation(ops[o].command), "unknown"} \cup Refusals
    BY <2>4 DEF Execution
  <2>. QED  BY <2>4, <2>5, <2>6
<1>3. ASSUME NEW s \in Sessions, ClientExecute(s)
      PROVE  UNCHANGED ops
  BY <1>3 DEF ClientExecute, tableVars
<1>. QED  BY <1>0, <1>1, <1>2, <1>3, JournalSteps

LEMMA TruthStep == TruthInv /\ [Next]_vars => TruthInv'
<1>. SUFFICES ASSUME TruthInv, [Next]_vars
              PROVE  TruthInv'
  OBVIOUS
<1>0. TypeInv /\ TypeOK /\ ClaimInv'
  BY ClaimStep DEF TruthInv, ClaimInv, TypeInv
<1>1. \A o \in Ops : ops[o].state \in Past => ops'[o].state \in Past
  BY <1>0, Forward DEF Past, Settled, Untaken
<1>2. Told'
  <2>. SUFFICES ASSUME NEW t \in Sessions, NEW m \in Frames(down'[t])
                PROVE  ToldOk(m)'
    BY DEF Told
  <2>1. CASE m \in Frames(down[t])
    BY <1>0, <1>1, <2>1, Forward DEF TruthInv, Told, ToldOk
  <2>2. CASE m = RevokedNotice
    BY <2>2 DEF RevokedNotice, ToldOk
  <2>3. ASSUME NEW s \in Sessions, target[s] \in Ops, m = Task("inspect_only", target[s])
        PROVE  ToldOk(m)'
    <3>1. ops[target[s]].state \in Past
      BY <2>3 DEF TruthInv, ClaimInv, TargetIsPast, Ops
    <3>. QED  BY <1>1, <2>3, <3>1 DEF Task, ToldOk
  <2>4. ASSUME NEW o \in Ops, m = Task("execute", o), ops'[o].state = "running"
        PROVE  ToldOk(m)'
    BY <2>4 DEF Task, ToldOk, Untaken
  <2>. QED  BY <1>0, <2>1, <2>2, <2>3, <2>4, ToldSteps
<1>3. Said'
  <2>. SUFFICES ASSUME NEW t \in Sessions, NEW m \in Frames(up'[t]), m.type = "result"
                PROVE  /\ m.op \in Ops
                       /\ ops'[m.op].state \in Past \/ m.report \in journal'[m.op]
    BY DEF Said, SaidOk
  <2>1. CASE m \in Frames(up[t])
    BY <1>0, <1>1, <2>1, JournalStays DEF TruthInv, Said, SaidOk, JournalKept
  <2>2. ASSUME NEW s \in Sessions, NEW d \in Frames(down[s]),
               d.type = "inspect_only", m.op = d.op
        PROVE  m.op \in Ops /\ ops'[m.op].state \in Past
    BY <1>1, <2>2 DEF TruthInv, Told, ToldOk
  <2>. QED  BY <1>0, <2>1, <2>2, SaidSteps
<1>4. Journalled'
  BY JournalledStep
<1>5. OutcomeIsTrue'
  <2>. SUFFICES ASSUME NEW o \in Ops
                PROVE  /\ ops'[o].state = "succeeded" =>
                             \E r \in journal'[o] : r.kind = Confirmation(ops'[o].command)
                       /\ ops'[o].state = "failed" =>
                             \E r \in journal'[o] : r.kind \in Refusals
    BY DEF OutcomeIsTrue
  <2>1. CASE ops'[o].state = ops[o].state
    <3>1. ops[o].state \in {"succeeded", "failed"} => ops'[o].command = ops[o].command
      BY <1>0, CommandKept DEF Untaken
    <3>. QED  BY <1>0, <2>1, <3>1, JournalStays DEF TruthInv, OutcomeIsTrue, JournalKept
  <2>2. CASE /\ ops'[o].state # ops[o].state
             /\ ops'[o].state \in {"succeeded", "failed"}
    <3>1. PICK s \in Sessions : \E c \in pending[s] :
            /\ c.op = o /\ ops[o].state = "running"
            /\ up[s] # <<>> /\ Head(up[s]).type = "result"
            /\ Head(up[s]).op = o
            /\ Completable(s, c, Head(up[s]).report)
            /\ ops'[o].state = Outcome(Head(up[s]).report)
      BY <1>0, <2>2, OutcomeSteps
    <3> DEFINE r == Head(up[s]).report
    <3>2. /\ ops[o].state = "running" /\ ops'[o].state = Outcome(r)
          /\ ValidReport(ops[o].command, r)
      BY <3>1 DEF Completable
    <3>3. Head(up[s]) \in Frames(up[s])
      BY <1>0, <3>1 DEF Frames, TypeOK
    <3>4. r \in journal[o]
      BY <3>1, <3>2, <3>3 DEF TruthInv, Said, SaidOk, Past, Settled
    <3>5. r \in journal'[o]
      BY <1>0, <3>4, JournalStays DEF JournalKept
    <3>6. ops'[o].command = ops[o].command
      BY <1>0, <3>2, CommandKept DEF Untaken
    <3>7. r.kind \in {Confirmation(ops[o].command), "unknown"} \cup Refusals
      BY <3>4 DEF TruthInv, Journalled
    <3>8. Confirmation(ops[o].command) \in Confirmations
      BY DEF Confirmation, Confirmations
    <3>9. CASE r.kind \in Confirmations
      BY <3>2, <3>5, <3>6, <3>9 DEF ValidReport, Outcome
    <3>10. CASE r.kind \notin Confirmations
      <4>1. ops'[o].state = "failed" /\ r.kind # "unknown"
        BY <2>2, <3>2, <3>10 DEF Outcome
      <4>. QED  BY <3>5, <3>7, <3>8, <3>10, <4>1
    <3>. QED  BY <3>9, <3>10
  <2>. QED  BY <2>1, <2>2
<1>. QED  BY <1>0, <1>2, <1>3, <1>4, <1>5 DEF TruthInv

\* succeeded and failed are the device's own: its journal, which an answer to an
\* inspection or a report on another operation cannot stand in for.
THEOREM OutcomesAreTrue == Spec => []OutcomeIsTrue
<1>1. TruthInv => OutcomeIsTrue
  BY DEF TruthInv
<1>. QED  BY <1>1, TruthInit, TruthStep, PTL DEF Spec

------------------------------------------------------------------------------
(* PART 3.  The table implements OperationLifecycle.                        *)

\* How the state of a row may change.
Arrow(a, b) ==
    \/ a = "absent"  /\ b = "pending"
    \/ a = "pending" /\ b = "running"
    \/ a = "running" /\ b \in {"unknown", "succeeded", "failed"}
    \/ a = "unknown" /\ b \in {"resolved", "dead_letter"}
    \/ a = "dead_letter" /\ b = "resolved"

Same(p) == ops'[p].state = ops[p].state /\ ops'[p].device = ops[p].device

\* Row o, and no other, changes state; only a new row gets a device.
Moves(o) ==
    /\ \A p \in Ops \ {o} : Same(p)
    /\ Arrow(ops[o].state, ops'[o].state)
    /\ ops[o].state # "absent" => ops'[o].device = ops[o].device
    /\ ops'[o].device \in Devices
    /\ ops[o].state = "pending" =>
          \A p \in Ops : ops[p].device = ops[o].device =>
              /\ ops[p].state \notin Active
              /\ p < o => ops[p].state # "pending"

\* A row that exists has a device, one that does not has none.
Placed == \A o \in Ops : ops[o].device \in Devices <=> ops[o].state # "absent"

LineInv == QueueInv /\ Placed

LEMMA TransitionRow ==
  ASSUME LineInv, NEW o \in Ops, NEW st, ops' = ApplyTransition(ops, o, st),
         Arrow(ops[o].state, st), ops[o].state \notin Untaken
  PROVE  Moves(o)
<1>1. ops'[o].state = st /\ ops'[o].device = ops[o].device
  BY DEF LineInv, QueueInv, TypeInv, TypeOK, ApplyTransition, Settle
<1>2. \A p \in Ops \ {o} : ops'[p] = ops[p]
  BY DEF LineInv, QueueInv, TypeInv, TypeOK, ApplyTransition
<1>. QED  BY <1>1, <1>2 DEF Moves, Same, LineInv, Placed, Untaken

\* A recovery finds one running row of its device, the one that its guard found.
LEMMA RecoveryRow ==
  ASSUME LineInv, NEW d \in Devices, NEW o \in Ops,
         ops[o].device = d, ops[o].state = "running",
         \/ ops' = RecoverRunning(ops, d)
         \/ ops' = RecoverExpired(ops, d) /\ ops[o].expired
  PROVE  Moves(o)
<1>0. ops \in [Ops -> OperationRow] /\ OneActive
  BY OneActiveHolds DEF LineInv, QueueInv, TypeInv, TypeOK
<1>1. ops'[o] = Settle(ops[o], "unknown")
  BY <1>0 DEF RecoverRunning, RecoverExpired
<1>2. ASSUME NEW p \in Ops \ {o}
      PROVE  ops'[p] = ops[p]
  <2>1. ~(ops[p].device = d /\ ops[p].state = "running")
    BY <1>0 DEF OneActive, SameDevice, Active
  <2>. QED  BY <1>0, <2>1 DEF RecoverRunning, RecoverExpired
<1>. QED  BY <1>1, <1>2 DEF Moves, Same, Arrow, Settle

LEMMA RowSteps ==
  ASSUME LineInv, [Next]_vars
  PROVE  (\A p \in Ops : Same(p)) \/ \E o \in Ops : Moves(o)
<1> DEFINE Goal == (\A p \in Ops : Same(p)) \/ \E o \in Ops : Moves(o)
<1>0. TypeInv /\ TypeOK
  BY DEF LineInv, QueueInv, TypeInv
<1>1. CASE UNCHANGED ops
  BY <1>1 DEF Same
<1>2. ASSUME NEW d \in Devices, NEW c \in Commands, Enqueue(d, c)
      PROVE  Goal
  <2>1. PICK o \in Ops : IsNext(ops, o) /\ ops' = EnqueueIn(ops, o, d, c)
    BY <1>2 DEF Enqueue
  <2>2. /\ ops[o].state = "absent" /\ ops'[o].state = "pending" /\ ops'[o].device = d
        /\ \A p \in Ops \ {o} : ops'[p] = ops[p]
    BY <1>0, <2>1 DEF IsNext, Exists, EnqueueIn, TypeOK
  <2>3. Moves(o)
    BY <2>2 DEF Moves, Same, Arrow
  <2>. QED  BY <2>3
<1>3. ASSUME NEW o \in Ops, NEW r \in Verdicts, Resolve(o, r)
      PROVE  Goal
  <2>1. PICK st \in {"dead_letter", "resolved"} :
          /\ ops' = ApplyTransition(ops, o, st)
          /\ r = "unable_to_confirm" <=> st = "dead_letter"
    BY <1>3 DEF Resolve, ResolveIn
  <2>2. Arrow(ops[o].state, st) /\ ops[o].state \notin Untaken
    BY <1>3, <2>1 DEF Resolve, Resolvable, Arrow, Untaken
  <2>. QED  BY <2>1, <2>2, TransitionRow
<1>4. ASSUME NEW d \in Devices, Reap(d) \/ Recover(d)
      PROVE  Goal
  BY <1>4, RecoveryRow DEF Reap, Recover
<1>5. ASSUME NEW o \in Ops, LeaseExpires(o)
      PROVE  Goal
  BY <1>0, <1>5 DEF LeaseExpires, LeaseRunsOut, TypeOK, OperationRow, Same
<1>6. ASSUME NEW s \in Sessions, HandleResult(s)
      PROVE  Goal
  <2> DEFINE r == Head(up[s]).report
  <2>1. PICK c \in pending[s] :
          c.op \in Ops /\ Completable(s, c, r) /\ Complete(c, r)
    BY <1>0, <1>6, AcceptedResult
  <2>2. CASE c.state = "unknown"
    BY <1>1, <2>1, <2>2 DEF Complete
  <2>3. CASE c.state # "unknown"
    <3>1. ops' = ApplyTransition(ops, c.op, Outcome(r)) /\ ops[c.op].state = "running"
      BY <2>1, <2>3 DEF Complete, Completable, OwnedBy
    <3>2. Outcome(r) \in {"unknown", "succeeded", "failed"}
      BY DEF Outcome
    <3>. QED  BY <2>1, <3>1, <3>2, TransitionRow DEF Arrow, Untaken
  <2>. QED  BY <2>2, <2>3
<1>7. ASSUME NEW s \in Sessions, Claim(s), ~UNCHANGED ops
      PROVE  Goal
  <2>1. PICK o \in Ops : Claimable(ops, peer[s], o) /\ ops' = ClaimNextIn(ops, o, s)
    BY <1>7 DEF Claim, ClaimOldest
  <2>2. /\ ops'[o].state = "running" /\ ops'[o].device = ops[o].device
        /\ \A p \in Ops \ {o} : ops'[p] = ops[p]
    BY <1>0, <2>1 DEF ClaimNextIn, TypeOK, OperationRow
  <2>3. ops[o].state = "pending" /\ ops[o].device = peer[s]
    BY <2>1 DEF Claimable
  <2>4. \A p \in Ops : ops[p].device = ops[o].device =>
           ops[p].state \notin Active /\ (p < o => ops[p].state # "pending")
    BY <1>0, <2>1, <2>3 DEF Claimable, TypeOK
  <2>5. ops[o].device \in Devices
    BY <2>3 DEF LineInv, Placed
  <2>6. Moves(o)
    BY <2>2, <2>3, <2>4, <2>5 DEF Moves, Same, Arrow
  <2>. QED  BY <2>6
<1>8. ASSUME NEW s \in Sessions, Abandon(s), ~UNCHANGED ops
      PROVE  Goal
  <2>1. PICK c \in pending[s] : /\ HeldBy(ops, c.op, c.owner)
                                /\ ops' = ApplyTransition(ops, c.op, "unknown")
    BY <1>8 DEF Abandon
  <2>2. c.op \in Ops
    BY <1>0, <2>1 DEF TypeOK, Capture
  <2>. QED  BY <2>1, <2>2, TransitionRow DEF HeldBy, Arrow, Untaken
<1>9. CASE AdminStep
  BY <1>1, <1>2, <1>3, <1>9 DEF AdminStep, Revoke
<1>10. CASE ProcessStep
  BY <1>1, <1>4, <1>5, <1>10 DEF ProcessStep, Crash, Restart, Serve, tableVars
<1>11. ASSUME NEW s \in Sessions, ServeStep(s)
       PROVE  Goal
  BY <1>1, <1>6, <1>7, <1>8, <1>11
  DEF ServeStep, Receive, HandleHeartbeat, RefuseResult, Tick, FindUncertain, Inspect,
      Clear, tableVars
<1>12. ASSUME NEW s \in Sessions, ConnectionStep(s) \/ ClientStep(s)
       PROVE  Goal
  BY <1>1, <1>12
  DEF ConnectionStep, Connect, Hello, TimeOut, Disconnect, ClientStep, ClientExecute,
      ClientInspect, ClientRepeat, ClientHeartbeat, tableVars
<1>13. CASE UNCHANGED vars \/ \E d \in Devices : EditLocally(d)
  BY <1>1, <1>13 DEF vars, EditLocally, tableVars
<1>. QED  BY <1>9, <1>10, <1>11, <1>12, <1>13 DEF Next

LEMMA LineStep == LineInv /\ [Next]_vars => LineInv'
<1>. SUFFICES ASSUME LineInv, [Next]_vars
              PROVE  LineInv'
  OBVIOUS
<1>1. Placed'
  BY RowSteps DEF LineInv, Placed, Moves, Same, Arrow
<1>. QED  BY <1>1, QueueStep DEF LineInv

LEMMA LineInit == Init => LineInv
  BY QueueInit, ChannelAssumption DEF Init, Vacant, LineInv, Placed

------------------------------------------------------------------------------
(* The mapped variables.                                                    *)

Waiting  == [d \in Devices |-> InState(d, {"pending"})]
Busy     == [d \in Devices |-> InState(d, Active)]
Doubtful == {o \in Ops : ops[o].state = "unknown"}
Results  ==
    [o \in Ops |-> CASE ops[o].state = "dead_letter" -> "sealed"
                     [] ops[o].state \in Final       -> ops[o].state
                     [] OTHER                        -> "none"]

\* The same of one state.
Result(st) == CASE st = "dead_letter" -> "sealed"
                [] st \in Final       -> st
                [] OTHER              -> "none"

LEMMA ResultsBy ==
  /\ Results = [o \in Ops |-> Result(ops[o].state)]
  /\ Results' = [o \in Ops |-> Result(ops'[o].state)]
  BY DEF Results, Result

LEMMA MappedInit == Init => Lifecycle!Init
<1>. SUFFICES ASSUME Init
              PROVE  Lifecycle!Init
  OBVIOUS
<1>1. \A o \in Ops : ops[o].state = "absent"
  BY DEF Init, Vacant
<1>2. \A d \in Devices : InState(d, {"pending"}) = {} /\ InState(d, Active) = {}
  BY <1>1 DEF InState, Active
<1>3. Doubtful = {}
  BY <1>1 DEF Doubtful
<1>4. Results = [o \in Ops |-> "none"]
  BY <1>1 DEF Results, Final
<1>. QED  BY <1>2, <1>3, <1>4 DEF Lifecycle!Init, Doubtful, Results

\* Where rows keep state and device, the four are what they were.
LEMMA MappedStutter ==
  ASSUME \A p \in Ops : Same(p)
  PROVE  UNCHANGED <<Waiting, Busy, Doubtful, Results>>
<1>1. \A d \in Devices : InState(d, {"pending"})' = InState(d, {"pending"})
  BY DEF InState, Same
<1>2. \A d \in Devices : InState(d, Active)' = InState(d, Active)
  BY DEF InState, Same
<1>3. Doubtful' = Doubtful
  BY DEF Doubtful, Same
<1>4. Results' = Results
  BY DEF Results, Same
<1>. QED  BY <1>1, <1>2, <1>3, <1>4 DEF Waiting, Busy

\* Where only o moves, it leaves or enters the sets of its own device.
LEMMA MappedRow ==
  ASSUME LineInv, NEW o \in Ops, Moves(o), NEW d \in Devices, ops'[o].device = d
  PROVE  /\ \A e \in Devices : e # d =>
               /\ InState(e, {"pending"})' = InState(e, {"pending"})
               /\ InState(e, Active)' = InState(e, Active)
         /\ InState(d, {"pending"})' =
               IF ops'[o].state = "pending" THEN InState(d, {"pending"}) \cup {o}
                                            ELSE InState(d, {"pending"}) \ {o}
         /\ InState(d, Active)' =
               IF ops'[o].state \in Active THEN InState(d, Active) \cup {o}
                                           ELSE InState(d, Active) \ {o}
         /\ Doubtful' = IF ops'[o].state = "unknown" THEN Doubtful \cup {o}
                                                     ELSE Doubtful \ {o}
         /\ Results' = [Results EXCEPT ![o] = Result(ops'[o].state)]
<1>0. /\ \A p \in Ops : p # o => Same(p)
      /\ ops[o].state # "absent" => ops[o].device = d
      /\ ops[o].state = "absent" => ops[o].device \notin Devices
  BY DEF Moves, LineInv, Placed
<1>1. ASSUME NEW e \in Devices, e # d
      PROVE  /\ InState(e, {"pending"})' = InState(e, {"pending"})
             /\ InState(e, Active)' = InState(e, Active)
  BY <1>0, <1>1 DEF InState, Same
<1>2. InState(d, {"pending"})' =
         IF ops'[o].state = "pending" THEN InState(d, {"pending"}) \cup {o}
                                      ELSE InState(d, {"pending"}) \ {o}
  BY <1>0 DEF InState, Same
<1>3. InState(d, Active)' =
         IF ops'[o].state \in Active THEN InState(d, Active) \cup {o}
                                     ELSE InState(d, Active) \ {o}
  BY <1>0 DEF InState, Same
<1>4. Doubtful' = IF ops'[o].state = "unknown" THEN Doubtful \cup {o}
                                               ELSE Doubtful \ {o}
  BY <1>0 DEF Doubtful, Same
<1>5. Results' = [Results EXCEPT ![o] = Result(ops'[o].state)]
  <2>1. \A p \in Ops : p # o => Result(ops'[p].state) = Result(ops[p].state)
    BY <1>0 DEF Same
  <2>2. Results' = [p \in Ops |-> Result(ops'[p].state)]
    BY ResultsBy
  <2>. QED  BY <2>1, <2>2, ResultsBy
<1>. QED  BY <1>1, <1>2, <1>3, <1>4, <1>5

\* A device is busy with one operation at most.
LEMMA BusyWithOne ==
  ASSUME LineInv, NEW o \in Ops, NEW d \in Devices, o \in InState(d, Active)
  PROVE  InState(d, Active) = {o}
  BY OneActiveHolds DEF LineInv, InState, OneActive, SameDevice

\* The actions of the abstract queue, of the mapped variables.
LEMMA AsSubmit ==
  ASSUME NEW d \in Devices, NEW o \in Ops, Results[o] = "none",
         \A e \in Devices : o \notin Waiting[e] \cup Busy[e],
         Waiting' = [Waiting EXCEPT ![d] = @ \cup {o}],
         UNCHANGED <<Busy, Doubtful, Results>>
  PROVE  Lifecycle!Submit(d, o)
<1>1. Lifecycle!Fresh(o)
  BY DEF Lifecycle!Fresh, Waiting, Busy, Results
<1>. QED  BY <1>1 DEF Lifecycle!Submit, Waiting, Busy, Doubtful, Results

LEMMA AsStart ==
  ASSUME NEW d \in Devices, NEW o \in Ops, Busy[d] = {}, o \in Waiting[d],
         \A p \in Waiting[d] : o <= p,
         Busy' = [Busy EXCEPT ![d] = {o}],
         Waiting' = [Waiting EXCEPT ![d] = @ \ {o}],
         UNCHANGED <<Doubtful, Results>>
  PROVE  Lifecycle!Start(d, o)
  BY DEF Lifecycle!Start, Waiting, Busy, Doubtful, Results

LEMMA AsDoubt ==
  ASSUME NEW d \in Devices, NEW o \in Ops, o \in Busy[d] \ Doubtful,
         Doubtful' = Doubtful \cup {o}, UNCHANGED <<Waiting, Busy, Results>>
  PROVE  Lifecycle!Doubt(d, o)
  BY DEF Lifecycle!Doubt, Waiting, Busy, Doubtful, Results

LEMMA AsAnswer ==
  ASSUME NEW d \in Devices, NEW o \in Ops, o \in Busy[d] \ Doubtful,
         NEW v \in {"succeeded", "failed"}, Results' = [Results EXCEPT ![o] = v],
         Busy' = [Busy EXCEPT ![d] = {}], UNCHANGED <<Waiting, Doubtful>>
  PROVE  Lifecycle!Answer(d, o)
  BY DEF Lifecycle!Answer, Waiting, Busy, Doubtful, Results

LEMMA AsDecide ==
  ASSUME NEW d \in Devices, NEW o \in Ops, o \in Busy[d] \cap Doubtful,
         NEW v \in {"resolved", "sealed"}, Results' = [Results EXCEPT ![o] = v],
         Busy' = [Busy EXCEPT ![d] = {}], Doubtful' = Doubtful \ {o}, UNCHANGED Waiting
  PROVE  Lifecycle!Decide(d, o)
  BY DEF Lifecycle!Decide, Waiting, Busy, Doubtful, Results

LEMMA AsConfirm ==
  ASSUME NEW o \in Ops, Results[o] = "sealed", Results' = [Results EXCEPT ![o] = "resolved"],
         UNCHANGED <<Waiting, Busy, Doubtful>>
  PROVE  Lifecycle!Confirm(o)
  BY DEF Lifecycle!Confirm, Waiting, Busy, Doubtful, Results

\* A row that moves is a step of the abstract queue.
LEMMA LifecycleMoves ==
  ASSUME LineInv, NEW o \in Ops, Moves(o)
  PROVE  Lifecycle!Next
<1>0. PICK d \in Devices : d = ops'[o].device
  BY DEF Moves
<1>1. /\ Waiting' = [Waiting EXCEPT ![d] = IF ops'[o].state = "pending" THEN @ \cup {o}
                                                                      ELSE @ \ {o}]
      /\ Busy' = [Busy EXCEPT ![d] = IF ops'[o].state \in Active THEN @ \cup {o}
                                                                ELSE @ \ {o}]
  BY <1>0, MappedRow DEF Waiting, Busy
<1>2. /\ Doubtful' = IF ops'[o].state = "unknown" THEN Doubtful \cup {o}
                                                  ELSE Doubtful \ {o}
      /\ Results' = [Results EXCEPT ![o] = Result(ops'[o].state)]
      /\ Results[o] = Result(ops[o].state)
  BY <1>0, MappedRow, ResultsBy
<1>3. /\ ops[o].state # "absent" => ops[o].device = d
      /\ ops[o].state = "absent" => ops[o].device \notin Devices
  BY <1>0 DEF Moves, LineInv, Placed
<1>4. \A e \in Devices : \A p \in Ops :
         /\ p \in Waiting[e] <=> ops[p].device = e /\ ops[p].state = "pending"
         /\ p \in Busy[e] <=> ops[p].device = e /\ ops[p].state \in Active
  BY DEF InState, Waiting, Busy
<1>5. Waiting[d] \subseteq Ops /\ Busy[d] \subseteq Ops
  BY DEF InState, Waiting, Busy
<1>6. o \in Doubtful <=> ops[o].state = "unknown"
  BY DEF Doubtful
<1>7. o \in Busy[d] => Busy[d] = {o}
  BY BusyWithOne DEF Busy
<1>8. /\ Waiting = [Waiting EXCEPT ![d] = @] /\ Busy = [Busy EXCEPT ![d] = @]
      /\ Results = [Results EXCEPT ![o] = @]
  <2>1. Waiting = [Waiting EXCEPT ![d] = @] /\ Busy = [Busy EXCEPT ![d] = @]
    BY DEF Waiting, Busy
  <2>2. Results = [Results EXCEPT ![o] = @]
    BY ResultsBy
  <2>. QED  BY <2>1, <2>2
<1>9. Arrow(ops[o].state, ops'[o].state)
  BY DEF Moves
<1>10. CASE ops[o].state = "absent" /\ ops'[o].state = "pending"
  <2>1. Results[o] = "none" /\ \A e \in Devices : o \notin Waiting[e] \cup Busy[e]
    BY <1>2, <1>3, <1>4, <1>10 DEF Result, Final
  <2>2. Waiting' = [Waiting EXCEPT ![d] = @ \cup {o}]
    BY <1>1, <1>10
  <2>3. UNCHANGED Busy
    <3>1. Busy[d] \ {o} = Busy[d]
      BY <2>1
    <3>. QED  BY <1>1, <1>8, <1>10, <3>1 DEF Active
  <2>4. UNCHANGED <<Doubtful, Results>>
    BY <1>2, <1>6, <1>8, <1>10, <2>1 DEF Result, Final
  <2>5. Lifecycle!Submit(d, o)
    BY <2>1, <2>2, <2>3, <2>4, AsSubmit
  <2>. QED  BY <2>5 DEF Lifecycle!Next
<1>11. CASE ops[o].state = "pending" /\ ops'[o].state = "running"
  <2>1. o \in Waiting[d] /\ Busy[d] = {} /\ \A p \in Waiting[d] : o <= p
    BY <1>3, <1>4, <1>5, <1>11 DEF Moves, Ops
  <2>2. /\ Waiting' = [Waiting EXCEPT ![d] = @ \ {o}]
        /\ Busy' = [Busy EXCEPT ![d] = {o}]
    <3>1. Busy[d] \cup {o} = {o}
      BY <2>1
    <3>. QED  BY <1>1, <1>11, <3>1 DEF Active
  <2>3. UNCHANGED <<Doubtful, Results>>
    BY <1>2, <1>6, <1>8, <1>11 DEF Result, Final
  <2>4. Lifecycle!Start(d, o)
    BY <2>1, <2>2, <2>3, AsStart
  <2>. QED  BY <2>4 DEF Lifecycle!Next
<1>12. CASE ops[o].state = "running" /\ ops'[o].state = "unknown"
  <2>1. o \in Busy[d] \ Doubtful /\ o \notin Waiting[d]
    BY <1>3, <1>4, <1>6, <1>12 DEF Active
  <2>2. UNCHANGED <<Waiting, Busy>>
    <3>1. Waiting[d] \ {o} = Waiting[d] /\ Busy[d] \cup {o} = Busy[d]
      BY <2>1
    <3>. QED  BY <1>1, <1>8, <1>12, <3>1 DEF Active
  <2>3. Doubtful' = Doubtful \cup {o} /\ UNCHANGED Results
    BY <1>2, <1>8, <1>12 DEF Result, Final
  <2>4. Lifecycle!Doubt(d, o)
    BY <2>1, <2>2, <2>3, AsDoubt
  <2>. QED  BY <2>4 DEF Lifecycle!Next
<1>13. ASSUME ops[o].state \in Active, ops'[o].state \notin Active \cup {"pending"}
       PROVE  /\ o \in Busy[d] /\ UNCHANGED Waiting /\ Busy' = [Busy EXCEPT ![d] = {}]
              /\ Doubtful' = Doubtful \ {o}
  <2>1. o \in Busy[d] /\ o \notin Waiting[d]
    BY <1>3, <1>4, <1>13 DEF Active
  <2>2. Waiting[d] \ {o} = Waiting[d] /\ Busy[d] \ {o} = {}
    BY <1>7, <2>1
  <2>. QED  BY <1>1, <1>2, <1>8, <1>13, <2>1, <2>2 DEF Active
<1>14. CASE ops[o].state = "running" /\ ops'[o].state \in {"succeeded", "failed"}
  <2>1. Results' = [Results EXCEPT ![o] = ops'[o].state]
    BY <1>2, <1>14 DEF Result, Final
  <2>2. o \notin Doubtful /\ UNCHANGED Doubtful
    BY <1>2, <1>6, <1>14
  <2>3. Lifecycle!Answer(d, o)
    BY <1>13, <1>14, <2>1, <2>2, AsAnswer DEF Active
  <2>. QED  BY <2>3 DEF Lifecycle!Next
<1>15. CASE ops[o].state = "unknown" /\ ops'[o].state \in {"resolved", "dead_letter"}
  <2>1. PICK v \in {"resolved", "sealed"} : Results' = [Results EXCEPT ![o] = v]
    BY <1>2, <1>15 DEF Result, Final
  <2>2. Lifecycle!Decide(d, o)
    BY <1>6, <1>13, <1>15, <2>1, AsDecide DEF Active
  <2>. QED  BY <2>2 DEF Lifecycle!Next
<1>16. CASE ops[o].state = "dead_letter" /\ ops'[o].state = "resolved"
  <2>1. Results[o] = "sealed" /\ Results' = [Results EXCEPT ![o] = "resolved"]
    BY <1>2, <1>16 DEF Result, Final
  <2>2. o \notin Waiting[d] /\ o \notin Busy[d] /\ o \notin Doubtful
    BY <1>4, <1>6, <1>16 DEF Active
  <2>3. UNCHANGED <<Waiting, Busy, Doubtful>>
    <3>1. Waiting[d] \ {o} = Waiting[d] /\ Busy[d] \ {o} = Busy[d]
      BY <2>2
    <3>. QED  BY <1>1, <1>2, <1>8, <1>16, <2>2, <3>1 DEF Active
  <2>4. Lifecycle!Confirm(o)
    BY <2>1, <2>3, AsConfirm
  <2>. QED  BY <2>4 DEF Lifecycle!Next
<1>. QED  BY <1>9, <1>10, <1>11, <1>12, <1>14, <1>15, <1>16 DEF Arrow

\* Whatever sessions, leases, revocations and crashes do, the operations table is a queue
\* per device that is worked off one operation at a time, an uncertain outcome holding
\* it until an administrator decides: every step is one of OperationLifecycle, or none.
THEOREM Implementation == Spec => ImplementsLifecycle
<1>1. LineInv /\ [Next]_vars => [Lifecycle!Next]_(Lifecycle!lifecycleVars)
  <2>1. ASSUME LineInv, [Next]_vars, \A p \in Ops : Same(p)
        PROVE  UNCHANGED Lifecycle!lifecycleVars
    BY <2>1, MappedStutter DEF Lifecycle!lifecycleVars, Waiting, Busy, Doubtful, Results
  <2>. QED  BY <2>1, RowSteps, LifecycleMoves
<1>. QED  BY <1>1, LineInit, LineStep, MappedInit, PTL
          DEF Spec, ImplementsLifecycle, Lifecycle!Spec

------------------------------------------------------------------------------
(* PART 4.  What is recorded of a device.                                   *)

------------------------------------------------------------------------------
(* What a step does to one connection.                                      *)

\* The frames to the Client of t: as they were, dropped, one read, or one more on the
\* connection that the Client uses.
DownMoves(t) ==
    \/ down'[t] \in {down[t], <<>>}
    \/ down[t] # <<>> /\ down'[t] = Tail(down[t])
    \/ /\ phase[t] # "unused" /\ using[peer[t]] = t
       /\ \/ down'[t] = Append(down[t], RevokedNotice)
          \/ /\ target[t] \in Ops
             /\ down'[t] = Append(down[t], Task("inspect_only", target[t]))
          \/ \E o \in Ops : /\ Claimable(ops, peer[t], o)
                            /\ down'[t] = Append(down[t], Task("execute", o))

\* What the Client of t says of the operation of a result.
Answer(t, m) ==
    /\ \/ /\ down[t] # <<>> /\ Head(down[t]).type # "revoked"
          /\ m.op = Head(down[t]).op
       \/ ops[m.op].device = peer[t]
    /\ \/ m.report \in journal'[m.op]
       \/ m.report = [kind |-> "unknown", revision |-> 0]
       \/ \E x \in journal[m.op] :
             /\ m.report = [kind |-> "config_saved", revision |-> x.revision]
             /\ x.revision = revision[peer[t]]

\* The frames from the Client of t, in the same way.
UpMoves(t) ==
    \/ up'[t] \in {up[t], <<>>}
    \/ up[t] # <<>> /\ up'[t] = Tail(up[t])
    \/ /\ phase[t] # "unused" /\ using[peer[t]] = t /\ peer[t] \in Devices
       /\ UNCHANGED <<sessionVars, devices, ops, using>>
       /\ \E m \in Message :
             /\ up'[t] = Append(up[t], m)
             /\ m.type = "heartbeat" => m.revision <= revision[peer[t]]
             /\ m.type = "result" => Answer(t, m)

LEMMA DismissMoves ==
  ASSUME TypeInv, NEW s \in Sessions, Dismiss(s), phase[s] # "unused", NEW t \in Sessions
  PROVE  DownMoves(t)
  BY DEF Dismiss, Send, TypeInv, TypeOK, DownMoves

LEMMA DownSteps ==
  ASSUME TypeInv, [Next]_vars, NEW t \in Sessions
  PROVE  DownMoves(t)
<1>. USE DEF TypeInv
<1>0. CASE UNCHANGED down
  BY <1>0 DEF DownMoves
<1>1. CASE UNCHANGED vars \/ \E d \in Devices : EditLocally(d)
  BY <1>0, <1>1 DEF vars, EditLocally
<1>2. CASE AdminStep \/ ProcessStep
  BY <1>0, <1>2 DEF AdminStep, Enqueue, Resolve, Revoke, ProcessStep, Crash, Restart,
                    Serve, Reap, Recover, LeaseExpires
<1>3. ASSUME NEW s \in Sessions, ServeStep(s)
      PROVE  DownMoves(t)
  <2>1. CASE Receive(s) \/ Tick(s)
    BY <1>0, <2>1, DismissMoves DEF Receive, Tick
  <2>2. CASE Inspect(s)
    <3>1. target[s] \in Ops /\ phase[s] # "unused"
      BY <2>2 DEF Inspect, AtHand
    <3>2. UNCHANGED down \/ Send(s, Task("inspect_only", target[s]))
      BY <2>2 DEF Inspect
    <3>. QED  BY <1>0, <3>1, <3>2 DEF Send, TypeOK, DownMoves
  <2>3. CASE Claim(s) /\ ~UNCHANGED down
    <3>1. PICK o \in Ops : Claimable(ops, peer[s], o) /\ Send(s, Task("execute", o))
      BY <2>3 DEF Claim, ClaimOldest
    <3>2. phase[s] # "unused"
      BY <2>3 DEF Claim
    <3>. QED  BY <3>1, <3>2 DEF Send, TypeOK, DownMoves
  <2>. QED  BY <1>0, <1>3, <2>1, <2>2, <2>3
            DEF ServeStep, HandleHeartbeat, HandleResult, RefuseResult,
                FindUncertain, Abandon, Clear
<1>4. ASSUME NEW s \in Sessions, ConnectionStep(s)
      PROVE  DownMoves(t)
  <2>1. ASSUME NEW d \in Devices, Connect(s, d)
        PROVE  DownMoves(t)
    BY <2>1 DEF Connect, TypeOK, DownMoves
  <2>. QED  BY <1>0, <1>4, <2>1 DEF ConnectionStep, Hello, TimeOut, Disconnect
<1>5. ASSUME NEW s \in Sessions, ClientStep(s)
      PROVE  DownMoves(t)
  <2>1. \/ UNCHANGED down
        \/ down[s] # <<>> /\ down' = [down EXCEPT ![s] = Tail(@)]
    BY <1>5 DEF ClientStep, ClientExecute, ClientInspect, ClientRepeat, ClientHeartbeat
  <2>. QED  BY <1>0, <2>1 DEF TypeOK, DownMoves
<1>. QED  BY <1>1, <1>2, <1>3, <1>4, <1>5 DEF Next

\* A Client's reply of a message is one more frame, or none.
LEMMA ReplyMoves ==
  ASSUME TypeInv, NEW s \in Sessions, NEW m \in Message, Reply(s, m), Using(s),
         UNCHANGED <<sessionVars, devices, ops, using>>,
         m.type = "heartbeat" => m.revision <= revision[peer[s]],
         m.type = "result" => Answer(s, m), NEW t \in Sessions
  PROVE  UpMoves(t)
<1>1. CASE UNCHANGED up
  BY <1>1 DEF UpMoves
<1>2. CASE ~UNCHANGED up
  <2>1. /\ up' = [up EXCEPT ![s] = Append(@, m)]
        /\ phase[s] # "unused"
    BY <1>2 DEF Reply, Open, Serving
  <2>2. peer[s] \in Devices /\ using[peer[s]] = s
    BY DEF Using, TypeInv, TypeOK
  <2>3. CASE t = s
    BY <2>1, <2>2, <2>3 DEF UpMoves, TypeInv, TypeOK
  <2>4. CASE t # s
    BY <2>1, <2>4 DEF UpMoves, TypeInv, TypeOK
  <2>. QED  BY <2>3, <2>4
<1>. QED  BY <1>1, <1>2

LEMMA LeaveMoves ==
  ASSUME TypeInv, NEW s \in Sessions, Leave(s), NEW t \in Sessions
  PROVE  UpMoves(t)
  BY DEF Leave, TypeInv, TypeOK, UpMoves

LEMMA ClientMoves ==
  ASSUME TypeInv, TypeInv', NEW s \in Sessions, ClientStep(s), NEW t \in Sessions
  PROVE  UpMoves(t)
<1>. USE DEF TypeInv
<1>0. Using(s) /\ UNCHANGED <<sessionVars, devices, ops, using>>
  BY DEF ClientStep, ClientExecute, ClientInspect, ClientRepeat, ClientHeartbeat,
         tableVars, clientVars
<1>1. CASE ClientExecute(s)
  <2> DEFINE o == Head(down[s]).op
  <2>1. PICK x \in Execution(peer[s], o) :
          /\ journal' = [journal EXCEPT ![o] = {x.report}]
          /\ Reply(s, ResultOf(o, x.report))
    BY <1>1 DEF ClientExecute
  <2>2. /\ o \in Ops /\ down[s] # <<>> /\ Head(down[s]).type # "revoked"
    BY <1>1 DEF ClientExecute, TypeOK, Delivery, RevokedNotice
  <2>3. x.report \in journal'[o]
    BY <2>1, <2>2 DEF TypeOK
  <2>4. x.report \in Report
    BY <2>2, <2>3 DEF TypeOK
  <2>5. ResultOf(o, x.report) \in Message
    BY <2>2, <2>4, MessageType
  <2>6. Answer(s, ResultOf(o, x.report)) /\ ResultOf(o, x.report).type = "result"
    BY <2>2, <2>3 DEF Answer, ResultOf
  <2>. QED  BY <1>0, <2>1, <2>5, <2>6, ReplyMoves
<1>2. CASE ClientInspect(s)
  <2> DEFINE o == Head(down[s]).op
  <2>1. PICK r \in Recollection(peer[s], o) : Reply(s, ResultOf(o, r))
    BY <1>2 DEF ClientInspect
  <2>2. /\ o \in Ops /\ down[s] # <<>> /\ Head(down[s]).type # "revoked"
        /\ UNCHANGED <<journal, revision>>
    BY <1>2 DEF ClientInspect, TypeOK, Delivery, RevokedNotice, clientVars
  <2>4. \/ r \in journal[o]
        \/ r = [kind |-> "unknown", revision |-> 0]
        \/ \E x \in journal[o] :
              /\ r = [kind |-> "config_saved", revision |-> x.revision]
              /\ x.revision = revision[peer[s]]
    BY <2>1 DEF Recollection
  <2>5. r \in Report
    BY <2>2, <2>4 DEF TypeOK, Report, ReportKinds, Confirmations, Revisions
  <2>6. ResultOf(o, r) \in Message
    BY <2>2, <2>5, MessageType
  <2>7. Answer(s, ResultOf(o, r)) /\ ResultOf(o, r).type = "result"
    BY <2>2, <2>4 DEF Answer, ResultOf
  <2>. QED  BY <1>0, <2>1, <2>6, <2>7, ReplyMoves
<1>3. CASE ClientRepeat(s)
  <2>1. PICK o \in Ops : /\ ops[o].device = peer[s]
                         /\ \E r \in journal[o] : Reply(s, ResultOf(o, r))
    BY <1>3 DEF ClientRepeat
  <2>2. PICK r \in journal[o] : Reply(s, ResultOf(o, r))
    BY <2>1
  <2>3. ResultOf(o, r) \in Message /\ ResultOf(o, r).type = "result"
    BY <2>1, <2>2, MessageType DEF TypeOK, ResultOf
  <2>4. Answer(s, ResultOf(o, r))
    BY <1>3, <2>1, <2>2 DEF Answer, ResultOf, ClientRepeat, clientVars
  <2>. QED  BY <1>0, <2>2, <2>3, <2>4, ReplyMoves
<1>4. CASE ClientHeartbeat(s)
  <2>1. PICK r \in 1 .. revision[peer[s]] : Reply(s, Heartbeat(r))
    BY <1>4 DEF ClientHeartbeat
  <2>2. Heartbeat(r) \in Message
    BY MessageType DEF Revisions
  <2>3. revision[peer[s]] \in Nat
    BY <1>0 DEF Using, TypeOK, Revisions
  <2>4. Heartbeat(r).type = "heartbeat" /\ Heartbeat(r).revision <= revision[peer[s]]
    BY <2>3 DEF Heartbeat
  <2>. QED  BY <1>0, <2>1, <2>2, <2>4, ReplyMoves
<1>. QED  BY <1>1, <1>2, <1>3, <1>4 DEF ClientStep

LEMMA UpSteps ==
  ASSUME TypeInv, [Next]_vars, NEW t \in Sessions
  PROVE  UpMoves(t)
<1>. USE DEF TypeInv
<1>0. CASE UNCHANGED up
  BY <1>0 DEF UpMoves
<1>1. CASE UNCHANGED vars \/ \E d \in Devices : EditLocally(d)
  BY <1>0, <1>1 DEF vars, EditLocally
<1>2. CASE AdminStep
  BY <1>0, <1>2 DEF AdminStep, Enqueue, Resolve, Revoke
<1>3. CASE ProcessStep
  <2>1. CASE Crash
    BY <2>1 DEF Crash, UpMoves
  <2>. QED  BY <1>0, <1>3, <2>1
            DEF ProcessStep, Restart, Serve, Reap, Recover, LeaseExpires
<1>4. ASSUME NEW s \in Sessions, HandleHeartbeat(s) \/ HandleResult(s)
      PROVE  UpMoves(t)
  <2>1. up[s] # <<>> /\ up' = [up EXCEPT ![s] = Tail(@)]
    BY <1>4 DEF AtHand, HandleHeartbeat, HandleResult
  <2>. QED  BY <2>1 DEF TypeOK, UpMoves
<1>5. ASSUME NEW s \in Sessions, ServeStep(s)
      PROVE  UpMoves(t)
  BY <1>0, <1>4, <1>5, LeaveMoves
  DEF ServeStep, Receive, RefuseResult, Tick, Dismiss, FindUncertain, Inspect, Claim,
      ClaimOldest, Abandon, Clear
<1>6. ASSUME NEW s \in Sessions, ConnectionStep(s)
      PROVE  UpMoves(t)
  BY <1>0, <1>6, LeaveMoves DEF ConnectionStep, Connect, Hello, TimeOut, Disconnect
<1>7. ASSUME NEW s \in Sessions, ClientStep(s)
      PROVE  UpMoves(t)
  <2>1. TypeInv'
    BY TypeStep
  <2>. QED  BY <1>7, <2>1, ClientMoves
<1>. QED  BY <1>1, <1>2, <1>3, <1>5, <1>6, <1>7 DEF Next

\* Whom a connection belongs to, and which one a Client uses, is settled by connecting.
LEMMA RouteSteps ==
  ASSUME [Next]_vars
  PROVE  \/ UNCHANGED <<peer, using>>
         \/ \E s \in Sessions, d \in Devices : Connect(s, d)
<1>1. CASE UNCHANGED vars \/ \E d \in Devices : EditLocally(d)
  BY <1>1 DEF vars, EditLocally, sessionVars, clientVars
<1>2. CASE AdminStep \/ ProcessStep
  BY <1>2 DEF AdminStep, Enqueue, Resolve, Revoke, ProcessStep, Crash, Restart, Serve,
              Reap, Recover, LeaseExpires, clientVars, sessionVars
<1>3. ASSUME NEW s \in Sessions, ServeStep(s)
      PROVE  UNCHANGED <<peer, using>>
  BY <1>3 DEF ServeStep, Receive, HandleHeartbeat, HandleResult, RefuseResult, Tick,
              FindUncertain, Inspect, Claim, Abandon, Clear, clientVars
<1>4. ASSUME NEW s \in Sessions, ConnectionStep(s) \/ ClientStep(s)
      PROVE  UNCHANGED <<peer, using>> \/ \E d \in Devices : Connect(s, d)
  BY <1>4 DEF ConnectionStep, Hello, TimeOut, Disconnect, ClientStep, ClientExecute,
              ClientInspect, ClientRepeat, ClientHeartbeat, clientVars, sessionVars
<1>. QED  BY <1>1, <1>2, <1>3, <1>4 DEF Next

------------------------------------------------------------------------------
(* Where connections lead.                                                  *)

\* A device's Client uses a connection of that device ...
LatestIsPeer ==
    \A d \in Devices :
        using[d] # None => peer[using[d]] = d /\ phase[using[d]] # "unused"

\* ... reads no other ...
DownInUse == \A s \in Sessions : down[s] # <<>> => using[peer[s]] = s

UnusedIsSilent ==
    \A s \in Sessions : phase[s] = "unused" => up[s] = <<>> /\ down[s] = <<>>

\* ... and all that a connection carries is of operations of its device.
Addressed ==
    \A s \in Sessions :
        /\ target[s] # 0 => ops[target[s]].device = peer[s]
        /\ \A m \in Frames(down[s]) : m.type # "revoked" => ops[m.op].device = peer[s]
        /\ \A m \in Frames(up[s]) :
              peer[s] \in Devices /\ (m.type = "result" => ops[m.op].device = peer[s])

RouteInv ==
    /\ LineInv
    /\ TruthInv
    /\ LatestIsPeer
    /\ DownInUse
    /\ UnusedIsSilent
    /\ Addressed

LEMMA RouteInit == Init => RouteInv
  BY LineInit, TruthInit, EmptyFrames
  DEF Init, RouteInv, LatestIsPeer, DownInUse, UnusedIsSilent, Addressed

LEMMA RouteTypes ==
  ASSUME RouteInv
  PROVE  /\ TypeInv /\ TypeOK /\ QueueInv /\ ClaimInv
         /\ \A s \in Sessions : up[s] \in Seq(Message) /\ down[s] \in Seq(Delivery)
  BY DEF RouteInv, LineInv, TruthInv, QueueInv, TypeInv, TypeOK

\* A frame that names an operation names one that was taken up.
LEMMA NamedIsTaken ==
  ASSUME RouteInv, NEW s \in Sessions
  PROVE  /\ \A m \in Frames(down[s]) :
               m.type # "revoked" => m.op \in Ops /\ ops[m.op].state \notin Untaken
         /\ \A m \in Frames(up[s]) :
               m.type = "result" => m.op \in Ops /\ ops[m.op].state \notin Untaken
<1>1. ASSUME NEW m \in Frames(down[s]), m.type # "revoked"
      PROVE  m.op \in Ops /\ ops[m.op].state \notin Untaken
  <2>1. m \in Delivery
    BY <1>1, RouteTypes DEF Frames
  <2>2. m.type \in {"execute", "inspect_only"}
    BY <1>1, <2>1 DEF Delivery, RevokedNotice
  <2>. QED  BY <1>1, <2>2 DEF RouteInv, TruthInv, Told, ToldOk, Past, Settled, Untaken
<1>2. ASSUME NEW m \in Frames(up[s]), m.type = "result"
      PROVE  m.op \in Ops /\ ops[m.op].state \notin Untaken
  BY <1>2 DEF RouteInv, TruthInv, Said, SaidOk, Journalled, Past, Settled, Untaken
<1>. QED  BY <1>1, <1>2

\* A connection that carries something stays its device's.
LEMMA PeerStays ==
  ASSUME RouteInv, [Next]_vars, NEW s \in Sessions, phase[s] # "unused"
  PROVE  peer'[s] = peer[s]
  BY RouteTypes, LocalsStep DEF Locals

LEMMA HeadIsFrame ==
  ASSUME NEW S, NEW q \in Seq(S), q # <<>>
  PROVE  Head(q) \in Frames(q)
  BY DEF Frames

\* The frames of a connection after a step.
LEMMA DownFrames ==
  ASSUME RouteInv, [Next]_vars, NEW s \in Sessions, NEW m \in Frames(down'[s])
  PROVE  /\ phase[s] # "unused"
         /\ \/ m \in Frames(down[s])
            \/ /\ down'[s] = Append(down[s], m)
               /\ using[peer[s]] = s
               /\ \/ m = RevokedNotice
                  \/ target[s] \in Ops /\ m = Task("inspect_only", target[s])
                  \/ \E o \in Ops : Claimable(ops, peer[s], o) /\ m = Task("execute", o)
<1>0. DownMoves(s)
  BY RouteTypes, DownSteps
<1>1. down[s] \in Seq(Delivery)
  BY RouteTypes
<1>2. CASE down'[s] \in {down[s], <<>>}
  BY <1>2, EmptyFrames DEF RouteInv, UnusedIsSilent
<1>3. CASE down[s] # <<>> /\ down'[s] = Tail(down[s])
  BY <1>1, <1>3, FramesOfTail DEF RouteInv, UnusedIsSilent
<1>4. ASSUME NEW a \in Delivery, down'[s] = Append(down[s], a)
      PROVE  m \in Frames(down[s]) \/ m = a
  BY <1>1, <1>4, FramesOfAppend
<1>5. /\ RevokedNotice \in Delivery
      /\ \A o \in Ops : Task("inspect_only", o) \in Delivery /\ Task("execute", o) \in Delivery
  BY DEF Task, Delivery
<1>. QED  BY <1>0, <1>2, <1>3, <1>4, <1>5 DEF DownMoves

LEMMA UpFrames ==
  ASSUME RouteInv, [Next]_vars, NEW s \in Sessions, NEW m \in Frames(up'[s])
  PROVE  /\ phase[s] # "unused"
         /\ \/ m \in Frames(up[s])
            \/ /\ using[peer[s]] = s /\ peer[s] \in Devices
               /\ UNCHANGED <<sessionVars, devices, ops, using>>
               /\ m.type = "heartbeat" => m.revision <= revision[peer[s]]
               /\ m.type = "result" => Answer(s, m)
<1>0. UpMoves(s)
  BY RouteTypes, UpSteps
<1>1. up[s] \in Seq(Message)
  BY RouteTypes
<1>2. CASE up'[s] \in {up[s], <<>>}
  BY <1>2, EmptyFrames DEF RouteInv, UnusedIsSilent
<1>3. CASE up[s] # <<>> /\ up'[s] = Tail(up[s])
  BY <1>1, <1>3, FramesOfTail DEF RouteInv, UnusedIsSilent
<1>4. ASSUME NEW a \in Message, up'[s] = Append(up[s], a)
      PROVE  m \in Frames(up[s]) \/ m = a
  BY <1>1, <1>4, FramesOfAppend
<1>. QED  BY <1>0, <1>2, <1>3, <1>4 DEF UpMoves

LEMMA RouteStep == RouteInv /\ [Next]_vars => RouteInv'
<1>. SUFFICES ASSUME RouteInv, [Next]_vars
              PROVE  RouteInv'
  OBVIOUS
<1>0. TypeInv /\ TypeOK
  BY RouteTypes
<1>1. LineInv' /\ TruthInv'
  BY LineStep, TruthStep DEF RouteInv
<1>2. LatestIsPeer'
  <2>1. ASSUME NEW s \in Sessions, NEW d \in Devices, Connect(s, d)
        PROVE  LatestIsPeer'
    BY <1>0, <2>1 DEF Connect, RouteInv, LatestIsPeer, TypeOK
  <2>2. CASE UNCHANGED <<peer, using>>
    <3>1. \A s \in Sessions : phase'[s] = "unused" => phase[s] = "unused"
      BY <1>0, LocalsStep DEF Locals
    <3>. QED  BY <1>0, <2>2, <3>1 DEF RouteInv, LatestIsPeer, TypeOK
  <2>. QED  BY <2>1, <2>2, RouteSteps
<1>3. DownInUse'
  <2>. SUFFICES ASSUME NEW t \in Sessions, down'[t] # <<>>
                PROVE  using'[peer'[t]] = t
    BY DEF DownInUse
  <2>1. CASE UNCHANGED <<peer, using>>
    <3>1. DownMoves(t)
      BY <1>0, DownSteps
    <3>. QED  BY <2>1, <3>1 DEF RouteInv, DownInUse, DownMoves
  <2>2. ASSUME NEW s \in Sessions, NEW d \in Devices, Connect(s, d)
        PROVE  using'[peer'[t]] = t
    <3>1. t # using[d] /\ down[t] # <<>>
      BY <2>2 DEF Connect
    <3>2. t # s /\ using[peer[t]] = t
      BY <2>2, <3>1 DEF Connect, RouteInv, UnusedIsSilent, DownInUse
    <3>3. peer'[t] = peer[t] /\ peer[t] # d
      BY <1>0, <2>2, <3>1, <3>2 DEF Connect, TypeOK
    <3>. QED  BY <1>0, <2>2, <3>2, <3>3 DEF Connect, TypeOK
  <2>. QED  BY <2>1, <2>2, RouteSteps
<1>4. UnusedIsSilent'
  <2>. SUFFICES ASSUME NEW t \in Sessions, phase'[t] = "unused"
                PROVE  up'[t] = <<>> /\ down'[t] = <<>>
    BY DEF UnusedIsSilent
  <2>1. phase[t] = "unused"
    BY <1>0, LocalsStep DEF Locals
  <2>2. up[t] = <<>> /\ down[t] = <<>>
    BY <2>1 DEF RouteInv, UnusedIsSilent
  <2>. QED  BY <1>0, <2>1, <2>2, UpSteps, DownSteps DEF UpMoves, DownMoves
<1>5. Addressed'
  <2>. SUFFICES ASSUME NEW s \in Sessions
                PROVE  /\ target'[s] # 0 => ops'[target'[s]].device = peer'[s]
                       /\ \A m \in Frames(down'[s]) :
                             m.type # "revoked" => ops'[m.op].device = peer'[s]
                       /\ \A m \in Frames(up'[s]) :
                             /\ peer'[s] \in Devices
                             /\ m.type = "result" => ops'[m.op].device = peer'[s]
    BY DEF Addressed
  <2>1. target[s] # 0 => /\ phase[s] # "unused" /\ target[s] \in Ops
                         /\ ops[target[s]].state \notin Untaken
    BY <1>0 DEF RouteInv, TruthInv, ClaimInv, TargetIsPast, UnusedIsBare, Past, Settled,
                Untaken, TypeOK
  <2>2. ASSUME target'[s] # 0
        PROVE  ops'[target'[s]].device = peer'[s]
    <3>1. CASE target'[s] = target[s]
      BY <1>0, <2>1, <2>2, <3>1, Forward, PeerStays DEF RouteInv, Addressed
    <3>2. CASE FindUncertain(s) /\ target'[s] # target[s]
      <4>1. target'[s] \in UnknownOf(peer[s]) /\ UNCHANGED <<ops, peer>>
        BY <1>0, <3>2 DEF FindUncertain, TypeOK, tableVars
      <4>. QED  BY <4>1 DEF UnknownOf
    <3>. QED  BY <1>0, <2>2, <3>1, <3>2, LocalsStep DEF Locals
  <2>3. ASSUME NEW m \in Frames(down'[s]), m.type # "revoked"
        PROVE  ops'[m.op].device = peer'[s]
    <3>0. peer'[s] = peer[s]
      BY DownFrames, PeerStays
    <3>1. CASE m \in Frames(down[s])
      BY <1>0, <2>3, <3>0, <3>1, NamedIsTaken, Forward DEF RouteInv, Addressed
    <3>2. CASE target[s] \in Ops /\ m = Task("inspect_only", target[s])
      BY <1>0, <2>1, <3>0, <3>2, Forward DEF RouteInv, Addressed, Task, Ops
    <3>3. ASSUME NEW o \in Ops, Claimable(ops, peer[s], o), m = Task("execute", o)
          PROVE  ops'[m.op].device = peer'[s]
      <4>1. ops[o].device = peer[s] /\ ops[o].state = "pending" /\ m.op = o
        BY <3>3 DEF Claimable, Task
      <4>2. ops'[o].device = ops[o].device
        <5>1. CASE MovesOn(o)
          BY <5>1 DEF MovesOn
        <5>2. ASSUME NEW p \in Ops, Queues(p) \/ Claims(p)
              PROVE  ops'[o].device = ops[o].device
          BY <1>0, <4>1, <5>2, QueueRows, ClaimRows
        <5>. QED  BY <1>0, <5>1, <5>2, TableStep
      <4>. QED  BY <3>0, <4>1, <4>2
    <3>. QED  BY <2>3, <3>1, <3>2, <3>3, DownFrames DEF RevokedNotice
  <2>4. ASSUME NEW m \in Frames(up'[s]), m.type = "result"
        PROVE  ops'[m.op].device = peer'[s]
    <3>0. peer'[s] = peer[s]
      BY UpFrames, PeerStays
    <3>1. CASE m \in Frames(up[s])
      BY <1>0, <2>4, <3>0, <3>1, NamedIsTaken, Forward DEF RouteInv, Addressed
    <3>2. CASE Answer(s, m) /\ UNCHANGED ops
      <4>1. down[s] # <<>> => Head(down[s]) \in Frames(down[s])
        BY RouteTypes, HeadIsFrame
      <4>2. ops[m.op].device = peer[s]
        BY <3>2, <4>1 DEF Answer, RouteInv, Addressed
      <4>. QED  BY <3>0, <3>2, <4>2
    <3>. QED  BY <2>4, <3>1, <3>2, UpFrames
  <2>5. ASSUME NEW m \in Frames(up'[s])
        PROVE  peer'[s] \in Devices
    BY UpFrames, PeerStays DEF RouteInv, Addressed
  <2>. QED  BY <2>2, <2>3, <2>4, <2>5
<1>. QED  BY <1>1, <1>2, <1>3, <1>4, <1>5 DEF RouteInv

------------------------------------------------------------------------------
(* In which order a Client executes.                                        *)

\* What a Client has still to execute comes after all that it executed ...
ExecutedBefore ==
    \A s \in Sessions : \A m \in Frames(down[s]) : \A p \in Ops :
        m.type = "execute" /\ journal[p] # {} /\ ops[p].device = peer[s] => p < m.op

\* ... and in the order in which it was queued.
SentInOrder ==
    \A s \in Sessions : \A i, j \in DOMAIN down[s] :
        i < j /\ down[s][i].type = "execute" /\ down[s][j].type = "execute" =>
            down[s][i].op < down[s][j].op

OrderInv ==
    /\ RouteInv
    /\ ExecutedBefore
    /\ SentInOrder

LEMMA OrderInit == Init => OrderInv
  BY RouteInit, EmptyFrames DEF Init, OrderInv, ExecutedBefore, SentInOrder

LEMMA OrderTypes ==
  ASSUME OrderInv
  PROVE  /\ RouteInv /\ LineInv /\ TruthInv /\ QueueInv /\ ClaimInv /\ TypeInv /\ TypeOK
         /\ \A s \in Sessions : up[s] \in Seq(Message) /\ down[s] \in Seq(Delivery)
  BY RouteTypes DEF OrderInv, RouteInv

\* What is claimable was queued after all that was taken up.
LEMMA ClaimableIsLater ==
  ASSUME QueueInv, NEW o \in Ops, NEW p \in Ops, NEW d, Claimable(ops, d, o),
         ops[p].device = d, ops[p].state \notin Untaken
  PROVE  p < o
<1>1. ops[o].state = "pending" /\ ops[o].device = d
  BY DEF Claimable
<1>2. claimedBy[p] # None
  BY DEF QueueInv, TakenIsClaimed
<1>3. ~(o < p)
  BY <1>1, <1>2 DEF QueueInv, SettledBeforeNext, SameDevice, Settled
<1>4. o # p
  BY <1>1 DEF Untaken
<1>. QED  BY <1>3, <1>4 DEF Ops

\* What was executed was taken up, and keeps its device.
LEMMA ExecutedIsTaken ==
  ASSUME OrderInv, [Next]_vars, NEW p \in Ops, journal[p] # {}
  PROVE  /\ ops[p].state \notin Untaken
         /\ ops'[p].device = ops[p].device
         /\ journal'[p] = journal[p]
<1>1. ops[p].state \notin Untaken
  BY OrderTypes DEF TruthInv, Journalled
<1>. QED  BY <1>1, OrderTypes, Forward, JournalStays DEF JournalKept

\* An execution is of an operation of the device, later than all executed before.
LEMMA ExecutionIsNew ==
  ASSUME OrderInv, NEW s \in Sessions, ClientExecute(s)
  PROVE  LET o == Head(down[s]).op
             d == peer[s]
         IN  /\ o \in Ops /\ d \in Devices /\ using[d] = s /\ ops[o].device = d
             /\ journal[o] = {} /\ ops[o].state \notin Untaken
             /\ UNCHANGED <<ops, peer, devices>>
             /\ \A p \in Ops : journal[p] # {} /\ ops[p].device = d =>
                    p < o /\ ops[p].state \in Settled
             /\ \E x \in Execution(d, o) :
                    /\ journal' = [journal EXCEPT ![o] = {x.report}]
                    /\ revision' = [revision EXCEPT ![d] = x.effect]
<1> DEFINE o == Head(down[s]).op
           d == peer[s]
<1>0. /\ down[s] # <<>> /\ Head(down[s]).type = "execute"
      /\ journal[o] = {} /\ UNCHANGED <<ops, peer, devices>>
      /\ \E x \in Execution(d, o) :
             /\ journal' = [journal EXCEPT ![o] = {x.report}]
             /\ revision' = [revision EXCEPT ![d] = x.effect]
  BY DEF ClientExecute, tableVars, sessionVars
<1>1. d \in Devices /\ using[d] = s
  BY OrderTypes DEF ClientExecute, Using, TypeOK
<1>2. Head(down[s]) \in Frames(down[s])
  BY <1>0, OrderTypes, HeadIsFrame
<1>3. o \in Ops /\ ops[o].device = d /\ ops[o].state \notin Untaken
  BY <1>0, <1>2, OrderTypes, NamedIsTaken DEF RouteInv, Addressed
<1>4. ASSUME NEW p \in Ops, journal[p] # {}, ops[p].device = d
      PROVE  p < o /\ ops[p].state \in Settled
  <2>1. p < o
    BY <1>0, <1>2, <1>4 DEF OrderInv, ExecutedBefore
  <2>2. claimedBy[o] # None
    BY <1>3, OrderTypes DEF QueueInv, TakenIsClaimed
  <2>. QED  BY <1>3, <1>4, <2>1, <2>2, OrderTypes
            DEF QueueInv, SettledBeforeNext, SameDevice
<1>. QED  BY <1>0, <1>1, <1>3, <1>4

LEMMA SentInOrderStep ==
  ASSUME OrderInv, [Next]_vars
  PROVE  SentInOrder'
<1>. SUFFICES ASSUME NEW s \in Sessions, NEW i \in DOMAIN down'[s], NEW j \in DOMAIN down'[s],
                     i < j, down'[s][i].type = "execute", down'[s][j].type = "execute"
              PROVE  down'[s][i].op < down'[s][j].op
  BY DEF SentInOrder
<1> DEFINE q == down[s]
           r == down'[s]
<1>0. q \in Seq(Delivery) /\ DownMoves(s)
  BY OrderTypes, DownSteps
<1>1. CASE r \in {q, <<>>}
  BY <1>1 DEF OrderInv, SentInOrder
<1>2. CASE q # <<>> /\ r = Tail(q)
  <2>1. /\ i + 1 \in DOMAIN q /\ j + 1 \in DOMAIN q /\ i + 1 < j + 1
        /\ r[i] = q[i + 1] /\ r[j] = q[j + 1]
    BY <1>0, <1>2
  <2>. QED  BY <2>1 DEF OrderInv, SentInOrder
<1>3. ASSUME NEW a \in Delivery, r = Append(q, a),
             a.type # "execute" \/ \E o \in Ops : a.op = o /\ Claimable(ops, peer[s], o)
      PROVE  down'[s][i].op < down'[s][j].op
  <2>1. i \in DOMAIN q /\ r[i] = q[i] /\ ((j \in DOMAIN q /\ r[j] = q[j]) \/ r[j] = a)
    BY <1>0, <1>3
  <2>2. CASE j \in DOMAIN q /\ r[j] = q[j]
    BY <2>1, <2>2 DEF OrderInv, SentInOrder
  <2>3. CASE r[j] = a
    <3>1. PICK o \in Ops : a.op = o /\ Claimable(ops, peer[s], o)
      BY <1>3, <2>3
    <3>2. q[i] \in Frames(q) /\ q[i].type # "revoked"
      BY <2>1 DEF Frames
    <3>3. /\ q[i].op \in Ops /\ ops[q[i].op].state \notin Untaken
          /\ ops[q[i].op].device = peer[s]
      BY <3>2, OrderTypes, NamedIsTaken DEF RouteInv, Addressed
    <3>. QED  BY <2>1, <2>3, <3>1, <3>3, OrderTypes, ClaimableIsLater
  <2>. QED  BY <2>1, <2>2, <2>3
<1>4. RevokedNotice \in Delivery /\ RevokedNotice.type # "execute"
  BY DEF Delivery, RevokedNotice
<1>5. ASSUME NEW o \in Ops
      PROVE  /\ Task("inspect_only", o) \in Delivery
             /\ Task("inspect_only", o).type # "execute"
             /\ Task("execute", o) \in Delivery /\ Task("execute", o).op = o
  BY DEF Task, Delivery
<1>. QED  BY <1>0, <1>1, <1>2, <1>3, <1>4, <1>5 DEF DownMoves

LEMMA ExecutedBeforeStep ==
  ASSUME OrderInv, [Next]_vars
  PROVE  ExecutedBefore'
<1>. SUFFICES ASSUME NEW t \in Sessions, NEW m \in Frames(down'[t]), NEW p \in Ops,
                     m.type = "execute", journal'[p] # {}, ops'[p].device = peer'[t]
              PROVE  p < m.op
  BY DEF ExecutedBefore
<1>0. peer'[t] = peer[t]
  BY OrderTypes, DownFrames, PeerStays
<1>1. CASE journal[p] # {} /\ m \in Frames(down[t])
  BY <1>0, <1>1, ExecutedIsTaken DEF OrderInv, ExecutedBefore
<1>2. CASE journal[p] # {} /\ m \notin Frames(down[t])
  <2>1. PICK o \in Ops : Claimable(ops, peer[t], o) /\ m = Task("execute", o)
    BY <1>2, OrderTypes, DownFrames DEF Task, RevokedNotice
  <2>2. ops[p].device = peer[t] /\ ops[p].state \notin Untaken
    BY <1>0, <1>2, ExecutedIsTaken
  <2>3. p < o
    BY <2>1, <2>2, OrderTypes, ClaimableIsLater
  <2>. QED  BY <2>1, <2>3 DEF Task
<1>3. CASE journal[p] = {}
  <2>1. PICK s \in Sessions : ClientExecute(s)
    BY <1>3, OrderTypes, JournalSteps
  <2> DEFINE o == Head(down[s]).op
             d == peer[s]
  <2>2. /\ o \in Ops /\ using[d] = s /\ ops[o].device = d /\ UNCHANGED <<ops, peer>>
        /\ \E x \in Execution(d, o) : journal' = [journal EXCEPT ![o] = {x.report}]
    BY <2>1, ExecutionIsNew
  <2>3. p = o
    BY <1>3, <2>2, OrderTypes DEF TypeOK
  <2>4. down[s] # <<>> /\ Head(down[s]).type = "execute" /\ down'[s] = Tail(down[s])
        /\ \A u \in Sessions : u # s => down'[u] = down[u]
    BY <2>1, OrderTypes DEF ClientExecute, TypeOK
  <2>5. t = s
    <3>1. CASE down[t] = <<>>
      BY <2>4, <3>1, EmptyFrames
    <3>2. CASE down[t] # <<>>
      <4>1. using[peer[t]] = t
        BY <3>2 DEF OrderInv, RouteInv, DownInUse
      <4>. QED  BY <1>0, <2>2, <2>3, <4>1
    <3>. QED  BY <3>1, <3>2
  <2>6. PICK i \in DOMAIN down'[s] : m = down'[s][i]
    BY <2>5 DEF Frames
  <2>7. /\ 1 \in DOMAIN down[s] /\ i + 1 \in DOMAIN down[s] /\ 1 < i + 1
        /\ m = down[s][i + 1] /\ Head(down[s]) = down[s][1]
    BY <2>4, <2>6, OrderTypes
  <2>. QED  BY <2>3, <2>4, <2>7 DEF OrderInv, SentInOrder
<1>. QED  BY <1>1, <1>2, <1>3

LEMMA OrderStep == OrderInv /\ [Next]_vars => OrderInv'
  BY RouteStep, ExecutedBeforeStep, SentInOrderStep DEF OrderInv

------------------------------------------------------------------------------
(* What is reported and recorded.                                           *)

\* The Client's journal has one report of an operation, ...
JournalOnce == \A o \in Ops : \A r, q \in journal[o] : r = q

\* ... tells of no later configuration than the device has had, ...
JournalBehind ==
    \A o \in Ops : \A r \in journal[o] : r.revision <= revision[ops[o].device]

\* ... and of later ones the later an operation was queued: whatever was edited at
\* the device between two operations lies between their revisions.
JournalGrows ==
    \A o, p \in Ops : \A r \in journal[o], q \in journal[p] :
        o < p /\ SameDevice(o, p) /\ q.revision # 0 => r.revision <= q.revision

\* A device has a configuration.
Configured == \A d \in Devices : revision[d] # 0

\* A report tells of no later configuration than the device has had, and a confirmation
\* of the one that the journal remembers of the operation.
ReportOk(o, r) ==
    /\ r.revision <= revision[ops[o].device]
    /\ r.kind \in Confirmations =>
          /\ r.revision # 0
          /\ \E x \in journal[o] : x.revision = r.revision

JournalInv ==
    /\ OrderInv
    /\ Configured
    /\ JournalOnce
    /\ JournalBehind
    /\ JournalGrows
    /\ \A o \in Ops : \A r \in journal[o] : ReportOk(o, r)

\* What is under way; a heartbeat is of the past, too.
FramesOk ==
    \A s \in Sessions : \A m \in Frames(up[s]) :
        /\ m.type = "result" => ReportOk(m.op, m.report)
        /\ m.type = "heartbeat" => m.revision <= revision[peer[s]]

\* The Manager records nothing that the device did not reach, ...
RecordBehind ==
    \A d \in Devices :
        devices[d].saved <= revision[d] /\ devices[d].snapshot <= revision[d]

\* ... and as saved nothing that is not in the Client's journal.
SavedIsJournalled ==
    \A d \in Devices :
        \/ devices[d].saved = 0
        \/ \E p \in Ops : /\ ops[p].device = d
                          /\ \E r \in journal[p] : devices[d].saved = r.revision

RecordInv ==
    /\ JournalInv
    /\ FramesOk
    /\ RecordBehind
    /\ SavedIsJournalled
    /\ SucceededPatchRecorded

LEMMA RecordInit == Init => RecordInv
  BY OrderInit, EmptyFrames
  DEF Init, Vacant, RecordInv, JournalInv, Configured, JournalOnce, JournalBehind,
      JournalGrows, FramesOk, RecordBehind, SavedIsJournalled, SucceededPatchRecorded

\* An operation that was taken up has a device.
LEMMA TakenHasDevice ==
  ASSUME LineInv, NEW o \in Ops, ops[o].state \notin Untaken
  PROVE  ops[o].device \in Devices
  BY DEF LineInv, Placed, Untaken

\* What executing an operation leaves: the configuration or a later one, of which the
\* journal remembers a confirmation, and nothing, or it, of any other outcome.
LEMMA ExecutionReports ==
  ASSUME NEW d \in Devices, NEW o \in Ops, NEW x \in Execution(d, o), revision[d] \in Nat
  PROVE  /\ x.effect \in Nat /\ revision[d] <= x.effect
         /\ x.report.revision \in {0, x.effect}
         /\ x.report.kind \in Confirmations => x.report.revision = x.effect
  BY ChannelAssumption DEF Execution, Confirmations

\* How a step moves configurations and journals.
LEMMA RevisionSteps ==
  ASSUME OrderInv, [Next]_vars
  PROVE  \/ UNCHANGED <<journal, revision>>
         \/ /\ UNCHANGED journal
            /\ \E d \in Devices : revision' = [revision EXCEPT ![d] = @ + 1]
         \/ \E s \in Sessions : ClientExecute(s)
<1>1. CASE UNCHANGED vars
  BY <1>1 DEF vars, clientVars
<1>2. ASSUME NEW d \in Devices, EditLocally(d)
      PROVE  /\ UNCHANGED journal
             /\ \E e \in Devices : revision' = [revision EXCEPT ![e] = @ + 1]
  BY <1>2 DEF EditLocally
<1>3. CASE AdminStep \/ ProcessStep
  BY <1>3 DEF AdminStep, Enqueue, Resolve, Revoke, ProcessStep, Crash, Restart, Serve,
              Reap, Recover, LeaseExpires, clientVars
<1>4. ASSUME NEW s \in Sessions, ServeStep(s)
      PROVE  UNCHANGED <<journal, revision>>
  BY <1>4 DEF ServeStep, Receive, HandleHeartbeat, HandleResult, RefuseResult, Tick,
              FindUncertain, Inspect, Claim, Abandon, Clear, clientVars
<1>5. ASSUME NEW s \in Sessions, ConnectionStep(s) \/ ClientStep(s)
      PROVE  UNCHANGED <<journal, revision>> \/ ClientExecute(s)
  BY <1>5 DEF ConnectionStep, Connect, Hello, TimeOut, Disconnect, ClientStep,
              ClientInspect, ClientRepeat, ClientHeartbeat, clientVars
<1>. QED  BY <1>1, <1>2, <1>3, <1>4, <1>5 DEF Next

\* A device's configuration moves forward only.
LEMMA RevisionGrows ==
  ASSUME OrderInv, [Next]_vars, NEW d \in Devices
  PROVE  revision[d] \in Nat /\ revision'[d] \in Nat /\ revision[d] <= revision'[d]
<1>0. revision[d] \in Nat /\ revision'[d] \in Nat /\ revision \in [Devices -> Nat]
  BY OrderTypes, TypeStep DEF TypeInv, TypeOK, Revisions
<1>1. CASE UNCHANGED revision
  BY <1>0, <1>1
<1>2. ASSUME NEW e \in Devices, revision' = [revision EXCEPT ![e] = @ + 1]
      PROVE  revision[d] <= revision'[d]
  BY <1>0, <1>2
<1>3. ASSUME NEW s \in Sessions, ClientExecute(s)
      PROVE  revision[d] <= revision'[d]
  <2> DEFINE o == Head(down[s]).op
             e == peer[s]
  <2>1. o \in Ops /\ e \in Devices
    BY <1>3, ExecutionIsNew
  <2>2. PICK x \in Execution(e, o) : revision' = [revision EXCEPT ![e] = x.effect]
    BY <1>3, ExecutionIsNew
  <2>3. revision[e] <= x.effect
    BY <1>0, <2>1, ExecutionReports
  <2>. QED  BY <1>0, <2>2, <2>3
<1>. QED  BY <1>0, <1>1, <1>2, <1>3, RevisionSteps

\* A report that a journal gets in a step.
LEMMA NewReport ==
  ASSUME JournalInv, [Next]_vars, NEW o \in Ops, NEW r \in journal'[o], r \notin journal[o]
  PROVE  /\ ops[o].device \in Devices
         /\ journal'[o] = {r}
         /\ r.revision \in {0, revision'[ops[o].device]}
         /\ r.kind \in Confirmations => r.revision = revision'[ops[o].device]
         /\ \A p \in Ops : journal'[p] # {} /\ ops[p].device = ops[o].device => p <= o
         /\ \A p \in Ops : p # o => journal'[p] = journal[p]
         /\ UNCHANGED ops
<1>0. OrderInv /\ TypeOK
  BY OrderTypes DEF JournalInv
<1>1. PICK s \in Sessions : ClientExecute(s)
  BY <1>0, OrderTypes, JournalSteps
<1> DEFINE d == peer[s]
           q == Head(down[s]).op
<1>2. /\ q \in Ops /\ d \in Devices /\ ops[q].device = d /\ UNCHANGED ops
      /\ \A p \in Ops : journal[p] # {} /\ ops[p].device = d => p < q
      /\ \E x \in Execution(d, q) :
             /\ journal' = [journal EXCEPT ![q] = {x.report}]
             /\ revision' = [revision EXCEPT ![d] = x.effect]
  BY <1>0, <1>1, ExecutionIsNew
<1>3. PICK x \in Execution(d, q) : /\ journal' = [journal EXCEPT ![q] = {x.report}]
                                   /\ revision' = [revision EXCEPT ![d] = x.effect]
  BY <1>2
<1> HIDE DEF q
<1>4. /\ o = q /\ r = x.report /\ journal'[o] = {r}
      /\ \A p \in Ops : p # o => journal'[p] = journal[p]
  <2>1. journal = [p \in Ops |-> journal[p]] /\ q \in Ops
    BY <1>0, <1>2 DEF TypeOK
  <2>2. journal'[q] = {x.report} /\ \A p \in Ops : p # q => journal'[p] = journal[p]
    BY <1>3, <2>1
  <2>3. o = q
    BY <2>2
  <2>. QED  BY <2>2, <2>3
<1>5. revision'[d] = x.effect /\ revision[d] \in Nat
  BY <1>0, <1>2, <1>3 DEF TypeOK, Revisions
<1>6. /\ r.revision \in {0, x.effect}
      /\ r.kind \in Confirmations => r.revision = x.effect
  BY <1>2, <1>3, <1>4, <1>5, ExecutionReports
<1>7. \A p \in Ops : journal'[p] # {} /\ ops[p].device = d => p <= o
  BY <1>2, <1>4 DEF Ops
<1>. QED  BY <1>2, <1>4, <1>5, <1>6, <1>7

\* What was reported earlier keeps its operation's device, its place and its truth.
LEMMA OldReport ==
  ASSUME JournalInv, [Next]_vars, NEW o \in Ops, journal[o] # {}
  PROVE  /\ ops[o].device \in Devices /\ ops'[o].device = ops[o].device
         /\ ops[o].state \notin Untaken
         /\ journal'[o] = journal[o]
  BY OrderTypes, ExecutedIsTaken, TakenHasDevice DEF JournalInv

\* Of an operation that was taken up, a report stays what it is.
LEMMA ReportKept ==
  ASSUME OrderInv, [Next]_vars, NEW o \in Ops, NEW r \in Report,
         ops[o].state \notin Untaken, ReportOk(o, r)
  PROVE  ReportOk(o, r)'
<1>1. ops[o].device \in Devices /\ ops'[o].device = ops[o].device
  BY OrderTypes, TakenHasDevice, Forward
<1>2. r.revision <= revision'[ops[o].device]
  BY <1>1, RevisionGrows DEF ReportOk, Report, Revisions
<1>3. journal[o] # {} => journal'[o] = journal[o]
  BY OrderTypes, JournalStays DEF JournalKept
<1>. QED  BY <1>1, <1>2, <1>3 DEF ReportOk

LEMMA JournalStep == JournalInv /\ [Next]_vars => JournalInv'
<1>. SUFFICES ASSUME JournalInv, [Next]_vars
              PROVE  JournalInv'
  OBVIOUS
<1>0. OrderInv /\ OrderInv' /\ TypeOK /\ TypeOK'
  BY OrderStep, OrderTypes, TypeStep DEF JournalInv, TypeInv
<1>1. Configured'
  <2>. SUFFICES ASSUME NEW d \in Devices
                PROVE  revision'[d] # 0
    BY DEF Configured
  <2>1. revision[d] # 0
    BY DEF JournalInv, Configured
  <2>. QED  BY <1>0, <2>1, RevisionGrows
<1>2. JournalOnce'
  <2>. SUFFICES ASSUME NEW o \in Ops, NEW r \in journal'[o], NEW q \in journal'[o]
                PROVE  r = q
    BY DEF JournalOnce
  <2>1. CASE journal[o] = {}
    BY <2>1, NewReport
  <2>2. CASE journal[o] # {}
    BY <2>2, OldReport DEF JournalInv, JournalOnce
  <2>. QED  BY <2>1, <2>2
<1>3. JournalBehind'
  <2>. SUFFICES ASSUME NEW o \in Ops, NEW r \in journal'[o]
                PROVE  r.revision <= revision'[ops'[o].device]
    BY DEF JournalBehind
  <2>1. CASE r \in journal[o]
    <3>1. ops[o].device \in Devices /\ ops'[o].device = ops[o].device
      BY <2>1, OldReport
    <3>2. r.revision <= revision[ops[o].device] /\ r.revision \in Nat
      BY <1>0, <2>1 DEF JournalInv, JournalBehind, TypeOK, Report, Revisions
    <3>. QED  BY <1>0, <3>1, <3>2, RevisionGrows
  <2>2. CASE r \notin journal[o]
    <3>1. /\ ops[o].device \in Devices /\ ops'[o].device = ops[o].device
          /\ r.revision \in {0, revision'[ops[o].device]}
      BY <2>2, NewReport
    <3>. QED  BY <1>0, <3>1, RevisionGrows
  <2>. QED  BY <2>1, <2>2
<1>4. JournalGrows'
  <2>. SUFFICES ASSUME NEW o \in Ops, NEW p \in Ops, o < p, ops'[o].device = ops'[p].device,
                       NEW r \in journal'[o], NEW q \in journal'[p], q.revision # 0
                PROVE  r.revision <= q.revision
    BY DEF JournalGrows, SameDevice
  <2>1. CASE r \in journal[o] /\ q \in journal[p]
    <3>1. ops[o].device = ops[p].device
      BY <2>1, OldReport
    <3>. QED  BY <2>1, <3>1 DEF JournalInv, JournalGrows, SameDevice
  <2>2. CASE r \in journal[o] /\ q \notin journal[p]
    <3>1. /\ q.revision = revision'[ops[p].device] /\ UNCHANGED ops
      BY <2>2, NewReport
    <3>2. r.revision <= revision'[ops'[o].device]
      BY <1>3 DEF JournalBehind
    <3>. QED  BY <3>1, <3>2
  <2>3. CASE r \notin journal[o]
    <3>1. /\ ops[o].device = ops[p].device => p <= o
          /\ UNCHANGED ops
      BY <2>3, NewReport
    <3>. QED  BY <3>1 DEF Ops
  <2>. QED  BY <2>1, <2>2, <2>3
<1>5. ASSUME NEW o \in Ops, NEW r \in journal'[o]
      PROVE  ReportOk(o, r)'
  <2>1. CASE r \in journal[o]
    <3>1. r \in Report /\ ops[o].state \notin Untaken
      BY <1>0, <2>1, OldReport DEF TypeOK
    <3>. QED  BY <1>0, <2>1, <3>1, ReportKept DEF JournalInv
  <2>2. CASE r \notin journal[o]
    <3>1. /\ ops[o].device \in Devices /\ UNCHANGED ops
          /\ r.kind \in Confirmations => r.revision = revision'[ops[o].device]
      BY <2>2, NewReport
    <3>. QED  BY <1>1, <1>3, <3>1 DEF ReportOk, JournalBehind, Configured
  <2>. QED  BY <2>1, <2>2
<1>. QED  BY <1>0, <1>1, <1>2, <1>3, <1>4, <1>5 DEF JournalInv

LEMMA FramesOkStep ==
  ASSUME RecordInv, [Next]_vars
  PROVE  FramesOk'
<1>. SUFFICES ASSUME NEW s \in Sessions, NEW m \in Frames(up'[s])
              PROVE  /\ m.type = "result" => ReportOk(m.op, m.report)'
                     /\ m.type = "heartbeat" => m.revision <= revision'[peer'[s]]
  BY DEF FramesOk
<1>0. OrderInv /\ RouteInv /\ TypeOK /\ JournalInv /\ JournalInv'
  BY OrderTypes, JournalStep DEF RecordInv, JournalInv
<1>1. peer'[s] = peer[s]
  BY <1>0, UpFrames, PeerStays
<1>2. ASSUME m \in Frames(up[s]), m.type = "result"
      PROVE  ReportOk(m.op, m.report)'
  <2>1. m.op \in Ops /\ ops[m.op].state \notin Untaken
    BY <1>0, <1>2, NamedIsTaken
  <2>2. m \in Message
    BY <1>0, <1>2 DEF Frames, TypeOK
  <2>3. m.report \in Report
    BY <1>2, <2>2 DEF Message
  <2>. QED  BY <1>0, <1>2, <2>1, <2>3, ReportKept DEF RecordInv, FramesOk
<1>3. m \in Message
  BY <1>0, TypeStep, OrderTypes DEF Frames, TypeInv, TypeOK
<1>4. ASSUME m.type = "heartbeat"
      PROVE  m.revision <= revision'[peer[s]]
  <2>1. peer[s] \in Devices /\ m.revision \in Nat
    BY <1>0, <1>3, <1>4, UpFrames DEF RouteInv, Addressed, Message, Revisions
  <2>2. m.revision <= revision[peer[s]]
    BY <1>0, <1>4, UpFrames DEF RecordInv, FramesOk
  <2>. QED  BY <1>0, <2>1, <2>2, RevisionGrows
<1>5. ASSUME m \notin Frames(up[s]), m.type = "result"
      PROVE  ReportOk(m.op, m.report)'
  <2>1. Answer(s, m) /\ UNCHANGED ops /\ peer[s] \in Devices
    BY <1>0, <1>5, UpFrames
  <2>2. m.op \in Ops /\ ops'[m.op].device = peer[s]
    <3>1. Addressed'
      BY <1>0, RouteStep DEF RouteInv
    <3>. QED  BY <1>1, <1>3, <1>5, <3>1 DEF Addressed, Message
  <2>3. CASE m.report \in journal'[m.op]
    BY <1>0, <2>2, <2>3 DEF JournalInv
  <2>4. CASE m.report = [kind |-> "unknown", revision |-> 0]
    BY <1>0, <2>1, <2>2, <2>4, RevisionGrows DEF ReportOk, Confirmations
  <2>5. ASSUME NEW x \in journal[m.op], x.revision = revision[peer[s]],
               m.report = [kind |-> "config_saved", revision |-> x.revision]
        PROVE  ReportOk(m.op, m.report)'
    <3>1. x \in journal'[m.op]
      BY <1>0, <2>2, <2>5, OldReport
    <3>2. x.revision # 0 /\ x.revision <= revision'[peer[s]]
      BY <1>0, <2>1, <2>5, RevisionGrows DEF JournalInv, Configured
    <3>. QED  BY <2>2, <2>5, <3>1, <3>2 DEF ReportOk
  <2>. QED  BY <2>1, <2>3, <2>4, <2>5 DEF Answer
<1>. QED  BY <1>1, <1>2, <1>4, <1>5

\* What becomes of the columns that keep a revision.
LEMMA RecordSteps ==
  ASSUME TypeInv, [Next]_vars, NEW d \in Devices
  PROVE  \/ /\ devices'[d].saved = devices[d].saved
            /\ devices'[d].snapshot = devices[d].snapshot
         \/ \E s \in Sessions :
               /\ up[s] # <<>> /\ peer[s] = d /\ IsCurrent(s)
               /\ Head(up[s]).type = "heartbeat" /\ up'[s] = Tail(up[s])
               /\ devices'[d].saved = devices[d].saved
               /\ devices'[d].snapshot = Head(up[s]).revision
               /\ UNCHANGED revision
         \/ \E s \in Sessions :
               /\ up[s] # <<>> /\ Head(up[s]).type = "result" /\ up'[s] = Tail(up[s])
               /\ Head(up[s]).report.kind \in Confirmations /\ IsCurrent(s)
               /\ Head(up[s]).op \in Ops
               /\ ops[Head(up[s]).op].device = d /\ ops[Head(up[s]).op].state \in Active
               /\ devices'[d].saved \in {devices[d].saved, Head(up[s]).report.revision}
               /\ devices'[d].snapshot = Head(up[s]).report.revision
               /\ UNCHANGED revision
<1> DEFINE SameRecord(x) == x.saved = devices[d].saved /\ x.snapshot = devices[d].snapshot
<1>0. devices \in [Devices -> DeviceRow] /\ \A s \in Sessions : up[s] \in Seq(Message)
  BY DEF TypeInv, TypeOK
<1>1. CASE UNCHANGED devices
  BY <1>1
<1>2. ASSUME NEW e \in Devices, Revoke(e)
      PROVE  SameRecord(devices'[d])
  BY <1>0, <1>2 DEF Revoke, DeviceRow
<1>3. CASE Restart
  BY <1>0, <1>3 DEF Restart, DeviceRow
<1>4. ASSUME NEW s \in Sessions, Hello(s) \/ Clear(s)
      PROVE  SameRecord(devices'[d])
  BY <1>0, <1>4 DEF Hello, Clear, DeviceRow
<1>5. ASSUME NEW s \in Sessions, HandleHeartbeat(s), ~SameRecord(devices'[d])
      PROVE  /\ up[s] # <<>> /\ peer[s] = d /\ IsCurrent(s)
             /\ Head(up[s]).type = "heartbeat" /\ up'[s] = Tail(up[s])
             /\ devices'[d].saved = devices[d].saved
             /\ devices'[d].snapshot = Head(up[s]).revision
             /\ UNCHANGED revision
  <2>1. /\ IsCurrent(s)
        /\ devices' = [devices EXCEPT ![peer[s]] = [@ EXCEPT !.snapshot = Head(up[s]).revision]]
    BY <1>5 DEF HandleHeartbeat
  <2>2. peer[s] = d
    BY <1>0, <1>5, <2>1
  <2>3. /\ devices'[d].saved = devices[d].saved
        /\ devices'[d].snapshot = Head(up[s]).revision
    BY <1>0, <2>1, <2>2 DEF DeviceRow
  <2>4. up[s] # <<>> /\ up'[s] = Tail(up[s])
    BY <1>5 DEF HandleHeartbeat, TypeInv, TypeOK, AtHand
  <2>. QED  BY <1>5, <2>1, <2>2, <2>3, <2>4 DEF HandleHeartbeat, clientVars
<1>6. ASSUME NEW s \in Sessions, HandleResult(s), ~SameRecord(devices'[d])
      PROVE  /\ up[s] # <<>> /\ Head(up[s]).type = "result" /\ up'[s] = Tail(up[s])
             /\ Head(up[s]).report.kind \in Confirmations /\ IsCurrent(s)
             /\ Head(up[s]).op \in Ops
             /\ ops[Head(up[s]).op].device = d /\ ops[Head(up[s]).op].state \in Active
             /\ devices'[d].saved \in {devices[d].saved, Head(up[s]).report.revision}
             /\ devices'[d].snapshot = Head(up[s]).report.revision
             /\ UNCHANGED revision
  <2> DEFINE r == Head(up[s]).report
  <2>1. PICK c \in pending[s] :
          /\ c.op \in Ops /\ c.op = Head(up[s]).op /\ up[s] # <<>>
          /\ Head(up[s]).type = "result" /\ Completable(s, c, r) /\ Complete(c, r)
          /\ ops[c.op].state \in Active
    BY <1>6, AcceptedResult
  <2>2. devices' = [devices EXCEPT ![ops[c.op].device] = Recorded(@, r)] /\ IsCurrent(s)
    BY <2>1 DEF Complete, Completable
  <2>3. ops[c.op].device = d /\ devices'[d] = Recorded(devices[d], r)
    BY <1>0, <1>6, <2>2
  <2>4. /\ r.kind \in Confirmations
        /\ devices'[d].saved \in {devices[d].saved, r.revision}
        /\ devices'[d].snapshot = r.revision
    BY <1>0, <1>6, <2>3 DEF Recorded, DeviceRow, Confirmations
  <2>5. up'[s] = Tail(up[s]) /\ UNCHANGED revision
    BY <1>6 DEF HandleResult, TypeInv, TypeOK, clientVars
  <2>. QED  BY <2>1, <2>2, <2>3, <2>4, <2>5
<1>. QED  BY <1>1, <1>2, <1>3, <1>4, <1>5, <1>6, DeviceSteps

\* The saved revision is the journal's of an operation not settled, and moves forward:
\* all that was saved before is of that operation or of an earlier one.
LEMMA SavedSteps ==
  ASSUME RecordInv, [Next]_vars, NEW d \in Devices, devices'[d].saved # devices[d].saved
  PROVE  /\ devices'[d].saved > devices[d].saved
         /\ \E o \in Ops : /\ ops[o].device = d /\ ops[o].state \in Active
                           /\ \E r \in journal[o] : devices'[d].saved = r.revision
<1>0. OrderInv /\ TypeInv /\ TypeOK /\ QueueInv /\ JournalInv
  BY OrderTypes DEF RecordInv, JournalInv
<1>1. PICK s \in Sessions :
         /\ up[s] # <<>> /\ Head(up[s]).type = "result"
         /\ Head(up[s]).report.kind \in Confirmations
         /\ Head(up[s]).op \in Ops
         /\ ops[Head(up[s]).op].device = d /\ ops[Head(up[s]).op].state \in Active
         /\ devices'[d].saved = Head(up[s]).report.revision
  BY <1>0, RecordSteps
<1> DEFINE o == Head(up[s]).op
<1>2. Head(up[s]) \in Frames(up[s])
  BY <1>0, <1>1, OrderTypes, HeadIsFrame
<1>3. devices'[d].saved # 0 /\ \E r \in journal[o] : devices'[d].saved = r.revision
  BY <1>1, <1>2 DEF RecordInv, FramesOk, ReportOk
<1>4. PICK r \in journal[o] : devices'[d].saved = r.revision
  BY <1>3
<1>5. devices[d].saved \in Nat /\ r.revision \in Nat
  BY <1>0, <1>1 DEF TypeOK, DeviceRow, Report, Revisions
<1>6. CASE devices[d].saved = 0
  BY <1>1, <1>3, <1>4, <1>5, <1>6
<1>7. ASSUME NEW p \in Ops, ops[p].device = d, NEW q \in journal[p],
             devices[d].saved = q.revision
      PROVE  devices'[d].saved > devices[d].saved
  <2>1. ~(o < p)
    <3>1. claimedBy[p] # None
      BY <1>0, <1>7, OldReport DEF QueueInv, TakenIsClaimed
    <3>. QED  BY <1>0, <1>1, <1>7, <3>1
              DEF QueueInv, SettledBeforeNext, SameDevice, Active, Settled
  <2>2. p # o
    BY <1>0, <1>4, <1>7 DEF JournalInv, JournalOnce
  <2>3. q.revision <= r.revision
    <3>1. p < o
      BY <1>1, <2>1, <2>2 DEF Ops
    <3>. QED  BY <1>0, <1>1, <1>3, <1>4, <1>7, <3>1 DEF JournalInv, JournalGrows, SameDevice
  <2>. QED  BY <1>4, <1>5, <1>7, <2>3
<1>8. devices'[d].saved > devices[d].saved
  BY <1>6, <1>7 DEF RecordInv, SavedIsJournalled
<1>. QED  BY <1>1, <1>3, <1>8

LEMMA SavedIsJournalledStep ==
  ASSUME RecordInv, [Next]_vars
  PROVE  SavedIsJournalled'
<1>. SUFFICES ASSUME NEW d \in Devices, devices'[d].saved # 0
              PROVE  \E p \in Ops : /\ ops'[p].device = d
                                    /\ \E r \in journal'[p] : devices'[d].saved = r.revision
  BY DEF SavedIsJournalled
<1>1. PICK p \in Ops : /\ ops[p].device = d
                       /\ \E r \in journal[p] : devices'[d].saved = r.revision
  BY SavedSteps DEF RecordInv, SavedIsJournalled
<1>. QED  BY <1>1, OldReport DEF RecordInv

LEMMA RecordBehindStep ==
  ASSUME RecordInv, [Next]_vars
  PROVE  RecordBehind'
<1>. SUFFICES ASSUME NEW d \in Devices
              PROVE  devices'[d].saved <= revision'[d] /\ devices'[d].snapshot <= revision'[d]
  BY DEF RecordBehind
<1>0. OrderInv /\ TypeInv
  BY OrderTypes DEF RecordInv, JournalInv
<1>1. /\ revision[d] \in Nat /\ revision'[d] \in Nat /\ revision[d] <= revision'[d]
      /\ devices[d].saved \in Nat /\ devices[d].snapshot \in Nat
  BY <1>0, RevisionGrows DEF TypeInv, TypeOK, Revisions, DeviceRow
<1>3. devices[d].saved <= revision[d] /\ devices[d].snapshot <= revision[d]
  BY DEF RecordInv, RecordBehind
<1>4. CASE devices'[d].saved = devices[d].saved /\ devices'[d].snapshot = devices[d].snapshot
  BY <1>1, <1>3, <1>4
<1>5. ASSUME NEW s \in Sessions, up[s] # <<>>, peer[s] = d, Head(up[s]).type = "heartbeat",
             devices'[d].saved = devices[d].saved,
             devices'[d].snapshot = Head(up[s]).revision, UNCHANGED revision
      PROVE  devices'[d].saved <= revision'[d] /\ devices'[d].snapshot <= revision'[d]
  <2>1. Head(up[s]) \in Frames(up[s])
    BY <1>0, <1>5, OrderTypes, HeadIsFrame
  <2>2. Head(up[s]).revision <= revision[d]
    BY <1>5, <2>1 DEF RecordInv, FramesOk
  <2>. QED  BY <1>1, <1>3, <1>5, <2>2
<1>6. ASSUME NEW s \in Sessions, up[s] # <<>>, Head(up[s]).type = "result",
             ops[Head(up[s]).op].device = d,
             devices'[d].saved \in {devices[d].saved, Head(up[s]).report.revision},
             devices'[d].snapshot = Head(up[s]).report.revision, UNCHANGED revision
      PROVE  devices'[d].saved <= revision'[d] /\ devices'[d].snapshot <= revision'[d]
  <2>1. Head(up[s]) \in Frames(up[s])
    BY <1>0, <1>6, OrderTypes, HeadIsFrame
  <2>2. Head(up[s]).report.revision <= revision[d]
    BY <1>6, <2>1 DEF RecordInv, FramesOk, ReportOk
  <2>. QED  BY <1>1, <1>3, <1>6, <2>2
<1>. QED  BY <1>0, <1>4, <1>5, <1>6, RecordSteps

LEMMA SucceededStep ==
  ASSUME RecordInv, [Next]_vars
  PROVE  SucceededPatchRecorded'
<1>. SUFFICES ASSUME NEW o \in Ops, ops'[o].state = "succeeded",
                     ops'[o].command = "patch_config"
              PROVE  \E r \in journal'[o] : /\ r.kind = "config_saved"
                                            /\ devices'[ops'[o].device].saved >= r.revision
  BY DEF SucceededPatchRecorded
<1>0. /\ OrderInv /\ JournalInv /\ TypeInv /\ LineInv /\ TruthInv /\ TypeInv'
      /\ devices \in [Devices -> DeviceRow]
  BY OrderTypes, TypeStep DEF RecordInv, JournalInv, TypeInv, TypeOK
<1>1. CASE ops[o].state = "succeeded"
  <2>1. /\ ops'[o].command = ops[o].command /\ ops'[o].device = ops[o].device
        /\ ops[o].device \in Devices
    BY <1>0, <1>1, CommandKept, Forward, TakenHasDevice DEF Untaken
  <2>2. PICK r \in journal[o] : /\ r.kind = "config_saved"
                                /\ devices[ops[o].device].saved >= r.revision
    BY <1>1, <2>1 DEF RecordInv, SucceededPatchRecorded
  <2>3. devices[ops[o].device].saved \in Nat /\ devices'[ops[o].device].saved \in Nat
        /\ r.revision \in Nat
    BY <1>0, <2>1 DEF TypeInv, TypeOK, DeviceRow, Revisions, Report
  <2>4. devices'[ops[o].device].saved >= r.revision
    BY <2>1, <2>2, <2>3, SavedSteps
  <2>. QED  BY <1>0, <2>1, <2>2, <2>4, OldReport
<1>2. CASE ops[o].state # "succeeded"
  <2>1. PICK s \in Sessions : \E c \in pending[s] :
          /\ c.op = o /\ ops[o].state = "running" /\ up[s] # <<>>
          /\ Head(up[s]).type = "result" /\ Head(up[s]).op = o
          /\ Completable(s, c, Head(up[s]).report) /\ Complete(c, Head(up[s]).report)
          /\ ops'[o].state = Outcome(Head(up[s]).report)
    BY <1>0, <1>2, OutcomeSteps
  <2> DEFINE r == Head(up[s]).report
             d == ops[o].device
  <2>2. /\ ops[o].state = "running" /\ Head(up[s]).op = o
        /\ up[s] # <<>> /\ Head(up[s]).type = "result"
        /\ ValidReport(ops[o].command, r)
        /\ devices' = [devices EXCEPT ![d] = Recorded(@, r)]
        /\ Outcome(r) = "succeeded"
    BY <2>1 DEF Completable, Complete
  <2>3. ops[o].command = "patch_config" /\ ops'[o].device = d /\ d \in Devices
    BY <1>0, <2>2, CommandKept, Forward, TakenHasDevice DEF Untaken
  <2>4. r.kind \in Confirmations
    BY <2>2 DEF Outcome
  <2>5. r.kind = "config_saved"
    BY <2>2, <2>3, <2>4 DEF ValidReport, Confirmation
  <2>6. Head(up[s]) \in Frames(up[s])
    BY <1>0, <2>2, OrderTypes, HeadIsFrame
  <2>7. r \in journal[o]
    BY <1>0, <2>2, <2>6 DEF TruthInv, Said, SaidOk, Past, Settled
  <2>8. devices'[d].saved = r.revision /\ r.revision \in Nat
    BY <1>0, <2>2, <2>3, <2>5, <2>7
    DEF Recorded, DeviceRow, TypeInv, TypeOK, Report, Revisions
  <2>. QED  BY <1>0, <2>3, <2>5, <2>7, <2>8, OldReport
<1>. QED  BY <1>1, <1>2

LEMMA RecordStep == RecordInv /\ [Next]_vars => RecordInv'
  BY JournalStep, FramesOkStep, RecordBehindStep, SavedIsJournalledStep, SucceededStep
  DEF RecordInv

\* The inductive invariant of reports and records, under edits at the devices: a Client's
\* journal has one report of an operation, of revisions that grow in the order of the
\* queue, and what is under way, recorded and saved is of that journal or of the past.
THEOREM RecordInvariant == Spec => []RecordInv
  BY RecordInit, RecordStep, PTL DEF Spec

\* complete: the state and the devices row are written in one transaction, and no later
\* one takes the saved revision back, so that a patch that succeeded is the device's
\* saved configuration or was overtaken as such.
THEOREM SucceededPatchesRecorded == Spec => []SucceededPatchRecorded
<1>1. RecordInv => SucceededPatchRecorded
  BY DEF RecordInv
<1>. QED  BY <1>1, RecordInvariant, PTL

\* What the Manager records of a device never runs ahead of the device.
THEOREM RecordStaysBehind == Spec => []RecordBehind
<1>1. RecordInv => RecordBehind
  BY DEF RecordInv
<1>. QED  BY <1>1, RecordInvariant, PTL

\* complete: a report is evidence on an operation that is still unknown, and the saved
\* revision moves only forward, to what the journal has of an operation not settled,
\* whatever was edited at the device since.
THEOREM EvidenceOnUnknown == Spec => EvidenceIsNotVerdict
<1>1. ASSUME RecordInv, [Next]_vars
      PROVE  /\ \A o \in observed' \ observed :
                   ops[o].state = "unknown" /\ ops'[o].state = "unknown"
             /\ \A d \in Devices : devices'[d].saved # devices[d].saved =>
                   /\ devices'[d].saved > devices[d].saved
                   /\ \E o \in Ops :
                         /\ ops[o].device = d /\ ops[o].state \in Active
                         /\ \E r \in journal[o] : devices'[d].saved = r.revision
  BY <1>1, OrderTypes, EvidenceSteps, SavedSteps DEF RecordInv, JournalInv
<1>2. RecordInv /\ [Next]_vars =>
        [/\ \A o \in observed' \ observed :
               ops[o].state = "unknown" /\ ops'[o].state = "unknown"
         /\ \A d \in Devices : devices'[d].saved # devices[d].saved =>
               /\ devices'[d].saved > devices[d].saved
               /\ \E o \in Ops :
                     /\ ops[o].device = d /\ ops[o].state \in Active
                     /\ \E r \in journal[o] : devices'[d].saved = r.revision
        ]_<<ops, observed, devices>>
  BY <1>1
<1>. QED  BY <1>2, RecordInvariant, PTL DEF Spec, EvidenceIsNotVerdict

\* serve_client's heartbeat and complete: the record of a device is changed by what its
\* current session hands over, as it was the current one when the frame was received and
\* still is when the row is written.
THEOREM RecordsAreCurrent == Spec => CurrentSessionRecords
<1>1. ASSUME RecordInv, [Next]_vars, NEW d \in Devices
      PROVE  \/ /\ devices'[d].snapshot = devices[d].snapshot
                /\ devices'[d].saved = devices[d].saved
             \/ \E s \in Sessions : /\ peer[s] = d
                                    /\ IsCurrent(s)
                                    /\ TakesIn(s, devices'[d].snapshot)
  <2>0. RouteInv /\ TypeInv /\ \A s \in Sessions : up[s] \in Seq(Message)
    BY <1>1, OrderTypes DEF RecordInv, JournalInv
  <2>1. ASSUME NEW s \in Sessions, up[s] # <<>>, Head(up[s]).type = "result"
        PROVE  ops[Head(up[s]).op].device = peer[s] /\ Head(up[s]).type # "heartbeat"
    BY <2>0, <2>1, HeadIsFrame DEF RouteInv, Addressed
  <2>. QED  BY <1>1, <2>0, <2>1, RecordSteps DEF TakesIn, Value
<1>2. RecordInv /\ [Next]_vars =>
        [\A d \in Devices :
            \/ /\ devices'[d].snapshot = devices[d].snapshot
               /\ devices'[d].saved = devices[d].saved
            \/ \E s \in Sessions : /\ peer[s] = d
                                   /\ IsCurrent(s)
                                   /\ TakesIn(s, devices'[d].snapshot)]_devices
  BY <1>1
<1>. QED  BY <1>2, RecordInvariant, PTL DEF Spec, CurrentSessionRecords
==============================================================================
