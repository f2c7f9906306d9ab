------------------------- MODULE DeviceRegistry_proofs -------------------------
(***************************************************************************)
(* The registry's promises, for any sets of devices, Clients, keys and     *)
(* commands.  RegistryInv says how the row, the histories and the queued   *)
(* operations of a device determine each other; each promise is a reading  *)
(* of it.                                                                  *)
(***************************************************************************)
EXTENDS DeviceRegistry, TLAPS

\* A row's columns agree with each other and with what was answered about it.
RowInv(d) ==
    /\ bound[d] = IF rows[d].installation = None THEN {} ELSE {rows[d].installation}
    /\ rows[d].credential = IF rows[d].revoked THEN None ELSE rows[d].installation
    /\ d \in cancelled =>
          rows[d].exists /\ ~rows[d].offered /\ rows[d].installation = None
    /\ ~rows[d].exists => rows[d] = Missing

\* An operation is under one digest, and a digest has one operation.
SingleTasks ==
    \A t, u \in tasks :
        \/ t.operation = u.operation
        \/ t.device = u.device /\ t.key = u.key /\ t.command.action = u.command.action
        => t = u

\* Every answer names a queued operation that was made of the intent.
AnswersQueued ==
    \A i \in Intents : \A o \in answers[i] : \E t \in tasks :
        /\ t.operation = o
        /\ t.device = i.device /\ t.key = i.key /\ t.command = i.command

RegistryInv ==
    /\ TypeOK
    /\ \A d \in Devices : RowInv(d)
    /\ TaskForItsInstallation
    /\ SingleTasks
    /\ AnswersQueued

LEMMA InitRegistry == Init => RegistryInv
BY RegistryAssumption
   DEF Init, RegistryInv, TypeOK, RowInv, TaskForItsInstallation, SingleTasks,
       AnswersQueued, Missing, DeviceRow, Intents

\* A step that changes at most the row of one device, which keeps its installation
\* if it has one, leaves the other parts of the invariant alone.
LEMMA OneRow ==
  ASSUME RegistryInv, NEW d \in Devices, NEW row \in DeviceRow,
         rows' = [rows EXCEPT ![d] = row],
         rows[d].installation # None => row.installation = rows[d].installation,
         bound' \in [Devices -> SUBSET Clients], cancelled' \subseteq Devices,
         \A e \in Devices : e # d => bound'[e] = bound[e] /\ (e \in cancelled' <=> e \in cancelled),
         RowInv(d)', UNCHANGED <<tasks, answers, refused>>
  PROVE  RegistryInv'
<1>1. TypeOK'
  BY DEF RegistryInv, TypeOK
<1>2. \A e \in Devices : e # d => rows'[e] = rows[e]
  BY DEF RegistryInv, TypeOK
<1>3. rows'[d] = row
  BY DEF RegistryInv, TypeOK
<1>4. ASSUME NEW e \in Devices  PROVE RowInv(e)'
  <2>1. CASE e = d
    BY <2>1
  <2>2. CASE e # d
    <3>1. RowInv(e)
      BY DEF RegistryInv
    <3>. QED  BY <3>1, <1>2, <2>2 DEF RowInv
  <2>. QED  BY <2>1, <2>2
<1>5. TaskForItsInstallation'
  <2>. SUFFICES ASSUME NEW t \in tasks
                PROVE  rows'[t.device].installation = t.installation
    BY DEF TaskForItsInstallation
  <2>1. t.device \in Devices /\ t.installation \in Clients
    BY DEF RegistryInv, TypeOK, TaskRow
  <2>2. rows[t.device].installation = t.installation
    BY DEF RegistryInv, TaskForItsInstallation
  <2>. QED  BY <2>1, <2>2, <1>2, <1>3, RegistryAssumption
<1>6. SingleTasks' /\ AnswersQueued'
  BY DEF RegistryInv, SingleTasks, AnswersQueued
<1>. QED  BY <1>1, <1>4, <1>5, <1>6 DEF RegistryInv

LEMMA AdministratorKeeps == RegistryInv /\ AdministratorStep => RegistryInv'
<1>. SUFFICES ASSUME RegistryInv, NEW d \in Devices,
                     CreateDevice(d) \/ CancelPairing(d) \/ Revoke(d)
              PROVE  RegistryInv'
  BY DEF AdministratorStep
<1>. USE RegistryAssumption
<1>1. rows[d] \in DeviceRow /\ RowInv(d)
  BY DEF RegistryInv, TypeOK
<1>2. CASE CreateDevice(d)
  <2>. DEFINE row == [rows[d] EXCEPT !.exists = TRUE, !.offered = TRUE]
  <2>1. /\ rows' = [rows EXCEPT ![d] = row] /\ row \in DeviceRow
        /\ row.installation = rows[d].installation
        /\ rows'[d] = row
    BY <1>1, <1>2 DEF CreateDevice, DeviceRow, RegistryInv, TypeOK
  <2>2. RowInv(d)'
    BY <1>1, <1>2, <2>1 DEF CreateDevice, RowInv, historyVars, DeviceRow
  <2>. QED  BY <1>2, <2>1, <2>2, OneRow DEF CreateDevice, historyVars, RegistryInv, TypeOK
<1>3. CASE CancelPairing(d)
  <2>. DEFINE row == [rows[d] EXCEPT !.offered = FALSE]
  <2>1. /\ rows' = [rows EXCEPT ![d] = row] /\ row \in DeviceRow
        /\ row.installation = rows[d].installation
        /\ rows'[d] = row
    BY <1>1, <1>3 DEF CancelPairing, DeviceRow, RegistryInv, TypeOK
  <2>2. RowInv(d)'
    BY <1>1, <1>3, <2>1 DEF CancelPairing, RowInv, DeviceRow
  <2>. QED  BY <1>3, <2>1, <2>2, OneRow DEF CancelPairing, RegistryInv, TypeOK
<1>4. CASE Revoke(d)
  <2>. DEFINE row == [rows[d] EXCEPT !.revoked = TRUE, !.credential = None,
                                     !.offered = FALSE]
  <2>1. /\ rows' = [rows EXCEPT ![d] = row] /\ row \in DeviceRow
        /\ row.installation = rows[d].installation
        /\ rows'[d] = row
    BY <1>1, <1>4 DEF Revoke, DeviceRow, RegistryInv, TypeOK
  <2>2. RowInv(d)'
    BY <1>1, <1>4, <2>1 DEF Revoke, RowInv, historyVars, DeviceRow
  <2>. QED  BY <1>4, <2>1, <2>2, OneRow DEF Revoke, historyVars, RegistryInv, TypeOK
<1>. QED  BY <1>2, <1>3, <1>4

LEMMA PairingKeeps == RegistryInv /\ PairingStep => RegistryInv'
<1>. SUFFICES ASSUME RegistryInv, NEW c \in Clients, NEW d \in Devices, Enroll(c, d)
              PROVE  RegistryInv'
  BY DEF PairingStep
<1>. USE RegistryAssumption
<1>1. rows[d] \in DeviceRow /\ RowInv(d) /\ bound \in [Devices -> SUBSET Clients]
  BY DEF RegistryInv, TypeOK
<1>. DEFINE row == [rows[d] EXCEPT !.installation = c, !.credential = c,
                                   !.offered = FALSE]
<1>2. /\ rows' = [rows EXCEPT ![d] = row] /\ row \in DeviceRow
      /\ rows'[d] = row
      /\ rows[d].installation = None
  BY <1>1 DEF Enroll, Pairable, DeviceRow, RegistryInv, TypeOK
<1>3. /\ bound'[d] = {c}
      /\ \A e \in Devices : e # d => bound'[e] = bound[e]
      /\ bound' \in [Devices -> SUBSET Clients]
  BY <1>1, <1>2 DEF Enroll, RowInv
<1>4. RowInv(d)'
  <2>1. /\ row.installation = c /\ row.credential = c
        /\ row.exists /\ ~row.revoked
    BY <1>1 DEF Enroll, Pairable, DeviceRow
  <2>2. d \notin cancelled'
    BY <1>1 DEF Enroll, Pairable, RowInv
  <2>3. c # None
    OBVIOUS
  <2>. HIDE DEF row
  <2>. QED  BY <1>2, <1>3, <2>1, <2>2, <2>3 DEF RowInv
<1>. QED  BY <1>2, <1>3, <1>4, OneRow DEF Enroll, RegistryInv, TypeOK

LEMMA IntakeKeeps == RegistryInv /\ IntakeStep => RegistryInv'
<1>. SUFFICES ASSUME RegistryInv, NEW i \in Intents,
                     Enqueue(i) \/ EnqueueAgain(i) \/ Refuse(i)
              PROVE  RegistryInv'
  BY DEF IntakeStep
<1>. USE RegistryAssumption
<1>0. i.device \in Devices /\ i.key \in Keys /\ i.command \in Commands
  BY DEF Intents
<1>1. CASE Enqueue(i)
  <2>1. PICK o \in Operations :
          /\ \A t \in tasks : t.operation # o
          /\ tasks' = tasks \cup {[operation |-> o, device |-> i.device, key |-> i.key,
                                   command |-> i.command,
                                   installation |-> rows[i.device].installation]}
          /\ answers' = [answers EXCEPT ![i] = @ \cup {o}]
    BY <1>1 DEF Enqueue, Accept
  <2>. DEFINE new == [operation |-> o, device |-> i.device, key |-> i.key,
                      command |-> i.command,
                      installation |-> rows[i.device].installation]
  <2>2. new \in TaskRow
    BY <1>0, <1>1 DEF Enqueue, Open, TaskRow, RegistryInv, TypeOK, DeviceRow
  <2>3. TypeOK'
    BY <1>1, <2>1, <2>2 DEF Enqueue, RegistryInv, TypeOK
  <2>4. \A d \in Devices : RowInv(d)'
    BY <1>1 DEF Enqueue, RegistryInv, RowInv
  <2>5. TaskForItsInstallation'
    BY <1>1, <2>1 DEF Enqueue, RegistryInv, TaskForItsInstallation
  <2>6. SingleTasks'
    BY <1>1, <2>1 DEF Enqueue, Under, RegistryInv, SingleTasks
  <2>7. AnswersQueued'
    <3>. SUFFICES ASSUME NEW j \in Intents, NEW p \in answers'[j]
                  PROVE  \E t \in tasks' : /\ t.operation = p
                                           /\ t.device = j.device /\ t.key = j.key
                                           /\ t.command = j.command
      BY DEF AnswersQueued
    <3>1. p \in answers[j] \/ (j = i /\ p = o)
      BY <2>1 DEF RegistryInv, TypeOK
    <3>2. CASE p \in answers[j]
      BY <3>2, <2>1 DEF RegistryInv, AnswersQueued
    <3>3. CASE j = i /\ p = o
      <4>1. new \in tasks'
        BY <2>1
      <4>2. /\ new.operation = o /\ new.device = i.device
            /\ new.key = i.key /\ new.command = i.command
        OBVIOUS
      <4>. HIDE DEF new
      <4>. QED  BY <3>3, <4>1, <4>2
    <3>. QED  BY <3>1, <3>2, <3>3
  <2>. QED  BY <2>3, <2>4, <2>5, <2>6, <2>7 DEF RegistryInv
<1>2. CASE EnqueueAgain(i)
  <2>1. PICK t \in Under(i) : /\ SameRequest(t, i)
                              /\ answers' = [answers EXCEPT ![i] = @ \cup {t.operation}]
    BY <1>2 DEF EnqueueAgain, Accept
  <2>2. /\ t \in tasks /\ t.operation \in Operations
        /\ t.device = i.device /\ t.key = i.key /\ t.command = i.command
    BY <2>1 DEF Under, SameRequest, RegistryInv, TypeOK, TaskRow
  <2>3. TypeOK'
    BY <1>2, <2>1, <2>2 DEF EnqueueAgain, RegistryInv, TypeOK
  <2>4. /\ \A d \in Devices : RowInv(d)'
        /\ TaskForItsInstallation' /\ SingleTasks'
    BY <1>2 DEF EnqueueAgain, RegistryInv, RowInv, TaskForItsInstallation, SingleTasks
  <2>5. AnswersQueued'
    <3>. SUFFICES ASSUME NEW j \in Intents, NEW p \in answers'[j]
                  PROVE  \E u \in tasks : /\ u.operation = p
                                          /\ u.device = j.device /\ u.key = j.key
                                          /\ u.command = j.command
      BY <1>2 DEF EnqueueAgain, AnswersQueued
    <3>1. p \in answers[j] \/ (j = i /\ p = t.operation)
      BY <2>1 DEF RegistryInv, TypeOK
    <3>. QED  BY <3>1, <2>2 DEF RegistryInv, AnswersQueued
  <2>. QED  BY <2>3, <2>4, <2>5 DEF RegistryInv
<1>3. CASE Refuse(i)
  BY <1>3 DEF Refuse, RegistryInv, TypeOK, RowInv, TaskForItsInstallation, SingleTasks,
              AnswersQueued
<1>. QED  BY <1>1, <1>2, <1>3

\* How rows, histories, operations and answers determine each other, always.
THEOREM RegistryInvariant == Spec => []RegistryInv
<1>1. RegistryInv /\ UNCHANGED vars => RegistryInv'
  BY DEF vars, historyVars, RegistryInv, TypeOK, RowInv, TaskForItsInstallation,
         SingleTasks, AnswersQueued
<1>2. RegistryInv /\ [Next]_vars => RegistryInv'
  BY <1>1, AdministratorKeeps, PairingKeeps, IntakeKeeps DEF Next
<1>. QED  BY InitRegistry, <1>2, PTL DEF Spec

\* The types of rows, requests and histories.
THEOREM TypeCorrect == Spec => []TypeOK
BY RegistryInvariant, PTL DEF RegistryInv

\* A pairing code never binds two Clients.
THEOREM OneClient == Spec => []OneClientPerCode
<1>1. RegistryInv => OneClientPerCode
  BY DEF RegistryInv, RowInv, OneClientPerCode
<1>. QED  BY <1>1, RegistryInvariant, PTL

\* No Client is bound to a device whose pairing was cancelled.
THEOREM CancelOrEnroll == Spec => []CancelExcludesEnroll
<1>1. RegistryInv => CancelExcludesEnroll
  BY DEF RegistryInv, TypeOK, RowInv, CancelExcludesEnroll
<1>. QED  BY <1>1, RegistryInvariant, PTL

\* The Client that enrolled, and no other, authenticates until the revocation.
THEOREM BindingKept == Spec => []BindingLasts
<1>1. RegistryInv => BindingLasts
  <2>. SUFFICES ASSUME RegistryInv, NEW d \in Devices, NEW c \in Clients
                PROVE  Authenticates(c, d) <=> c \in bound[d] /\ ~rows[d].revoked
    BY DEF BindingLasts
  <2>1. RowInv(d) /\ c # None
    BY RegistryAssumption DEF RegistryInv
  <2>. QED  BY <2>1 DEF RowInv, Authenticates
<1>. QED  BY <1>1, RegistryInvariant, PTL

\* An operation is for the installation that its device has, always.
THEOREM TaskKept == Spec => []TaskForItsInstallation
BY RegistryInvariant, PTL DEF RegistryInv

\* Repeating a request never queues a second operation, and no operation answers
\* for two intents.
THEOREM OneOperation == Spec => []OneOperationPerIntent
<1>1. RegistryInv => OneOperationPerIntent
  <2>. SUFFICES ASSUME RegistryInv  PROVE OneOperationPerIntent
    OBVIOUS
  <2>1. ASSUME NEW i \in Intents, NEW o \in answers[i], NEW p \in answers[i]
        PROVE  o = p
    <3>1. PICK t \in tasks : /\ t.operation = o
                             /\ t.device = i.device /\ t.key = i.key /\ t.command = i.command
      BY DEF RegistryInv, AnswersQueued
    <3>2. PICK u \in tasks : /\ u.operation = p
                             /\ u.device = i.device /\ u.key = i.key /\ u.command = i.command
      BY DEF RegistryInv, AnswersQueued
    <3>. QED  BY <3>1, <3>2 DEF RegistryInv, SingleTasks
  <2>2. ASSUME NEW i \in Intents, NEW j \in Intents, answers[i] \cap answers[j] # {}
        PROVE  i = j
    <3>1. PICK o \in answers[i] : o \in answers[j]
      BY <2>2
    <3>2. PICK t \in tasks : /\ t.operation = o
                             /\ t.device = i.device /\ t.key = i.key /\ t.command = i.command
      BY DEF RegistryInv, AnswersQueued
    <3>3. PICK u \in tasks : /\ u.operation = o
                             /\ u.device = j.device /\ u.key = j.key /\ u.command = j.command
      BY <3>1 DEF RegistryInv, AnswersQueued
    <3>4. t = u
      BY <3>2, <3>3 DEF RegistryInv, SingleTasks
    <3>. QED  BY <3>2, <3>3, <3>4 DEF Intents
  <2>. QED  BY <2>1, <2>2 DEF OneOperationPerIntent
<1>. QED  BY <1>1, RegistryInvariant, PTL
==============================================================================
