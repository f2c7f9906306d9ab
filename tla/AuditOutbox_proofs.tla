--------------------------- MODULE AuditOutbox_proofs ---------------------------
(***************************************************************************)
(* What the audit log promises, for any operations and any size of a batch. *)
(* While the clock only moves on, events have increasing times, so that    *)
(* every batch is a lower part of what is undelivered and the log is the   *)
(* outbox's own order: InOrder.                                            *)
(***************************************************************************)
EXTENDS AuditOutbox, FiniteSetTheorems, TLAPS

EventRow == [op : Ops, from : States, to : States, time : Nat]

\* The outbox is in the order of time, and so is what was read and logged of it.
InOrder ==
    ~setBack =>
        /\ \A n \in DOMAIN events : events[n].time < clock
        /\ \A m, n \in DOMAIN events : m < n => events[m].time < events[n].time
        /\ \A n \in batch, m \in DOMAIN events :
              m < n /\ m \notin marked => m \in batch
        /\ \A n \in marked, m \in DOMAIN events : m < n => m \in marked
        /\ \A i, j \in DOMAIN log : i < j => log[i] < log[j]

AuditInv ==
    /\ TypeOK
    /\ LoggedOnce
    /\ VerdictHasAuthor
    /\ batch \cap marked = {}
    /\ InOrder

LEMMA EventTimes ==
    ASSUME events \in Seq(EventRow)
    PROVE  \A n \in DOMAIN events : events[n].time \in Nat
<1>. SUFFICES ASSUME NEW n \in DOMAIN events PROVE events[n].time \in Nat
  OBVIOUS
<1>1. events[n] \in EventRow
  OBVIOUS
<1>. QED  BY <1>1 DEF EventRow

LEMMA VerdictsFinite ==
    ASSUME NEW o \in Ops, events \in Seq(EventRow)
    PROVE  IsFiniteSet(Verdicts(o))
<1>1. IsFiniteSet(DOMAIN events)
  <2>1. DOMAIN events = 1 .. Len(events) /\ Len(events) \in Nat
    OBVIOUS
  <2>. QED  BY <2>1, FS_Interval
<1>2. Verdicts(o) \subseteq DOMAIN events
  BY DEF Verdicts
<1>. QED  BY <1>1, <1>2, FS_Subset

LEMMA InitAudit == Init => AuditInv
<1>. SUFFICES ASSUME Init PROVE AuditInv
  OBVIOUS
<1>1. events = <<>> /\ DOMAIN events = {} /\ DOMAIN log = {}
  BY DEF Init
<1>2. Cardinality({}) = 0
  BY FS_EmptySet
<1>3. TypeOK
  <2>1. events \in Seq(EventRow) /\ log \in Seq(DOMAIN events)
    BY DEF Init
  <2>2. Cardinality(batch) <= BatchSize
    BY <1>2, OutboxAssumption DEF Init
  <2>. QED  BY <2>1, <2>2 DEF Init, TypeOK, States, EventRow
<1>4. LoggedOnce
  BY <1>1 DEF Init, LoggedOnce, Logged
<1>5. VerdictHasAuthor
  <2>1. ASSUME NEW o \in Ops  PROVE Verdicts(o) = {}
    BY <1>1 DEF Verdicts
  <2>. QED  BY <2>1, <1>2 DEF Init, VerdictHasAuthor
<1>6. InOrder /\ batch \cap marked = {}
  BY <1>1 DEF Init, InOrder
<1>. QED  BY <1>3, <1>4, <1>5, <1>6 DEF AuditInv

\* What a transition does to the outbox and its readers.
LEMMA MoveKeeps ==
    ASSUME AuditInv, NEW o \in Ops, NEW to \in States, Move(o, to), UNCHANGED <<batch, marked, log>>
    PROVE  /\ events' \in Seq(EventRow) /\ DOMAIN events \subseteq DOMAIN events'
           /\ state' \in [Ops -> States] /\ clock' \in Nat
           /\ LoggedOnce' /\ InOrder'
           /\ \A p \in Ops :
                Cardinality(Verdicts(p))' =
                  IF p = o /\ to \in {"resolved", "dead_letter"}
                  THEN Cardinality(Verdicts(p)) + 1 ELSE Cardinality(Verdicts(p))
<1>. DEFINE n0 == Len(events) + 1
            row == [op |-> o, from |-> state[o], to |-> to, time |-> clock]
<1>1. /\ events \in Seq(EventRow) /\ state \in [Ops -> States] /\ clock \in Nat
      /\ batch \subseteq DOMAIN events /\ marked \subseteq DOMAIN events
      /\ log \in Seq(DOMAIN events)
  BY DEF AuditInv, TypeOK, EventRow
<1>2. row \in EventRow
  BY <1>1 DEF EventRow
<1>3. /\ events' \in Seq(EventRow) /\ Len(events') = n0 /\ n0 \in Nat
      /\ DOMAIN events = 1 .. Len(events) /\ DOMAIN events' = 1 .. n0
      /\ \A n \in DOMAIN events : events'[n] = events[n]
      /\ events'[n0] = row
  BY <1>1, <1>2 DEF Move
<1>4. state' \in [Ops -> States] /\ clock' \in Nat /\ clock' = clock + 1 /\ setBack' = setBack
  BY <1>1 DEF Move
<1>5. LoggedOnce'
  BY DEF AuditInv, LoggedOnce, Logged
<1>6. InOrder'
  <2>. SUFFICES ASSUME ~setBack PROVE InOrder'
    BY <1>4 DEF InOrder
  <2>1. /\ \A n \in DOMAIN events : events[n].time < clock
        /\ \A m, n \in DOMAIN events : m < n => events[m].time < events[n].time
        /\ \A n \in batch, m \in DOMAIN events : m < n /\ m \notin marked => m \in batch
        /\ \A n \in marked, m \in DOMAIN events : m < n => m \in marked
        /\ \A i, j \in DOMAIN log : i < j => log[i] < log[j]
    BY DEF AuditInv, InOrder
  <2>2. \A n \in DOMAIN events : events[n].time \in Nat
    BY <1>1, EventTimes
  <2>3. \A n \in DOMAIN events' : n \in DOMAIN events \/ n = n0
    BY <1>3
  <2>4. \A n \in DOMAIN events' : events'[n].time < clock'
    BY <1>1, <1>3, <1>4, <2>1, <2>2, <2>3
  <2>5. \A m, n \in DOMAIN events' : m < n => events'[m].time < events'[n].time
    <3>. SUFFICES ASSUME NEW m \in DOMAIN events', NEW n \in DOMAIN events', m < n
                  PROVE  events'[m].time < events'[n].time
      OBVIOUS
    <3>1. m \in DOMAIN events
      BY <1>1, <1>3
    <3>. QED  BY <1>3, <2>1, <2>3, <3>1
  <2>6. \A n \in DOMAIN events, m \in DOMAIN events' : m < n => m \in DOMAIN events
    BY <1>1, <1>3
  <2>7. \A n \in batch, m \in DOMAIN events' : m < n /\ m \notin marked => m \in batch
    BY <1>1, <2>1, <2>6
  <2>8. \A n \in marked, m \in DOMAIN events' : m < n => m \in marked
    BY <1>1, <2>1, <2>6
  <2>. QED  BY <2>1, <2>4, <2>5, <2>7, <2>8 DEF InOrder
<1>7. ASSUME NEW p \in Ops
      PROVE  Cardinality(Verdicts(p))' =
                  IF p = o /\ to \in {"resolved", "dead_letter"}
                  THEN Cardinality(Verdicts(p)) + 1 ELSE Cardinality(Verdicts(p))
  <2>1. IsFiniteSet(Verdicts(p)) /\ n0 \notin Verdicts(p)
    BY <1>1, <1>3, VerdictsFinite DEF Verdicts
  <2>2. CASE p = o /\ to \in {"resolved", "dead_letter"}
    <3>1. Verdicts(p)' = Verdicts(p) \cup {n0}
      BY <1>3, <2>2 DEF Verdicts
    <3>. QED  BY <2>1, <2>2, <3>1, FS_AddElement
  <2>3. CASE ~(p = o /\ to \in {"resolved", "dead_letter"})
    <3>1. Verdicts(p)' = Verdicts(p)
      BY <1>3, <2>3 DEF Verdicts
    <3>. QED  BY <2>3, <3>1
  <2>. QED  BY <2>2, <2>3
<1>. QED  BY <1>3, <1>4, <1>5, <1>6, <1>7

LEMMA TypeAfterMove ==
    ASSUME TypeOK, NEW o \in Ops, NEW to \in States, Move(o, to),
           UNCHANGED <<at, initial, batch, marked, log>>, authored' \in [Ops -> Nat],
           events' \in Seq(EventRow), DOMAIN events \subseteq DOMAIN events',
           state' \in [Ops -> States], clock' \in Nat
    PROVE  TypeOK'
<1>1. log' \in Seq(DOMAIN events')
  <2>1. log \in Seq(DOMAIN events)
    BY DEF TypeOK
  <2>. QED  BY <2>1
<1>2. created' = created /\ setBack' = setBack
  BY DEF Move
<1>. QED  BY <1>1, <1>2 DEF TypeOK, EventRow

\* A transition that no human asked for.
LEMMA MoveByMachine ==
    ASSUME AuditInv, NEW o \in Ops, NEW to \in {"running", "succeeded", "unknown"},
           Move(o, to), UNCHANGED <<at, initial, batch, marked, log, authored>>
    PROVE  AuditInv'
<1>1. to \in States
  BY DEF States
<1>2. TypeOK /\ VerdictHasAuthor /\ authored \in [Ops -> Nat]
  BY DEF AuditInv, TypeOK
<1>3. /\ events' \in Seq(EventRow) /\ DOMAIN events \subseteq DOMAIN events'
      /\ state' \in [Ops -> States] /\ clock' \in Nat
      /\ LoggedOnce' /\ InOrder'
      /\ \A p \in Ops : Cardinality(Verdicts(p))' = Cardinality(Verdicts(p))
  BY <1>1, MoveKeeps
<1>4. TypeOK'
  BY <1>1, <1>2, <1>3, TypeAfterMove
<1>5. VerdictHasAuthor'
  BY <1>2, <1>3 DEF VerdictHasAuthor
<1>. QED  BY <1>3, <1>4, <1>5 DEF AuditInv

LEMMA RequestKeeps ==
    ASSUME AuditInv, NEW o \in Ops, Request(o)
    PROVE  AuditInv'
<1>. USE DEF processVars, clockVars, tableVars, logVars
<1>1. TypeOK /\ VerdictHasAuthor /\ authored \in [Ops -> Nat] /\ events \in Seq(EventRow)
  BY DEF AuditInv, TypeOK, EventRow
<1>2. CASE Enqueue(o)
  <2>1. TypeOK'
    BY <1>1, <1>2 DEF Enqueue, TypeOK, States
  <2>2. LoggedOnce' /\ (batch \cap marked = {})'
    BY <1>2 DEF Enqueue, AuditInv, LoggedOnce, Logged
  <2>3. VerdictHasAuthor'
    BY <1>1, <1>2 DEF Enqueue, VerdictHasAuthor, Verdicts
  <2>4. InOrder'
    <3>1. clock \in Nat /\ clock' = clock + 1 /\ \A n \in DOMAIN events : events[n].time \in Nat
      BY <1>1, <1>2, EventTimes DEF Enqueue, TypeOK
    <3>2. UNCHANGED <<setBack, events, batch, marked, log>>
      BY <1>2 DEF Enqueue
    <3>. QED  BY <3>1, <3>2 DEF AuditInv, InOrder
  <2>. QED  BY <2>1, <2>2, <2>3, <2>4 DEF AuditInv
<1>3. CASE Progress(o)
  <2>1. PICK to \in {"running", "succeeded", "unknown"} : Move(o, to)
    BY <1>3 DEF Progress
  <2>2. UNCHANGED <<at, initial, batch, marked, log, authored>>
    BY <1>3 DEF Progress
  <2>. QED  BY <1>1, <2>1, <2>2, MoveByMachine
<1>4. CASE Resolve(o)
  <2>1. PICK to \in {"resolved", "dead_letter"} : Move(o, to)
    BY <1>4 DEF Resolve
  <2>2. /\ UNCHANGED <<at, initial, batch, marked, log>>
        /\ authored' = [authored EXCEPT ![o] = @ + 1]
    BY <1>4 DEF Resolve
  <2>3. to \in States
    BY DEF States
  <2>4. /\ events' \in Seq(EventRow) /\ DOMAIN events \subseteq DOMAIN events'
        /\ state' \in [Ops -> States] /\ clock' \in Nat
        /\ LoggedOnce' /\ InOrder'
        /\ \A p \in Ops : Cardinality(Verdicts(p))' =
              IF p = o THEN Cardinality(Verdicts(p)) + 1 ELSE Cardinality(Verdicts(p))
    BY <2>1, <2>2, <2>3, MoveKeeps
  <2>5. TypeOK'
    <3>1. authored' \in [Ops -> Nat]
      BY <1>1, <2>2
    <3>. QED  BY <1>1, <2>1, <2>2, <2>3, <2>4, <3>1, TypeAfterMove
  <2>6. VerdictHasAuthor'
    BY <1>1, <2>2, <2>4 DEF VerdictHasAuthor
  <2>. QED  BY <2>2, <2>4, <2>5, <2>6 DEF AuditInv
<1>. QED  BY <1>2, <1>3, <1>4 DEF Request

LEMMA StepKeeps == AuditInv /\ [Next]_vars => AuditInv'
<1>. SUFFICES ASSUME AuditInv, [Next]_vars PROVE AuditInv'
  OBVIOUS
<1>. USE DEF processVars, clockVars, tableVars, logVars
<1>0. /\ TypeOK /\ LoggedOnce /\ VerdictHasAuthor /\ InOrder
      /\ events \in Seq(EventRow) /\ log \in Seq(DOMAIN events) /\ clock \in Nat
      /\ batch \subseteq DOMAIN events /\ marked \subseteq DOMAIN events
  BY DEF AuditInv, TypeOK, EventRow
<1>1. ASSUME NEW o \in Ops, Request(o)  PROVE AuditInv'
  BY <1>1, RequestKeeps
<1>2. ASSUME NEW o \in Ops, RecoverRunning(o) \/ Expire(o)  PROVE AuditInv'
  <2>1. Move(o, "unknown") /\ UNCHANGED <<at, initial, batch, marked, log, authored>>
    BY <1>2 DEF RecoverRunning, Expire
  <2>. QED  BY <2>1, MoveByMachine
<1>3. ASSUME UNCHANGED <<setBack, clock, state, created, events, marked, log, authored>>,
             at' \in {"down", "recovering", "reading", "delivering", "expiring"},
             initial' \in BOOLEAN, batch' \in {batch, {}}
      PROVE  AuditInv'
  <2>1. Cardinality(batch') <= BatchSize
    <3>1. Cardinality({}) = 0 /\ 0 <= BatchSize
      BY FS_EmptySet, OutboxAssumption
    <3>. QED  BY <1>3, <1>0, <3>1 DEF TypeOK
  <2>2. TypeOK'
    BY <1>3, <1>0, <2>1 DEF TypeOK
  <2>3. LoggedOnce' /\ (batch \cap marked = {})'
    BY <1>3 DEF AuditInv, LoggedOnce, Logged
  <2>4. VerdictHasAuthor'
    BY <1>0, <1>3 DEF VerdictHasAuthor, Verdicts
  <2>5. InOrder'
    BY <1>3, <1>0 DEF InOrder
  <2>. QED  BY <2>2, <2>3, <2>4, <2>5 DEF AuditInv
<1>4. ASSUME Start \/ Recovered \/ GiveUpInitial \/ Delivered \/ RoundOver \/ Stop
      PROVE  AuditInv'
  <2>1. /\ UNCHANGED <<setBack, clock, state, created, events, marked, log, authored>>
        /\ batch' \in {batch, {}}
    BY <1>4 DEF Start, Recovered, GiveUpInitial, Delivered, RoundOver, Stop
  <2>2. /\ at' \in {"down", "recovering", "reading", "delivering", "expiring"}
        /\ initial' \in BOOLEAN
    BY <1>4, <1>0 DEF Start, Recovered, GiveUpInitial, Delivered, RoundOver, Stop, TypeOK
  <2>. QED  BY <1>3, <2>1, <2>2
<1>5. CASE ReadBatch
  <2>1. /\ UNCHANGED <<initial, setBack, clock, state, created, events, marked, log, authored>>
        /\ at' = "delivering" /\ Pending(batch')
    BY <1>5 DEF ReadBatch
  <2>2. /\ batch' \subseteq DOMAIN events \ marked /\ Cardinality(batch') <= BatchSize
        /\ \A n \in batch', m \in (DOMAIN events \ marked) \ batch' :
              events[n].time <= events[m].time
    BY <2>1 DEF Pending, Unmarked
  <2>3. TypeOK'
    BY <1>0, <2>1, <2>2 DEF TypeOK
  <2>4. LoggedOnce' /\ VerdictHasAuthor'
    BY <1>0, <2>1 DEF LoggedOnce, Logged, VerdictHasAuthor, Verdicts
  <2>5. InOrder'
    <3>. SUFFICES ASSUME ~setBack PROVE InOrder'
      BY <2>1 DEF InOrder
    <3>1. ASSUME NEW n \in batch', NEW m \in DOMAIN events, m < n, m \notin marked
          PROVE  m \in batch'
      <4>1. events[m].time < events[n].time /\ events[m].time \in Nat /\ events[n].time \in Nat
        BY <1>0, <2>2, <3>1, EventTimes DEF InOrder
      <4>. QED  BY <2>2, <3>1, <4>1
    <3>. QED  BY <1>0, <2>1, <3>1 DEF InOrder
  <2>. QED  BY <2>2, <2>1, <2>3, <2>4, <2>5 DEF AuditInv
<1>6. CASE DeliverNext
  <2>1. PICK n \in batch :
          /\ Oldest(batch, n)
          /\ batch' = batch \ {n}
          /\ log' = IF n \in Logged THEN log ELSE Append(log, n)
          /\ marked' = marked \cup {n}
    BY <1>6 DEF DeliverNext
  <2>2. UNCHANGED <<at, initial, setBack, clock, state, created, events, authored>>
    BY <1>6 DEF DeliverNext
  <2>3. n \in DOMAIN events /\ n \notin marked /\ Logged = marked
    BY <1>0, <2>1 DEF AuditInv, LoggedOnce
  <2>4. log' = Append(log, n)
    BY <2>1, <2>3
  <2>5. /\ log' \in Seq(DOMAIN events) /\ Len(log') = Len(log) + 1 /\ Len(log) \in Nat
        /\ DOMAIN log = 1 .. Len(log) /\ DOMAIN log' = 1 .. Len(log) + 1
        /\ \A i \in DOMAIN log : log'[i] = log[i]
        /\ log'[Len(log) + 1] = n
    BY <1>0, <2>3, <2>4
  <2>6. \A i \in DOMAIN log' : i \in DOMAIN log \/ i = Len(log) + 1
    BY <2>5
  <2>7. TypeOK'
    <3>1. IsFiniteSet(batch)
      <4>1. IsFiniteSet(DOMAIN events)
        <5>1. DOMAIN events = 1 .. Len(events) /\ Len(events) \in Nat
          BY <1>0
        <5>. QED  BY <5>1, FS_Interval
      <4>. QED  BY <1>0, <4>1, FS_Subset
    <3>2. Cardinality(batch') <= BatchSize
      <4>1. Cardinality(batch) <= BatchSize /\ Cardinality(batch) \in Nat
        BY <1>0, <3>1, FS_CardinalityType DEF TypeOK
      <4>2. Cardinality(batch') = Cardinality(batch) - 1
        BY <2>1, <3>1, FS_RemoveElement
      <4>. QED  BY <4>1, <4>2, OutboxAssumption
    <3>3. batch' \subseteq DOMAIN events /\ marked' \subseteq DOMAIN events
      BY <1>0, <2>1, <2>3
    <3>. QED  BY <1>0, <2>2, <2>5, <3>2, <3>3 DEF TypeOK
  <2>8. LoggedOnce'
    <3>1. Logged' = Logged \cup {n}
      BY <2>5, <2>6 DEF Logged
    <3>2. ASSUME NEW i \in DOMAIN log', NEW j \in DOMAIN log', log'[i] = log'[j]
          PROVE  i = j
      <4>1. \A k \in DOMAIN log : log'[k] # n
        BY <2>3, <2>5 DEF Logged
      <4>2. CASE i \in DOMAIN log /\ j \in DOMAIN log
        BY <1>0, <2>5, <3>2, <4>2 DEF LoggedOnce
      <4>. QED  BY <2>5, <2>6, <3>2, <4>1, <4>2
    <3>. QED  BY <2>1, <2>3, <3>1, <3>2 DEF LoggedOnce
  <2>9. VerdictHasAuthor'
    BY <1>0, <2>2 DEF VerdictHasAuthor, Verdicts
  <2>10. InOrder'
    <3>. SUFFICES ASSUME ~setBack PROVE InOrder'
      BY <2>2 DEF InOrder
    <3>1. /\ \A p \in DOMAIN events : events[p].time < clock /\ events[p].time \in Nat
          /\ \A m, p \in DOMAIN events : m < p => events[m].time < events[p].time
          /\ \A p \in batch, m \in DOMAIN events : m < p /\ m \notin marked => m \in batch
          /\ \A p \in marked, m \in DOMAIN events : m < p => m \in marked
          /\ \A i, j \in DOMAIN log : i < j => log[i] < log[j]
      BY <1>0, EventTimes DEF InOrder
    <3>2. \A m \in DOMAIN events : m \in Nat
      BY <1>0
    \* The oldest of the batch is the first of what is undelivered.
    <3>3. \A m \in batch : n <= m
      <4>. SUFFICES ASSUME NEW m \in batch, m < n PROVE FALSE
        BY <1>0, <2>3, <3>2
      <4>1. events[m].time < events[n].time /\ events[n].time <= events[m].time
        BY <1>0, <2>1, <2>3, <3>1 DEF Oldest
      <4>. QED  BY <1>0, <2>3, <3>1, <4>1
    <3>4. \A m \in DOMAIN events : m < n => m \in marked
      BY <1>0, <2>3, <3>1, <3>2, <3>3
    <3>5. \A m \in marked : m < n
      BY <1>0, <2>3, <3>1, <3>2
    <3>6. \A p \in batch', m \in DOMAIN events : m < p /\ m \notin marked' => m \in batch'
      BY <2>1, <3>1
    <3>7. \A p \in marked', m \in DOMAIN events : m < p => m \in marked'
      BY <2>1, <3>1, <3>4
    <3>8. \A i, j \in DOMAIN log' : i < j => log'[i] < log'[j]
      <4>1. \A i \in DOMAIN log : log[i] < n
        BY <2>3, <3>5 DEF Logged
      <4>. SUFFICES ASSUME NEW i \in DOMAIN log', NEW j \in DOMAIN log', i < j
                    PROVE  log'[i] < log'[j]
        OBVIOUS
      <4>2. i \in DOMAIN log
        BY <2>5
      <4>. QED  BY <2>5, <2>6, <3>1, <4>1, <4>2
    <3>. QED  BY <2>2, <3>1, <3>6, <3>7, <3>8 DEF InOrder
  <2>11. batch' \cap marked' = {}
    BY <2>1 DEF AuditInv
  <2>. QED  BY <2>7, <2>8, <2>9, <2>10, <2>11 DEF AuditInv
<1>7. CASE SetBack \/ CatchUp
  <2>1. /\ UNCHANGED <<at, initial, batch, state, created, events, marked, log, authored>>
        /\ setBack' \in BOOLEAN /\ (setBack => setBack') /\ clock' \in Nat
        /\ ~setBack' => clock <= clock'
    <3>1. \A t \in Times : t \in Nat
      BY <1>0, EventTimes DEF Times, TypeOK
    <3>2. CASE SetBack
      BY <1>0, <3>2 DEF SetBack, TypeOK
    <3>3. CASE CatchUp
      <4>1. PICK t \in Times : clock <= t /\ clock' = t + 1
        BY <3>3 DEF CatchUp
      <4>2. UNCHANGED <<at, initial, batch, setBack, state, created, events, marked, log, authored>>
        BY <3>3 DEF CatchUp
      <4>3. clock' \in Nat /\ clock <= clock'
        BY <1>0, <3>1, <4>1
      <4>. QED  BY <1>0, <4>2, <4>3 DEF TypeOK
    <3>. QED  BY <1>7, <3>2, <3>3
  <2>2. TypeOK' /\ LoggedOnce' /\ VerdictHasAuthor' /\ (batch \cap marked = {})'
    <3>1. TypeOK'
      BY <1>0, <2>1 DEF TypeOK
    <3>2. LoggedOnce'
      BY <1>0, <2>1 DEF LoggedOnce, Logged
    <3>3. VerdictHasAuthor'
      BY <1>0, <2>1 DEF VerdictHasAuthor, Verdicts
    <3>. QED  BY <2>1, <3>1, <3>2, <3>3 DEF AuditInv
  <2>3. InOrder'
    <3>1. \A n \in DOMAIN events : events[n].time \in Nat
      BY <1>0, EventTimes
    <3>. QED  BY <1>0, <2>1, <3>1 DEF InOrder
  <2>. QED  BY <2>2, <2>3 DEF AuditInv
<1>8. CASE UNCHANGED vars
  <2>1. /\ at' \in {"down", "recovering", "reading", "delivering", "expiring"}
        /\ initial' \in BOOLEAN
    BY <1>0, <1>8 DEF vars, TypeOK
  <2>. QED  BY <1>3, <1>8, <2>1 DEF vars
<1>. QED  BY <1>1, <1>2, <1>4, <1>5, <1>6, <1>7, <1>8 DEF Next, StartStep, Recover, Round

THEOREM AuditInvariant == Spec => []AuditInv
<1>. QED  BY InitAudit, StepKeeps, PTL DEF Spec

\* Every variable keeps its type, and no call holds more than a batch.
THEOREM TypeCorrect == Spec => []TypeOK
<1>1. AuditInv => TypeOK
  BY DEF AuditInv
<1>. QED  BY <1>1, AuditInvariant, PTL

\* Over failures, kills and repeated batches no transition is in the log twice, and
\* the mark of an event says whether it is.
THEOREM LoggedExactlyOnce == Spec => []LoggedOnce
<1>1. AuditInv => LoggedOnce
  BY DEF AuditInv
<1>. QED  BY <1>1, AuditInvariant, PTL

\* There is no verdict without its author.
THEOREM VerdictsHaveAuthors == Spec => []VerdictHasAuthor
<1>1. AuditInv => VerdictHasAuthor
  BY DEF AuditInv
<1>. QED  BY <1>1, AuditInvariant, PTL

\* Unless the clock was set back, the log tells each operation's transitions in the
\* order in which they happened and without a gap.
THEOREM LogIsHistory == Spec => []LogTellsHistory
<1>1. ASSUME AuditInv PROVE LogTellsHistory
  <2>. SUFFICES ASSUME ~setBack, NEW i \in DOMAIN log, NEW n \in DOMAIN events, n < log[i]
                PROVE  \E j \in DOMAIN log : j < i /\ log[j] = n
    BY DEF LogTellsHistory
  <2>1. log \in Seq(DOMAIN events) /\ events \in Seq(EventRow) /\ Logged = marked
    BY <1>1 DEF AuditInv, TypeOK, LoggedOnce, EventRow
  <2>2. log[i] \in marked
    BY <2>1 DEF Logged
  <2>3. n \in Logged
    BY <1>1, <2>1, <2>2 DEF AuditInv, InOrder
  <2>4. PICK j \in DOMAIN log : log[j] = n
    BY <2>3 DEF Logged
  <2>5. \A k, l \in DOMAIN log : k < l => log[k] < log[l]
    BY <1>1 DEF AuditInv, InOrder
  <2>6. i \in Nat /\ j \in Nat /\ n \in Nat /\ log[i] \in Nat
    BY <2>1
  <2>7. ~(i < j) /\ i # j
    BY <2>4, <2>5, <2>6
  <2>. QED  BY <2>4, <2>6, <2>7
<1>. QED  BY <1>1, AuditInvariant, PTL
=============================================================================
