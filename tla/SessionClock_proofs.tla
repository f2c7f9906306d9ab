-------------------------- MODULE SessionClock_proofs --------------------------
(***************************************************************************)
(* The session's clocks keep their margins for any timeouts.  Between two  *)
(* seconds the poll tick has been handled unless a send blocks, so that a  *)
(* session that is not due is within its limits, and one that is due or    *)
(* sending exceeds them by what the send took.                             *)
(***************************************************************************)
EXTENDS SessionClock, TLAPS

ClockInv ==
    /\ TypeOK
    /\ doing = "send" => phase = "open"
    /\ pending # "none" => phase = "open"
    /\ phase = "hello" => silent <= SendWait
    /\ phase = "open" =>
          /\ tick = "ahead" => silent <= Silence
          /\ doing = "select" => silent <= Silence + SendWait
          /\ doing = "send" => silent <= Silence + spent
    /\ pending # "none" =>
          /\ tick = "ahead" => waited <= ResultWait
          /\ tick = "due" => waited <= ResultWait + 1 + stalled
    /\ pending = "execute" /\ op = "running" => age = waited
    /\ pending = "execute" => age <= waited

LEMMA InitClock == Init => ClockInv
BY ClockAssumption DEF Init, ClockInv, TypeOK

LEMMA CloseKeeps == ClockInv /\ Close => ClockInv'
<1>. SUFFICES ASSUME ClockInv, Close PROVE ClockInv'
  OBVIOUS
<1>1. TypeOK'
  BY ClockAssumption DEF Close, ClockInv, TypeOK
<1>. QED  BY <1>1 DEF Close, ClockInv

LEMMA StepKeeps == ClockInv /\ [Next]_vars => ClockInv'
<1>. SUFFICES ASSUME ClockInv, [Next]_vars PROVE ClockInv'
  OBVIOUS
<1>. USE ClockAssumption DEF session, wait
<1>1. CASE Enqueue \/ Resolve \/ RecoverExpired
  BY <1>1 DEF Enqueue, Resolve, RecoverExpired, ClockInv, TypeOK
<1>2. CASE Connect \/ Hello
  BY <1>2 DEF Connect, Hello, ClockInv, TypeOK
<1>3. CASE HelloTimesOut \/ Break \/ GiveUp \/ SendTimesOut
  BY <1>3, CloseKeeps DEF HelloTimesOut, Break, GiveUp, SendTimesOut
<1>4. CASE Frame \/ Ping \/ Sent
  BY <1>4 DEF Frame, Ping, Sent, Receiving, ClockInv, TypeOK
<1>5. CASE Result
  <2>1. CASE Takes
    BY <1>5, <2>1 DEF Result, Receiving, ClockInv, TypeOK
  <2>2. CASE ~Takes
    BY <1>5, <2>2, CloseKeeps DEF Result
  <2>. QED  BY <2>1, <2>2
<1>6. CASE Poll
  BY <1>6 DEF Poll, Receiving, GivesUp, Dispatch, ClockInv, TypeOK
<1>7. CASE Tick
  BY <1>7 DEF Tick, ClockInv, TypeOK
<1>8. CASE UNCHANGED vars
  BY <1>8 DEF vars, ClockInv, TypeOK
<1>. QED  BY <1>1, <1>2, <1>3, <1>4, <1>5, <1>6, <1>7, <1>8 DEF Next

THEOREM ClockInvariant == Spec => []ClockInv
<1>. QED  BY InitClock, StepKeeps, PTL DEF Spec

\* Every variable keeps its type, and every send its timeout.
THEOREM TypeCorrect == Spec => []TypeOK
<1>1. ClockInv => TypeOK
  BY DEF ClockInv
<1>. QED  BY <1>1, ClockInvariant, PTL

\* For any timeouts, silence ends a session after at most one more send.
THEOREM SilenceEndsSessions == Spec => []SilenceEnds
<1>1. ClockInv => SilenceEnds
  BY ClockAssumption DEF ClockInv, SilenceEnds, TypeOK
<1>. QED  BY <1>1, ClockInvariant, PTL

\* For any timeouts, a lease runs out under the session that executes only if sends
\* took up the difference between the lease and the wait.
THEOREM LeasesOutliveWaits == Spec => []LeaseOutlivesWait
<1>1. ClockInv => LeaseOutlivesWait
  BY ClockAssumption DEF ClockInv, LeaseOutlivesWait, TypeOK
<1>. QED  BY <1>1, ClockInvariant, PTL
=============================================================================
