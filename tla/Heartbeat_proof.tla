-------------------------- MODULE Heartbeat_proof --------------------------
(***************************************************************************)
(* Proofs about Heartbeat, for every interval, timeout, lag and latency.   *)
(*                                                                         *)
(* The invariant says where the next sweep lies, seen from now, from the   *)
(* ping that is out, from the last activity and from the end of the peer.  *)
(***************************************************************************)
EXTENDS Heartbeat, TLAPS

(* The next sweep is at most an interval ahead, and at most Lag late. *)
SweepIsNear ==
    /\ now <= sweepAt + Lag
    /\ sweepAt <= now + Interval

(* The peer is not alive exactly while a ping is out; the next sweep is an  *)
(* interval after that ping, and a peer that is there is in time to answer. *)
PingIsTracked ==
    /\ isAlive <=> pinged = Never
    /\ pinged # Never =>
        /\ open => sweepAt = pinged + Interval
        /\ Present => now <= pinged + Latency

(* With no ping out, the peer has been active since the last sweep. *)
ActiveSinceSweep ==
    Present /\ open /\ pinged = Never => sweepAt <= last + Interval

(* A peer that is gone answers no ping: the first sweep pings it for good. *)
LastPingIsNear ==
    ~Present /\ open =>
        /\ pinged = Never => sweepAt <= goneAt + Interval
        /\ pinged # Never => pinged <= goneAt + Interval + Lag

IInv ==
    /\ TypeOK
    /\ SweepIsNear
    /\ PingIsTracked
    /\ ActiveSinceSweep
    /\ LastPingIsNear
    /\ PresentIsKept

LEMMA InitIInv == Init => IInv
BY HeartbeatAssumption
   DEF Init, IInv, TypeOK, SweepIsNear, PingIsTracked, ActiveSinceSweep,
       LastPingIsNear, PresentIsKept, Present, Never

(* A peer that is there is not terminated: its ping was answered before the *)
(* sweep came, and its last activity is no older than the sweep before.     *)
LEMMA PresentAnswers ==
    ASSUME IInv, Present, open, now >= sweepAt,
           Latency < Interval, Interval + Lag <= Timeout
    PROVE  ~Unanswered
<1>. USE HeartbeatAssumption DEF IInv, TypeOK, Never
<1>1. pinged = Never
  BY DEF PingIsTracked
<1>2. now - last <= Timeout
  BY <1>1 DEF ActiveSinceSweep, SweepIsNear
<1>. QED
  BY <1>1, <1>2 DEF Unanswered, Idle, PingIsTracked

LEMMA StepIInv == IInv /\ [Next]_vars => IInv'
<1>. SUFFICES ASSUME IInv, [Next]_vars PROVE IInv'
  OBVIOUS
<1>. USE HeartbeatAssumption
     DEF IInv, TypeOK, SweepIsNear, PingIsTracked, ActiveSinceSweep,
         LastPingIsNear, Never
<1>1. CASE Sweep
  <2>1. (TypeOK /\ SweepIsNear)'
    <3>1. open' \in BOOLEAN /\ isAlive' \in BOOLEAN
      BY <1>1, Zenon DEF Sweep
    <3>2. pinged' \in 0..now \cup {Never}
      BY <1>1 DEF Sweep
    <3>. QED
      BY <1>1, <3>1, <3>2 DEF Sweep
  <2>2. PingIsTracked'
    BY <1>1 DEF Sweep, Present, Unanswered
  <2>3. (ActiveSinceSweep /\ LastPingIsNear)'
    BY <1>1 DEF Sweep, Present, Unanswered
  <2>4. PresentIsKept'
    <3>. SUFFICES ASSUME Latency < Interval, Interval + Lag <= Timeout, Present
                  PROVE  open'
      BY <1>1 DEF PresentIsKept, Present, Sweep
    <3>. QED
      BY <1>1, PresentAnswers DEF Sweep, PresentIsKept
  <2>. QED
    BY <2>1, <2>2, <2>3, <2>4
<1>2. CASE Pong
  BY <1>2 DEF Pong, Present, PresentIsKept
<1>3. CASE Activity
  BY <1>3 DEF Activity, Present, PresentIsKept
<1>4. CASE Vanish
  BY <1>4 DEF Vanish, Present, PresentIsKept
<1>5. CASE Tick
  BY <1>5 DEF Tick, Present, PresentIsKept
<1>6. CASE UNCHANGED vars
  BY <1>6 DEF vars, Present, PresentIsKept
<1>. QED
  BY <1>1, <1>2, <1>3, <1>4, <1>5, <1>6 DEF Next

(* The inductive invariant holds, for all values of the constants. *)
THEOREM Invariance == Spec => []IInv
BY InitIInv, StepIInv, PTL DEF Spec

(* No time that is recorded lies ahead. *)
THEOREM TypeCorrect == Spec => []TypeOK
<1>1. IInv => TypeOK
  BY DEF IInv
<1>. QED
  BY <1>1, Invariance, PTL

(* A peer that is there keeps its socket (server.ts:707-711), whenever the  *)
(* interval exceeds the latency and the timeout the longest time between    *)
(* two sweeps.                                                              *)
THEOREM PresentPeersStay == Spec => []PresentIsKept
<1>1. IInv => PresentIsKept
  BY DEF IInv
<1>. QED
  BY <1>1, Invariance, PTL

(* A peer that vanished has lost its socket after two sweeps (server.ts:693), *)
(* whatever the timeout and however much is still sent to it.                 *)
THEOREM VanishedPeersGo == Spec => []VanishedIsFound
<1>1. IInv => VanishedIsFound
  BY HeartbeatAssumption
     DEF IInv, TypeOK, SweepIsNear, PingIsTracked, LastPingIsNear,
         VanishedIsFound, Present, Never
<1>. QED
  BY <1>1, Invariance, PTL

=============================================================================
