----------------------------- MODULE Heartbeat -----------------------------
(***************************************************************************)
(* The heartbeat of TunnelServer (server.ts:156-170, 692-738) with its     *)
(* clock, for one control socket: the sweep treats each one by itself.     *)
(* TunnelServer leaves the readings of the clock open; this module says    *)
(* what heartbeatInterval and heartbeatTimeout make of them.               *)
(*                                                                         *)
(* A deadline is met by letting time pass only while none is overdue.      *)
(***************************************************************************)
EXTENDS Integers

CONSTANTS
    Interval,   \* heartbeatInterval
    Timeout,    \* heartbeatTimeout
    Lag,        \* how late the event loop may run the interval timer
    Latency,    \* how long a peer that is there takes to answer a ping
    Horizon     \* bound on time

ASSUME HeartbeatAssumption ==
    /\ Interval \in Nat \ {0}
    /\ Timeout \in Nat
    /\ Lag \in Nat
    /\ Latency \in Nat
    /\ Horizon \in Nat

Never == -1     \* no such time

VARIABLES
    now,        \* Date.now()
    open,       \* the control socket has not been terminated
    isAlive,    \* its liveness record
    last,       \* lastActivityMs
    sweepAt,    \* when the interval timer is due
    pinged,     \* when the ping that has no pong yet was sent, or Never
    goneAt      \* when the peer vanished, or Never

vars == <<now, open, isAlive, last, sweepAt, pinged, goneAt>>

TypeOK ==
    /\ now \in Nat
    /\ open \in BOOLEAN
    /\ isAlive \in BOOLEAN
    /\ last \in 0..now
    /\ sweepAt \in Nat
    /\ pinged \in 0..now \cup {Never}
    /\ goneAt \in 0..now \cup {Never}

(* The socket is accepted at time 0, at any phase of the timer. *)
Init ==
    /\ now = 0
    /\ open = TRUE
    /\ isAlive = TRUE
    /\ last = 0
    /\ sweepAt \in 0..Interval
    /\ pinged = Never
    /\ goneAt = Never

-----------------------------------------------------------------------------
Present == goneAt = Never

Idle == now - last > Timeout

(* The first sweep after a ping, or a silence longer than the timeout. *)
Unanswered == ~isAlive \/ Idle

(* Mutant: a sweep forgets that it has pinged. *)
SweepForgetful ==
    /\ now >= sweepAt
    /\ sweepAt' = now + Interval
    /\ IF Unanswered THEN open' = FALSE /\ UNCHANGED pinged
                     ELSE UNCHANGED open /\ pinged' = now
    /\ UNCHANGED <<now, isAlive, last, goneAt>>

Sweep ==
    /\ now >= sweepAt
    /\ sweepAt' = now + Interval
    /\ IF open /\ ~Unanswered
       THEN /\ isAlive' = FALSE
            /\ pinged' = IF pinged = Never THEN now ELSE pinged
            /\ UNCHANGED open
       ELSE open' = FALSE /\ UNCHANGED <<isAlive, pinged>>
    /\ UNCHANGED <<now, last, goneAt>>

(* Mutant: a pong is no activity. *)
PongUntimed ==
    /\ Present
    /\ pinged # Never
    /\ isAlive' = TRUE
    /\ pinged' = Never
    /\ UNCHANGED <<now, open, last, sweepAt, goneAt>>

Pong ==
    /\ Present
    /\ pinged # Never
    /\ isAlive' = TRUE
    /\ last' = now
    /\ pinged' = Never
    /\ UNCHANGED <<now, open, sweepAt, goneAt>>

(* A message from the peer, or one sent to it: the peer need not be there. *)
Activity ==
    /\ last' = now
    /\ UNCHANGED <<now, open, isAlive, sweepAt, pinged, goneAt>>

(* From now on nothing arrives from the peer. *)
Vanish ==
    /\ Present
    /\ goneAt' = now
    /\ UNCHANGED <<now, open, isAlive, last, sweepAt, pinged>>

Tick ==
    /\ now < Horizon
    /\ now < sweepAt + Lag
    /\ Present /\ pinged # Never => now < pinged + Latency
    /\ now' = now + 1
    /\ UNCHANGED <<open, isAlive, last, sweepAt, pinged, goneAt>>

Next == Sweep \/ Pong \/ Activity \/ Vanish \/ Tick

Spec == Init /\ [][Next]_vars

-----------------------------------------------------------------------------
(***************************************************************************)
(* With an interval longer than the latency, and a timeout of at least the *)
(* time between two sweeps, a peer that is there keeps its socket however  *)
(* silent it is.  The code checks neither condition; its defaults of 30    *)
(* and 60 seconds meet them while pongs and timers are late by less than   *)
(* 30 seconds.                                                             *)
(***************************************************************************)
PresentIsKept ==
    (Latency < Interval /\ Interval + Lag <= Timeout) => (Present => open)

(***************************************************************************)
(* A peer that vanished loses its socket within two sweeps, even while the *)
(* server keeps sending to it, which refreshes lastActivityMs              *)
(* (server.ts:637) and not isAlive.                                        *)
(***************************************************************************)
VanishedIsFound ==
    ~Present /\ open => now <= goneAt + 2 * (Interval + Lag)

=============================================================================
