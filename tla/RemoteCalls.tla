---------------------------- MODULE RemoteCalls ----------------------------
(***************************************************************************)
(* What fetch() over the tunnel promises its callers, whatever becomes of  *)
(* control sockets, keys and timers in between: a call is handled at the   *)
(* server once or never, in one place, it resolves only after it has been  *)
(* answered there, and its outcome is final.  A call that is abandoned may *)
(* still be handled: the caller cannot tell.                               *)
(***************************************************************************)
EXTENDS Sequences

CONSTANTS
    Call,
    Site       \* where a call may be handled

VARIABLES
    caller,    \* "idle", "busy", and how the call ended for its caller
    sites,     \* where it was handled, each time: it is once at most
    answered   \* calls whose answer has been produced

vars == <<caller, sites, answered>>

Init ==
    /\ caller = [c \in Call |-> "idle"]
    /\ sites = [c \in Call |-> <<>>]
    /\ answered = {}

Begin(c) ==
    /\ caller[c] = "idle"
    /\ caller' = [caller EXCEPT ![c] = "busy"]
    /\ UNCHANGED <<sites, answered>>

Handle(c, s) ==
    /\ caller[c] # "idle"
    /\ sites[c] = <<>>
    /\ sites' = [sites EXCEPT ![c] = Append(@, s)]
    /\ UNCHANGED <<caller, answered>>

Answer(c) ==
    /\ sites[c] # <<>>
    /\ answered' = answered \cup {c}
    /\ UNCHANGED <<caller, sites>>

Resolve(c) ==
    /\ caller[c] = "busy"
    /\ c \in answered
    /\ caller' = [caller EXCEPT ![c] = "resolved"]
    /\ UNCHANGED <<sites, answered>>

(* A failure may end several calls at once. *)
Abandon(failed) ==
    /\ \A c \in failed : caller[c] = "busy"
    /\ caller' = [c \in Call |-> IF c \in failed THEN "rejected" ELSE caller[c]]
    /\ UNCHANGED <<sites, answered>>

Next ==
    \/ \E c \in Call : \/ Begin(c) \/ Answer(c) \/ Resolve(c)
                       \/ \E s \in Site : Handle(c, s)
    \/ \E failed \in SUBSET Call : Abandon(failed)

Spec == Init /\ [][Next]_vars

=============================================================================
