--------------------------- MODULE MCTunnelClient ---------------------------
(***************************************************************************)
(* Small instances of TunnelClient for TLC; the constants are model values *)
(* and MaxUse bounds how many handshakes, requests, connections and        *)
(* connections that send one behaviour has together.  Two handshakes are   *)
(* beside requests only: what a connection sends they carry as well.       *)
(***************************************************************************)
EXTENDS TunnelClient, TLC

CONSTANT MaxUse

MCData   == 1..MaxSend
Symmetry == Permutations(Socket) \cup Permutations(Key) \cup Permutations(Server)

Handshakes  == {k \in Key : kx[k] # "idle"}
Requests    == {r \in Req : req[r] # "new"}
Connections == {c \in Conn : readyState[c] # "new"}
Senders     == {<<c>> : c \in {d \in Conn : nsent[d] > 0}}

SmallMix ==
    /\ Cardinality(Handshakes \cup Requests \cup Connections \cup Senders) <= MaxUse
    /\ Cardinality(Handshakes) <= 1 \/ Connections = {}
=============================================================================
