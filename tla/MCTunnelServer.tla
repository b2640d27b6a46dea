--------------------------- MODULE MCTunnelServer ---------------------------
(* Small instances of TunnelServer for TLC; the constants are model values. *)
EXTENDS TunnelServer, TLC

Symmetry == Permutations(Socket) \cup Permutations(Key)
=============================================================================
