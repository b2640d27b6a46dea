------------------------------ MODULE MCTunnel ------------------------------
(* Small instances of Tunnel for TLC; the constants are model values. *)
EXTENDS Tunnel, TLC

MCData   == 1..MaxSend
Symmetry == Permutations(Socket) \cup Permutations(Key)
=============================================================================
