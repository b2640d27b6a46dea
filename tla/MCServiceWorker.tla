-------------------------- MODULE MCServiceWorker --------------------------
(* Small instances of ServiceWorker for TLC; the constants are model values. *)
EXTENDS ServiceWorker, TLC

Symmetry == Permutations(Socket)
=============================================================================
