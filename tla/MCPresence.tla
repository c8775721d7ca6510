----------------------------- MODULE MCPresence -----------------------------
(* Presence on small windows.  Sockets are alike, so TLC may permute them in *)
(* the runs without liveness properties.                                     *)
EXTENDS Presence, TLC

Symmetry == Permutations(Sockets)
=============================================================================
