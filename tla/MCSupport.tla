---- MODULE MCSupport ----
(***************************************************************************)
(* A customer and two colleagues of the desk, any of whom may be mandated. *)
(***************************************************************************)
EXTENDS Support, TLC

Symmetry == Permutations(Workers) \cup Permutations(Users \ {Customer})
====
