------------------------------ MODULE MCJournal ------------------------------
(***************************************************************************)
(* Model checking of ChatJournal: participants, bodies and workers are     *)
(* interchangeable, so each of them is a symmetry set.                     *)
(***************************************************************************)
EXTENDS ChatJournal, TLC

Symmetry ==
    Permutations(Users) \cup Permutations(Workers) \cup Permutations(Texts)
=============================================================================
