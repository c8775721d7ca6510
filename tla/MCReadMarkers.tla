----------------------------- MODULE MCReadMarkers -----------------------------
(***************************************************************************)
(* ReadMarkers for TLC: one participant reads, the others write, and two   *)
(* of those would be interchangeable.                                      *)
(***************************************************************************)
EXTENDS ReadMarkers
===============================================================================
