---------------------------- MODULE MCChatStream ----------------------------
(***************************************************************************)
(* Model checking of ChatStream: one device is one behaviour, so nothing   *)
(* here is symmetric; the configurations choose the bounds.                *)
(***************************************************************************)
EXTENDS ChatStream
=============================================================================
