---------------------------- MODULE MCReadyRing ----------------------------
(***************************************************************************)
(* ReadyRing.tla with a ring that fills up and wraps around several times. *)
(***************************************************************************)
EXTENDS ReadyRing
=============================================================================
