----------------------------- MODULE MCHandles -----------------------------
(***************************************************************************)
(* Handles.tla with the kernel task and two programs of two handles each,  *)
(* one for the console, and the smallest descriptor table that suffices.   *)
(***************************************************************************)
EXTENDS Handles
=============================================================================
