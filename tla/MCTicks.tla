------------------------------ MODULE MCTicks ------------------------------
(***************************************************************************)
(* Ticks.tla with two slots for programs and tests of two ticks each. Two  *)
(* interrupts in one hlt overshoot a test of two; after the boot at least  *)
(* three more ticks are left for the tasks.                                *)
(***************************************************************************)
EXTENDS Ticks
=============================================================================
