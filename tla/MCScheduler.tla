----------------------------- MODULE MCScheduler -----------------------------
(***************************************************************************)
(* Scheduler.tla for TLC. Five slots (three for user tasks) are the fewest *)
(* with a grandchild beside a sibling, so that orphans, holes in the table *)
(* and two waiters at once occur. The ready queue has the smallest         *)
(* capacity the assumptions allow.                                         *)
(***************************************************************************)
EXTENDS Scheduler
=============================================================================
