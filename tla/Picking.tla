------------------------------ MODULE Picking ------------------------------
(***************************************************************************)
(* What the dequeue loop of scheduler_pick_next_task (ksched.py) computes, *)
(* as a function of the ready queue q and the task states st. Scheduler    *)
(* uses it as one step; ReadyRing executes the loop and is checked to      *)
(* agree with it.                                                          *)
(***************************************************************************)
EXTENDS Integers, Sequences

Idle == 0          \* sched_slot_idle_task, set once at boot

\* Mutant: the idle task counts as a candidate like any other.
EligibleWithIdle(q, st) == {k \in 1 .. Len(q) : st[q[k]] = "runnable"}

\* Positions at which the dequeue loop would stop: it drops the idle task
\* and tasks that are no longer runnable.
Eligible(q, st) == {k \in 1 .. Len(q) : q[k] # Idle /\ st[q[k]] = "runnable"}

\* How many entries the loop takes out of q.
Dequeued(q, st) ==
  IF Eligible(q, st) = {} THEN Len(q)
  ELSE CHOOSE k \in Eligible(q, st) : \A j \in Eligible(q, st) : k <= j

\* The task the loop ends with: the idle task when nothing else is ready.
Chosen(q, st) == IF Eligible(q, st) = {} THEN Idle ELSE q[Dequeued(q, st)]

\* What the loop leaves in the queue.
Left(q, st) == SubSeq(q, Dequeued(q, st) + 1, Len(q))
=============================================================================
