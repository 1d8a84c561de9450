----------------------------- MODULE ReadyQueue -----------------------------
(***************************************************************************)
(* What the rest of the kernel may assume of the ready queue: a FIFO of    *)
(* task ids. Tasks become ready at its tail; a pick puts the current task  *)
(* back if it is runnable, drops what cannot run and takes the first that  *)
(* can, in one step.                                                       *)
(***************************************************************************)
EXTENDS Picking

CONSTANTS Ids, Capacity

VARIABLES items, current, state, halted

queueVars == <<items, current, state, halted>>

QueueInit ==
  /\ items = <<Idle>>
  /\ current = Idle
  /\ state = [t \in Ids |-> IF t = Idle THEN "runnable" ELSE "exited"]
  /\ halted = FALSE

Put(q, t) ==
  IF Len(q) < Capacity THEN halted' = halted /\ items' = Append(q, t)
                       ELSE halted' = TRUE /\ items' = q

QReady(t) ==
  /\ ~halted /\ state[t] # "runnable"
  /\ state' = [state EXCEPT ![t] = "runnable"]
  /\ Put(items, t)
  /\ UNCHANGED current

QEnd(t) ==
  /\ ~halted /\ t # Idle
  /\ state' = [state EXCEPT ![t] = "exited"]
  /\ UNCHANGED <<items, current, halted>>

BackInQueue ==
  IF current # Idle /\ state[current] = "runnable" THEN Append(items, current) ELSE items

QPick ==
  /\ ~halted /\ Len(BackInQueue) <= Capacity
  /\ items' = Left(BackInQueue, state)
  /\ current' = Chosen(BackInQueue, state)
  /\ UNCHANGED <<state, halted>>

QPickPanics ==
  /\ ~halted /\ Len(BackInQueue) > Capacity
  /\ halted' = TRUE
  /\ UNCHANGED <<items, current, state>>

QueueNext == (\E t \in Ids : QReady(t) \/ QEnd(t)) \/ QPick \/ QPickPanics

QueueSpec == QueueInit /\ [][QueueNext]_queueVars
=============================================================================
