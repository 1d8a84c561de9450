----------------------------- MODULE ReadyRing -----------------------------
(***************************************************************************)
(* The ready queue of ksched.py as it is stored: a ring of Capacity words  *)
(* with a head and a tail that only grow and are reduced modulo Capacity   *)
(* at each access, and the loop of scheduler_pick_next_task over it, one   *)
(* iteration a step.                                                       *)
(*                                                                         *)
(* Tasks become runnable and exit freely between picks, also while they    *)
(* are queued, so that the loop meets stale and doubled entries and a full *)
(* ring, which Scheduler.tla shows the kernel itself never produces.       *)
(***************************************************************************)
EXTENDS Integers, Sequences, Picking

CONSTANTS
  Ids,       (* task ids, with the idle task                               *)
  Capacity,  (* ready_queue_capacity()                                     *)
  MaxTail    (* bound on the number of enqueues of a run                   *)

ASSUME RingAssumption ==
  /\ Ids \subseteq Nat /\ Idle \in Ids
  /\ Capacity \in Nat /\ Capacity > 0
  /\ MaxTail \in Nat /\ MaxTail > 0

VARIABLES
  slots,     (* the words of the ring                                      *)
  head,      (* sched_slot_ready_head                                      *)
  tail,      (* sched_slot_ready_tail                                      *)
  picked,    (* sched_slot_current_task, which the last pick chose         *)
  taskState, (* task_slot_state of each task                               *)
  attempts,  (* iterations the loop may still make, 0 outside of it        *)
  start,     (* content of the ring when the loop began, for the mapping   *)
  overflow   (* scheduler_enqueue_task panicked                            *)

ringVars == <<slots, head, tail, picked, taskState, attempts, start, overflow>>

\* scheduler_init_bootstrap_tasks enqueues the idle task.
RingInit ==
  /\ slots = [k \in 0 .. Capacity - 1 |-> Idle]
  /\ head = 0 /\ tail = 1
  /\ picked = Idle
  /\ taskState = [t \in Ids |-> IF t = Idle THEN "runnable" ELSE "exited"]
  /\ attempts = 0
  /\ start = << >>
  /\ overflow = FALSE

\* scheduler_ready_size.
Size == tail - head

\* The ring's content as a sequence, head first.
Content(s, h, n) == [k \in 1 .. n - h |-> s[(h + k - 1) % Capacity]]

AtRest == ~overflow /\ attempts = 0

-----------------------------------------------------------------------------
\* Mutant: the capacity test lets one entry too many in.
EnqueueOverfull(t) ==
  IF Size > Capacity
    THEN overflow' = TRUE /\ UNCHANGED <<slots, tail>>
    ELSE /\ slots' = [slots EXCEPT ![tail % Capacity] = t]
         /\ tail' = tail + 1
         /\ UNCHANGED overflow

\* scheduler_enqueue_task.
Enqueue(t) ==
  IF Size >= Capacity
    THEN overflow' = TRUE /\ UNCHANGED <<slots, tail>>
    ELSE /\ slots' = [slots EXCEPT ![tail % Capacity] = t]
         /\ tail' = tail + 1
         /\ UNCHANGED overflow

\* scheduler_set_task makes a task runnable and its creator enqueues it.
Ready(t) ==
  /\ AtRest /\ tail < MaxTail
  /\ taskState[t] # "runnable"
  /\ taskState' = [taskState EXCEPT ![t] = "runnable"]
  /\ Enqueue(t)
  /\ UNCHANGED <<head, picked, attempts, start>>

\* A task stops being runnable; its entries stay in the ring.
End(t) ==
  /\ AtRest
  /\ t # Idle /\ taskState[t] = "runnable"
  /\ taskState' = [taskState EXCEPT ![t] = "exited"]
  /\ UNCHANGED <<slots, head, tail, picked, attempts, start, overflow>>

PutBack == picked # Idle /\ taskState[picked] = "runnable"

\* scheduler_pick_next_task up to its loop.
PickBegin ==
  /\ AtRest /\ (PutBack => tail < MaxTail)
  /\ IF PutBack THEN Enqueue(picked) ELSE UNCHANGED <<slots, tail, overflow>>
  /\ attempts' = IF overflow' THEN 0 ELSE tail' - head + 1
  /\ start' = Content(slots, head, tail)
  /\ UNCHANGED <<head, picked, taskState>>

\* Mutant: the entry is taken from the tail.
CandidateNewest == IF Size = 0 THEN Idle ELSE slots[(tail - 1) % Capacity]

\* What scheduler_dequeue_task returns, and the head it leaves.
Candidate == IF Size = 0 THEN Idle ELSE slots[head % Capacity]
HeadAfter == IF Size = 0 THEN head ELSE head + 1

InLoop == ~overflow /\ attempts > 0

\* An iteration that finds a task: the loop and the pick end.
LoopTakes ==
  /\ InLoop
  /\ Candidate # Idle /\ taskState[Candidate] = "runnable"
  /\ head' = HeadAfter
  /\ picked' = Candidate
  /\ attempts' = 0
  /\ start' = << >>
  /\ UNCHANGED <<slots, tail, taskState, overflow>>

\* Mutant: an iteration that gets the idle task does not count.
AttemptsKept == IF Candidate = Idle THEN attempts ELSE attempts - 1

\* attempts after an iteration that finds nothing.
AttemptsLeft == attempts - 1

\* An iteration that finds nothing; after the last one the idle task is
\* chosen.
LoopDrops ==
  /\ InLoop
  /\ Candidate = Idle \/ taskState[Candidate] # "runnable"
  /\ head' = HeadAfter
  /\ attempts' = AttemptsLeft
  /\ picked' = IF attempts' = 0 THEN Idle ELSE picked
  /\ start' = IF attempts' = 0 THEN << >> ELSE start
  /\ UNCHANGED <<slots, tail, taskState, overflow>>

\* panic never returns.
Overflowed == overflow /\ UNCHANGED ringVars

RingNext ==
  \/ \E t \in Ids : Ready(t) \/ End(t)
  \/ PickBegin
  \/ LoopTakes
  \/ LoopDrops
  \/ Overflowed

\* The loop is kernel code with interrupts masked: it runs on.
RingSpec == RingInit /\ [][RingNext]_ringVars /\ WF_ringVars(LoopTakes \/ LoopDrops)

-----------------------------------------------------------------------------
\* While the loop runs the queue counts as what it was when the pick began.
Items == IF attempts = 0 THEN Content(slots, head, tail) ELSE start

RQ == INSTANCE ReadyQueue
        WITH items <- Items, current <- picked, state <- taskState, halted <- overflow

\* Ring and loop implement the FIFO: order is kept across the wrap of the
\* indices, a pick skips exactly the entries that cannot run, and it chooses
\* the idle task only when none can. This is what Scheduler.tla takes from
\* Picking.tla.
ImplementsQueue == RQ!QueueSpec

\* Every pick ends, although the loop goes on when it gets the idle task and
\* scheduler_dequeue_task returns that for ever once the ring is empty.
PickEnds == attempts > 0 ~> attempts = 0
=============================================================================
