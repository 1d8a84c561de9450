--------------------------- MODULE SchedulerProofs ---------------------------
(***************************************************************************)
(* Proofs about Scheduler.tla, for every size of the task table and of the *)
(* ready queue that the assumptions allow.                                 *)
(*                                                                         *)
(* Inv, the inductive invariant, is the conjunction of the safety          *)
(* properties of Scheduler.tla with two facts they rest on: what the boot  *)
(* code leaves behind (BootInv) and that slots 0 and 1 are for ever the    *)
(* kernel's (KernelSlots). None of the properties is inductive alone: that *)
(* an exited task's slot is not waited for by two tasks, say, needs the    *)
(* parents, and those need the task count to be tight.                     *)
(*                                                                         *)
(* That the waiters never all wait on each other rests on an order of the  *)
(* tasks (ParentsRanked). The last part is about ReadyRing.tla, the ring   *)
(* behind the queue.                                                       *)
(***************************************************************************)
EXTENDS Scheduler, ReadyRing, FiniteSets, FiniteSetTheorems, SequenceTheorems, WellFoundedInduction, TLAPS

\* The self-test runs before any user task exists and empties the queue of
\* the idle task it was given.
BootInv ==
  /\ phase = "boot" => queue = <<Idle>>
  /\ phase = "tested" => queue = << >>
  /\ ~Running => current = KernelTask /\ \A t \in Tasks : t > KernelTask => state[t] = "empty"

\* The idle task and the kernel task never leave the table.
KernelSlots ==
  \A t \in {Idle, KernelTask} : state[t] = "runnable" /\ mode[t] = "kernel"

Inv ==
  /\ TypeOK /\ BootInv /\ KernelSlots
  /\ CurrentLive /\ QueueExact /\ NoInternalPanic
  /\ ParentsLive /\ WaitTargetIsChild /\ TaskCountTight
  /\ HardwareMatchesCurrent

-----------------------------------------------------------------------------
(***************************************************************************)
(* The dequeue loop.                                                       *)
(***************************************************************************)

\* When the head of the queue is eligible, scheduler_pick_next_task takes it
\* and nothing else.
LEMMA PickHead ==
  ASSUME NEW q \in Seq(Tasks), NEW st, Len(q) > 0, q[1] # Idle, st[q[1]] = "runnable"
  PROVE  Dequeued(q, st) = 1 /\ Chosen(q, st) = q[1]
<1>1. 1 \in Eligible(q, st)
  BY DEF Eligible
<1>2. \A j \in Eligible(q, st) : j \in Int /\ 1 <= j
  BY DEF Eligible
<1>3. Dequeued(q, st) = 1
  BY <1>1, <1>2 DEF Dequeued
<1>4. QED
  BY <1>1, <1>3 DEF Chosen

\* What is left of a queue after its head has been taken.
LEMMA DropHead ==
  ASSUME NEW q \in Seq(Tasks), Len(q) > 0
  PROVE  LET r == SubSeq(q, 2, Len(q))
         IN  /\ r \in Seq(Tasks) /\ Len(r) = Len(q) - 1
             /\ \A k \in 1 .. Len(r) : r[k] = q[k + 1]
<1>1. Len(q) \in Nat /\ \A i \in 2 .. Len(q) : q[i] \in Tasks
  BY ElementOfSeq, LenProperties
<1> DEFINE r == SubSeq(q, 2, Len(q))
<1>2. /\ r \in Seq(Tasks) /\ Len(r) = IF 2 <= Len(q) THEN Len(q) - 2 + 1 ELSE 0
      /\ \A i \in 1 .. Len(q) - 2 + 1 : r[i] = q[2 + i - 1]
  BY <1>1, SubSeqProperties
<1> HIDE DEF r
<1>3. Len(r) = Len(q) - 1
  <2>1. CASE Len(q) = 1
    BY <1>1, <1>2, <2>1
  <2>2. CASE Len(q) # 1
    <3>1. \A n \in Nat : n > 0 /\ n # 1 => 2 <= n
      OBVIOUS
    <3>2. 2 <= Len(q)
      BY <3>1, <1>1, <2>2
    <3>3. QED
      BY <1>1, <1>2, <3>2
  <2>3. QED
    BY <2>1, <2>2
<1>4. ASSUME NEW k \in 1 .. Len(r)
      PROVE  r[k] = q[k + 1]
  <2>1. k \in 1 .. Len(q) - 2 + 1 /\ 2 + k - 1 = k + 1
    BY <1>1, <1>3
  <2>2. QED
    BY <1>2, <2>1
<1>5. QED
  BY <1>2, <1>3, <1>4 DEF r

\* Taking the head of an exact queue and making it current leaves an exact
\* queue, whether or not the task that ran before was put back first.
LEMMA ExactAfterPick ==
  ASSUME NEW q \in Seq(Tasks), NEW st, Len(q) > 0,
         \A t \in Tasks : (\E k \in 1 .. Len(q) : q[k] = t) <=> (st[t] = "runnable" /\ t # Idle),
         \A j, k \in 1 .. Len(q) : q[j] = q[k] => j = k
  PROVE  /\ Dequeued(q, st) = 1
         /\ SubSeq(q, 2, Len(q)) \in Seq(Tasks)
         /\ Chosen(q, st) \in Tasks /\ Chosen(q, st) # Idle
         /\ st[Chosen(q, st)] = "runnable"
         /\ ExactQueue(SubSeq(q, 2, Len(q)), st, Chosen(q, st))
<1> DEFINE r == SubSeq(q, 2, Len(q))
<1>1. Len(q) \in Nat /\ \A k \in 1 .. Len(q) : q[k] \in Tasks
  BY ElementOfSeq, LenProperties
<1>2. q[1] \in Tasks /\ q[1] # Idle /\ st[q[1]] = "runnable"
  BY <1>1
<1>3. Dequeued(q, st) = 1 /\ Chosen(q, st) = q[1]
  BY <1>2, PickHead
<1>4. r \in Seq(Tasks) /\ Len(r) = Len(q) - 1 /\ \A k \in 1 .. Len(r) : r[k] = q[k + 1]
  BY DropHead
<1> HIDE DEF r
<1>5. ASSUME NEW t \in Tasks
      PROVE  (\E k \in 1 .. Len(r) : r[k] = t) <=> (\E k \in 1 .. Len(q) : q[k] = t) /\ t # q[1]
  <2>1. ASSUME NEW k \in 1 .. Len(r), r[k] = t
        PROVE  (\E i \in 1 .. Len(q) : q[i] = t) /\ t # q[1]
    <3>1. k + 1 \in 1 .. Len(q) /\ q[k + 1] = t /\ k + 1 # 1
      BY <1>1, <1>4, <2>1
    <3>2. 1 \in 1 .. Len(q)
      BY <1>1
    <3>3. QED
      BY <3>1, <3>2
  <2>2. ASSUME NEW k \in 1 .. Len(q), q[k] = t, t # q[1]
        PROVE  \E i \in 1 .. Len(r) : r[i] = t
    <3>1. k # 1
      BY <2>2
    <3>2. k - 1 \in 1 .. Len(r) /\ r[k - 1] = q[k]
      BY <3>1, <1>1, <1>4
    <3>3. QED
      BY <3>2, <2>2
  <2>3. QED
    BY <2>1, <2>2
<1>6. \A j, k \in 1 .. Len(r) : r[j] = r[k] => j = k
  <2> SUFFICES ASSUME NEW j \in 1 .. Len(r), NEW k \in 1 .. Len(r), r[j] = r[k]
               PROVE  j = k
    OBVIOUS
  <2>1. j + 1 \in 1 .. Len(q) /\ k + 1 \in 1 .. Len(q) /\ q[j + 1] = q[k + 1]
    BY <1>1, <1>4
  <2>2. j + 1 = k + 1
    BY <2>1
  <2>3. QED
    BY <2>2, <1>1, <1>4
<1>7. ExactQueue(r, st, q[1])
  BY <1>5, <1>6 DEF ExactQueue
<1>8. QED
  BY <1>2, <1>3, <1>4, <1>7 DEF r

\* An exact queue with one more task at its end.
LEMMA AppendExact ==
  ASSUME NEW q \in Seq(Tasks), NEW t \in Tasks,
         \A k \in 1 .. Len(q) : q[k] # t,
         \A j, k \in 1 .. Len(q) : q[j] = q[k] => j = k
  PROVE  LET p == Append(q, t)
         IN  /\ p \in Seq(Tasks) /\ Len(p) = Len(q) + 1
             /\ \A s \in Tasks : (\E k \in 1 .. Len(p) : p[k] = s)
                                  <=> (\E k \in 1 .. Len(q) : q[k] = s) \/ s = t
             /\ \A j, k \in 1 .. Len(p) : p[j] = p[k] => j = k
<1> DEFINE p == Append(q, t)
<1>1. /\ Len(q) \in Nat /\ p \in Seq(Tasks) /\ Len(p) = Len(q) + 1
      /\ \A i \in 1 .. Len(q) : p[i] = q[i]
      /\ p[Len(q) + 1] = t
  BY AppendProperties, LenProperties
<1> HIDE DEF p
<1>2. \A k \in 1 .. Len(p) : k \in 1 .. Len(q) \/ k = Len(q) + 1
  BY <1>1
<1>3. \A k \in 1 .. Len(q) : k \in 1 .. Len(p)
  BY <1>1
<1>4. Len(q) + 1 \in 1 .. Len(p)
  BY <1>1
<1>5. \A s \in Tasks : (\E k \in 1 .. Len(p) : p[k] = s)
                        <=> (\E k \in 1 .. Len(q) : q[k] = s) \/ s = t
  BY <1>1, <1>2, <1>3, <1>4
<1>6. \A j, k \in 1 .. Len(p) : p[j] = p[k] => j = k
  BY <1>1, <1>2
<1>7. QED
  BY <1>1, <1>5, <1>6 DEF p

\* scheduler_yield_current_task: the caller goes to the end of the queue and
\* the head runs.
LEMMA YieldKeepsQueue ==
  ASSUME TypeOK, Running, CurrentLive, QueueExact, PickNext(state)
  PROVE  /\ queue' \in Seq(Tasks) /\ current' \in Tasks
         /\ current' # Idle /\ state[current'] = "runnable"
         /\ ExactQueue(queue', state, current')
<1> DEFINE q == Append(queue, current)
<1>1. /\ queue \in Seq(Tasks) /\ current \in Tasks
      /\ \A t \in Tasks : (\E k \in 1 .. Len(queue) : queue[k] = t)
                           <=> (state[t] = "runnable" /\ t # Idle /\ t # current)
      /\ \A j, k \in 1 .. Len(queue) : queue[j] = queue[k] => j = k
  BY DEF TypeOK, QueueExact, ExactQueue
<1>2. \A k \in 1 .. Len(queue) : queue[k] # current
  BY <1>1
<1>3. /\ q \in Seq(Tasks) /\ Len(q) = Len(queue) + 1
      /\ \A s \in Tasks : (\E k \in 1 .. Len(q) : q[k] = s)
                           <=> (\E k \in 1 .. Len(queue) : queue[k] = s) \/ s = current
      /\ \A j, k \in 1 .. Len(q) : q[j] = q[k] => j = k
  BY <1>1, <1>2, AppendExact
<1>4. Len(q) > 0
  BY <1>1, <1>3, LenProperties
<1>5. Requeued(state) = q
  BY DEF Requeued, GoesBack, CurrentLive
<1> HIDE DEF q
<1>6. \A t \in Tasks : (\E k \in 1 .. Len(q) : q[k] = t) <=> (state[t] = "runnable" /\ t # Idle)
  BY <1>1, <1>3 DEF CurrentLive
<1>7. /\ Dequeued(q, state) = 1
      /\ SubSeq(q, 2, Len(q)) \in Seq(Tasks)
      /\ Chosen(q, state) \in Tasks /\ Chosen(q, state) # Idle
      /\ state[Chosen(q, state)] = "runnable"
      /\ ExactQueue(SubSeq(q, 2, Len(q)), state, Chosen(q, state))
  BY <1>3, <1>4, <1>6, ExactAfterPick
<1>8. queue' = SubSeq(q, 2, Len(q)) /\ current' = Chosen(q, state)
  BY <1>5, <1>7 DEF PickNext, Left
<1>9. QED
  BY <1>7, <1>8

\* scheduler_exit_current_task: the caller does not go back; the kernel task
\* is in the queue, so there is a head to run.
LEMMA ExitKeepsQueue ==
  ASSUME TypeOK, Running, CurrentLive, QueueExact, KernelSlots, current # KernelTask,
         NEW st, PickNext(st),
         \A t \in Tasks : st[t] = IF t = current THEN "exited" ELSE state[t]
  PROVE  /\ queue' \in Seq(Tasks) /\ current' \in Tasks /\ current' # current
         /\ current' # Idle /\ st[current'] = "runnable"
         /\ ExactQueue(queue', st, current')
<1> DEFINE q == queue
<1>0. KernelTask \in Tasks
  BY MaxTasksAssumption DEF Tasks, KernelTask
<1>1. /\ queue \in Seq(Tasks) /\ current \in Tasks
      /\ \A t \in Tasks : (\E k \in 1 .. Len(queue) : queue[k] = t)
                           <=> (state[t] = "runnable" /\ t # Idle /\ t # current)
      /\ \A j, k \in 1 .. Len(queue) : queue[j] = queue[k] => j = k
  BY DEF TypeOK, QueueExact, ExactQueue
<1>3. \E k \in 1 .. Len(queue) : queue[k] = KernelTask
  BY <1>0, <1>1 DEF KernelSlots, Idle, KernelTask
<1>4. Len(queue) > 0
  BY <1>1, <1>3, LenProperties
<1>5. Requeued(st) = queue
  BY <1>1 DEF Requeued, GoesBack
<1>6. \A t \in Tasks : (\E k \in 1 .. Len(q) : q[k] = t) <=> (st[t] = "runnable" /\ t # Idle)
  BY <1>1
<1>7. /\ q \in Seq(Tasks) /\ Len(q) > 0 /\ Requeued(st) = q
      /\ \A j, k \in 1 .. Len(q) : q[j] = q[k] => j = k
  BY <1>1, <1>4, <1>5
<1> HIDE DEF q
<1>8. /\ Dequeued(q, st) = 1
      /\ SubSeq(q, 2, Len(q)) \in Seq(Tasks)
      /\ Chosen(q, st) \in Tasks /\ Chosen(q, st) # Idle
      /\ st[Chosen(q, st)] = "runnable"
      /\ ExactQueue(SubSeq(q, 2, Len(q)), st, Chosen(q, st))
  BY <1>6, <1>7, ExactAfterPick
<1>9. queue' = SubSeq(q, 2, Len(q)) /\ current' = Chosen(q, st)
  BY <1>7, <1>8 DEF PickNext, Left
<1>10. QED
  BY <1>1, <1>8, <1>9

\* An exact queue is shorter than its capacity by the pigeonhole principle: its
\* entries are distinct and neither the idle task nor the current one.
LEMMA QueueShort ==
  ASSUME TypeOK, Running, CurrentLive, QueueExact
  PROVE  Len(queue) <= MaxTasks - 2
<1> DEFINE T == (Tasks \ {Idle}) \ {current}
<1>0. Idle \in Tasks /\ current # Idle
  BY MaxTasksAssumption DEF Tasks, Idle, CurrentLive
<1>1. /\ queue \in Seq(Tasks) /\ current \in Tasks
      /\ \A t \in Tasks : (\E k \in 1 .. Len(queue) : queue[k] = t)
                           <=> (state[t] = "runnable" /\ t # Idle /\ t # current)
      /\ \A j, k \in 1 .. Len(queue) : queue[j] = queue[k] => j = k
  BY DEF TypeOK, QueueExact, ExactQueue
<1>2. IsFiniteSet(Tasks) /\ Cardinality(Tasks) = MaxTasks
  <2>1. 0 \in Int /\ MaxTasks - 1 \in Int /\ ~(0 > MaxTasks - 1) /\ MaxTasks - 1 - 0 + 1 = MaxTasks
    BY MaxTasksAssumption
  <2>2. QED
    BY <2>1, FS_Interval DEF Tasks
<1>3. IsFiniteSet(Tasks \ {Idle}) /\ Cardinality(Tasks \ {Idle}) = MaxTasks - 1
  BY <1>0, <1>2, FS_RemoveElement
<1>4. IsFiniteSet(T) /\ Cardinality(T) = MaxTasks - 2
  <2>1. current \in Tasks \ {Idle}
    BY <1>0, <1>1
  <2>2. IsFiniteSet(T) /\ Cardinality(T) = (MaxTasks - 1) - 1
    BY <1>3, <2>1, FS_RemoveElement
  <2>3. QED
    BY <2>2, MaxTasksAssumption
<1>5. Len(queue) \in Nat /\ queue \in [1 .. Len(queue) -> Tasks]
  BY <1>1, LenProperties
<1>6. queue \in [1 .. Len(queue) -> T]
  BY <1>1, <1>5
<1>7. IsFiniteSet(1 .. Len(queue)) /\ Cardinality(1 .. Len(queue)) = Len(queue)
  <2>1. 1 \in Int /\ Len(queue) \in Int
    BY <1>5
  <2>2. /\ IsFiniteSet(1 .. Len(queue))
        /\ Cardinality(1 .. Len(queue)) = IF 1 > Len(queue) THEN 0 ELSE Len(queue) - 1 + 1
    BY <2>1, FS_Interval
  <2>3. QED
    BY <2>2, <1>5
<1> HIDE DEF T
<1>8. ~(Cardinality(T) < Cardinality(1 .. Len(queue)))
  BY <1>1, <1>4, <1>6, <1>7, FS_PigeonHole
<1>9. QED
  BY <1>4, <1>5, <1>7, <1>8, MaxTasksAssumption

-----------------------------------------------------------------------------
(***************************************************************************)
(* The invariant, action by action.                                        *)
(***************************************************************************)

\* Slots 0 and 1 exist and are different.
LEMMA SlotsExist ==
  /\ Idle \in Tasks /\ KernelTask \in Tasks /\ Idle # KernelTask
  /\ \A t \in Tasks : t \in Nat /\ t < MaxTasks
  /\ \A t \in Tasks : t > KernelTask <=> t # Idle /\ t # KernelTask
BY MaxTasksAssumption DEF Tasks, Idle, KernelTask

\* The state scheduler_init_bootstrap_tasks leaves.
LEMMA InitInv == Init => Inv
<1> SUFFICES ASSUME Init PROVE Inv
  OBVIOUS
<1>1. TypeOK
  BY SlotsExist, MaxTasksAssumption DEF Init, TypeOK, Tasks, Idle, KernelTask, NoWait, NoTask
<1>2. BootInv /\ KernelSlots /\ CurrentLive /\ QueueExact /\ NoInternalPanic /\ HardwareMatchesCurrent
  BY SlotsExist DEF Init, BootInv, KernelSlots, CurrentLive, QueueExact, NoInternalPanic,
                    HardwareMatchesCurrent, Running
<1>3. ParentsLive /\ WaitTargetIsChild
  BY SlotsExist DEF Init, ParentsLive, WaitTargetIsChild
<1>4. TaskCountTight
  BY MaxTasksAssumption DEF Init, TaskCountTight, Tasks, Idle, KernelTask
<1>5. QED
  BY <1>1, <1>2, <1>3, <1>4 DEF Inv

\* The task count covers the kernel's slots and every task in the table.
LEMMA CountCovers ==
  ASSUME Inv
  PROVE  /\ taskCount \in Nat /\ taskCount <= MaxTasks /\ KernelTask < taskCount
         /\ taskCount - 1 \in Tasks
         /\ \A t \in Tasks : state[t] # "empty" => t < taskCount
<1>1. taskCount \in 0 .. MaxTasks
  BY DEF Inv, TypeOK
<1>2. taskCount \in Nat /\ taskCount <= MaxTasks
  BY <1>1, MaxTasksAssumption
<1>3. \A t \in Tasks : ~(t < taskCount) => t >= taskCount
  BY <1>2, SlotsExist
<1>4. \A t \in Tasks : state[t] # "empty" => t < taskCount
  BY <1>3 DEF Inv, TaskCountTight
<1>5. KernelTask < taskCount
  BY <1>4, SlotsExist DEF Inv, KernelSlots
<1>6. taskCount - 1 \in Tasks
  BY <1>2, <1>5, MaxTasksAssumption DEF Tasks, KernelTask
<1>7. QED
  BY <1>2, <1>4, <1>5, <1>6

\* Every path that yields (sys_yield, the timer, waitpid) keeps what does not
\* depend on the wait the caller is in.
LEMMA YieldStep ==
  ASSUME Inv, Running, YieldCurrent, UNCHANGED <<phase, table, taskCount>>
  PROVE  /\ queue' \in Seq(Tasks) /\ current' \in Tasks /\ halted' = halted
         /\ rsp0' \in Tasks \cup {NoTask} /\ cr3' \in Tasks
         /\ BootInv' /\ KernelSlots' /\ CurrentLive' /\ QueueExact' /\ NoInternalPanic'
         /\ ParentsLive' /\ TaskCountTight' /\ HardwareMatchesCurrent'
<1>1. /\ queue' \in Seq(Tasks) /\ current' \in Tasks
      /\ current' # Idle /\ state[current'] = "runnable"
      /\ ExactQueue(queue', state, current')
  BY YieldKeepsQueue DEF Inv, YieldCurrent
<1>2. state' = state /\ mode' = mode /\ parent' = parent /\ taskCount' = taskCount /\ phase' = phase
  BY DEF table
<1>3. halted' = halted
  <2>1. Len(queue) \in Nat /\ Len(queue) <= MaxTasks - 2
    BY QueueShort, LenProperties DEF Inv, TypeOK
  <2>2. ~(Len(queue) >= ReadyCap)
    BY <2>1, MaxTasksAssumption, ReadyCapAssumption
  <2>3. QED
    BY <2>2 DEF YieldCurrent, EnqueuePanic
<1>4. rsp0' = current' /\ cr3' = RootOf(current')
  <2>1. rsp0 = current /\ cr3 = RootOf(current)
    BY DEF Inv, HardwareMatchesCurrent
  <2>2. CASE current' = current
    BY <2>1, <2>2 DEF YieldCurrent, SwitchTo, hw
  <2>3. CASE current' # current
    BY <2>3 DEF YieldCurrent, SwitchTo, LoadTask
  <2>4. QED
    BY <2>2, <2>3
<1>5. RootOf(current') \in Tasks
  BY <1>1, <1>2, SlotsExist DEF RootOf
<1>6. HardwareMatchesCurrent'
  BY <1>2, <1>4 DEF HardwareMatchesCurrent, RootOf
<1>7. CurrentLive' /\ QueueExact' /\ NoInternalPanic'
  BY <1>1, <1>2, <1>3 DEF CurrentLive, QueueExact, NoInternalPanic, Inv, ExactQueue
<1>8. BootInv' /\ KernelSlots' /\ ParentsLive' /\ TaskCountTight'
  BY <1>2 DEF Inv, BootInv, KernelSlots, ParentsLive, TaskCountTight, Running
<1>9. QED
  BY <1>1, <1>3, <1>4, <1>5, <1>6, <1>7, <1>8

\* A step that changes nothing but the boot phase, the reason for the halt or
\* what the CPU has loaded keeps the parts that read the table.
LEMMA TableKept ==
  ASSUME Inv, UNCHANGED <<table, taskCount, current, waitFor>>
  PROVE  /\ KernelSlots' /\ CurrentLive' /\ ParentsLive'
         /\ WaitTargetIsChild' /\ TaskCountTight'
BY DEF Inv, table, KernelSlots, CurrentLive, ParentsLive, WaitTargetIsChild, TaskCountTight

\* scheduler_self_test: the first pick drains the idle task and leaves the
\* kernel task current; later picks change nothing.
LEMMA SelfTestPickInv == Inv /\ SelfTestPick => Inv'
<1> SUFFICES ASSUME Inv, SelfTestPick PROVE Inv'
  OBVIOUS
<1>1. /\ phase \in {"boot", "tested"} /\ phase' = "tested" /\ ~Running
      /\ UNCHANGED <<table, taskCount, waitFor, hw>>
  BY DEF SelfTestPick, Running
<1>2. current = KernelTask /\ current # Idle /\ state[current] = "runnable"
  BY <1>1, SlotsExist DEF Inv, BootInv, KernelSlots
<1>3. Requeued(state) = Append(queue, KernelTask) /\ GoesBack(state)
  BY <1>2 DEF Requeued, GoesBack
<1>4. queue' = << >> /\ current' = KernelTask
  <2>1. CASE phase = "boot"
    <3> DEFINE q == Append(queue, KernelTask)
    <3>1. Requeued(state) = q
      BY <1>3
    <3>2. Len(q) = 2 /\ q[1] = Idle /\ q[2] = KernelTask
      <4>1. queue = <<Idle>> /\ queue \in Seq(Tasks) /\ Len(queue) = 1 /\ queue[1] = Idle
        <5>1. queue = <<Idle>> /\ queue \in Seq(Tasks)
          BY <2>1 DEF Inv, BootInv, TypeOK
        <5>2. QED
          BY <5>1
      <4>2. QED
        BY <4>1, SlotsExist, AppendProperties
    <3> HIDE DEF q
    <3>3. Eligible(q, state) = {2}
      BY <3>2, <1>2 DEF Eligible
    <3>4. Dequeued(q, state) = 2 /\ Chosen(q, state) = KernelTask
      <4>1. Dequeued(q, state) \in {2}
        BY <3>3 DEF Dequeued
      <4>2. QED
        BY <4>1, <3>2, <3>3 DEF Chosen
    <3>5. SubSeq(q, 3, 2) = << >>
      BY SubSeqEmpty
    <3>6. QED
      BY <3>1, <3>2, <3>4, <3>5 DEF SelfTestPick, PickNext, Left
  <2>2. CASE phase = "tested"
    <3> DEFINE q == Append(queue, KernelTask)
    <3>1. Requeued(state) = q
      BY <1>3
    <3>2. Len(q) = 1 /\ q[1] = KernelTask /\ q \in Seq(Tasks)
      <4>1. queue = << >> /\ queue \in Seq(Tasks) /\ Len(queue) = 0
        BY <2>2 DEF Inv, BootInv
      <4>2. QED
        BY <4>1, SlotsExist, AppendProperties
    <3> HIDE DEF q
    <3>3. Dequeued(q, state) = 1 /\ Chosen(q, state) = KernelTask
      BY <3>2, <1>2, PickHead
    <3>4. SubSeq(q, 2, 1) = << >>
      BY SubSeqEmpty
    <3>5. QED
      BY <3>1, <3>2, <3>3, <3>4 DEF SelfTestPick, PickNext, Left
  <2>3. QED
    BY <1>1, <2>1, <2>2
<1>5. halted' = halted
  <2>1. Len(queue) \in {0, 1}
    BY <1>1 DEF Inv, BootInv
  <2>2. ~(Len(queue) >= ReadyCap)
    BY <2>1, MaxTasksAssumption, ReadyCapAssumption
  <2>3. QED
    BY <2>2 DEF SelfTestPick, EnqueuePanic
<1>6. TypeOK'
  <2>1. queue' \in Seq(Tasks) /\ current' \in Tasks
    BY <1>4, SlotsExist
  <2>2. QED
    BY <1>1, <1>5, <2>1 DEF Inv, TypeOK, table, hw
<1>7. KernelSlots' /\ CurrentLive' /\ ParentsLive' /\ WaitTargetIsChild' /\ TaskCountTight'
  BY <1>1, <1>2, <1>4, TableKept
<1>8. BootInv' /\ QueueExact' /\ NoInternalPanic' /\ HardwareMatchesCurrent'
  BY <1>1, <1>4, <1>5 DEF Inv, BootInv, QueueExact, NoInternalPanic, HardwareMatchesCurrent,
                          Running, table
<1>9. QED
  BY <1>6, <1>7, <1>8 DEF Inv

\* scheduler_enter_first_task: from here on the queue is exact.
LEMMA EnterFirstTaskInv == Inv /\ EnterFirstTask => Inv'
<1> SUFFICES ASSUME Inv, EnterFirstTask PROVE Inv'
  OBVIOUS
<1>1. /\ phase = "tested" /\ phase' = "running" /\ ~Running
      /\ UNCHANGED <<halted, table, taskCount, current, queue, waitFor>>
      /\ rsp0' = current /\ cr3' = RootOf(current)
  BY DEF EnterFirstTask, LoadTask, Running
<1>2. queue = << >> /\ current = KernelTask /\ RootOf(current) = Idle
  BY <1>1, SlotsExist DEF Inv, BootInv, KernelSlots, RootOf
<1>3. TypeOK'
  BY <1>1, <1>2, SlotsExist DEF Inv, TypeOK, table
<1>4. KernelSlots' /\ CurrentLive' /\ ParentsLive' /\ WaitTargetIsChild' /\ TaskCountTight'
  BY <1>1, TableKept
<1>5. ExactQueue(queue, state, current)
  <2>1. \A t \in Tasks : state[t] = "runnable" => t = Idle \/ t = current
    BY <1>1, <1>2, SlotsExist DEF Inv, BootInv
  <2>2. Len(queue) = 0
    BY <1>2
  <2>3. QED
    BY <2>1, <2>2 DEF ExactQueue
<1>6. BootInv' /\ QueueExact' /\ NoInternalPanic' /\ HardwareMatchesCurrent'
  BY <1>1, <1>5 DEF Inv, BootInv, QueueExact, NoInternalPanic, HardwareMatchesCurrent,
                    Running, RootOf, table
<1>7. QED
  BY <1>3, <1>4, <1>6 DEF Inv

\* sys_yield and preemption by the timer.
LEMMA YieldInv == Inv /\ (Yield \/ TimerIrq) => Inv'
<1> SUFFICES ASSUME Inv, Yield \/ TimerIrq PROVE Inv'
  OBVIOUS
<1>1. Running /\ YieldCurrent /\ UNCHANGED <<phase, table, taskCount, waitFor>>
  BY DEF Yield, TimerIrq, InProgram, Running
<1>2. /\ queue' \in Seq(Tasks) /\ current' \in Tasks /\ halted' = halted
      /\ rsp0' \in Tasks \cup {NoTask} /\ cr3' \in Tasks
      /\ BootInv' /\ KernelSlots' /\ CurrentLive' /\ QueueExact' /\ NoInternalPanic'
      /\ ParentsLive' /\ TaskCountTight' /\ HardwareMatchesCurrent'
  BY <1>1, YieldStep
<1>3. TypeOK'
  BY <1>1, <1>2 DEF Inv, TypeOK, table
<1>4. WaitTargetIsChild'
  BY <1>1 DEF Inv, WaitTargetIsChild, table
<1>5. QED
  BY <1>2, <1>3, <1>4 DEF Inv

\* Exec, the two halts a program can cause, and steps without effect.
LEMMA NoTableChangeInv ==
  Inv /\ (Exec \/ SpawnPanic \/ Fault \/ UNCHANGED vars) => Inv'
<1>1. ASSUME Inv, Exec PROVE Inv'
  <2>1. /\ Running /\ rsp0' = current /\ cr3' = RootOf(current)
        /\ UNCHANGED <<phase, halted, table, taskCount, current, queue, waitFor>>
    BY <1>1 DEF Exec, InProgram, Running, LoadTask
  <2>2. RootOf(current) \in Tasks
    BY <1>1, SlotsExist DEF Inv, TypeOK, RootOf
  <2>3. TypeOK'
    BY <1>1, <2>1, <2>2 DEF Inv, TypeOK, table
  <2>4. KernelSlots' /\ CurrentLive' /\ ParentsLive' /\ WaitTargetIsChild' /\ TaskCountTight'
    BY <1>1, <2>1, TableKept
  <2>5. BootInv' /\ QueueExact' /\ NoInternalPanic' /\ HardwareMatchesCurrent'
    BY <1>1, <2>1 DEF Inv, BootInv, QueueExact, NoInternalPanic,
                      HardwareMatchesCurrent, Running, RootOf, table
  <2>6. QED
    BY <2>3, <2>4, <2>5 DEF Inv
<1>2. ASSUME Inv, SpawnPanic \/ Fault \/ UNCHANGED vars PROVE Inv'
  <2>1. /\ UNCHANGED <<phase, table, taskCount, current, queue, waitFor, hw>>
        /\ halted' \in {halted, "scheduler task table full", "fault"}
    BY <1>2 DEF SpawnPanic, Fault, vars
  <2>2. TypeOK'
    BY <1>2, <2>1 DEF Inv, TypeOK, table, hw
  <2>3. KernelSlots' /\ CurrentLive' /\ ParentsLive' /\ WaitTargetIsChild' /\ TaskCountTight'
    BY <1>2, <2>1, TableKept
  <2>4. BootInv' /\ QueueExact' /\ NoInternalPanic' /\ HardwareMatchesCurrent'
    BY <1>2, <2>1 DEF Inv, BootInv, QueueExact, NoInternalPanic,
                      HardwareMatchesCurrent, Running, RootOf, table, hw
  <2>5. QED
    BY <2>2, <2>3, <2>4 DEF Inv
<1>3. QED
  BY <1>1, <1>2

\* scheduler_create_user_elf_task: the slot taken was empty, so nobody waits
\* for it, is its child, or is queued under its number.
LEMMA SpawnInv == \A id \in Tasks : Inv /\ Spawn(id) => Inv'
<1> SUFFICES ASSUME NEW id \in Tasks, Inv, Spawn(id) PROVE Inv'
  OBVIOUS
<1>1. /\ Running /\ id \in 0 .. taskCount /\ taskCount \in 0 .. MaxTasks
      /\ id < taskCount => state[id] = "empty"
      /\ current \in Tasks /\ current # Idle /\ state[current] = "runnable"
  BY DEF Spawn, InProgram, Running, FreeTaskId, Inv, TypeOK, CurrentLive
<1>2. state[id] = "empty"
  <2>1. CASE id < taskCount
    BY <1>1, <2>1
  <2>2. CASE ~(id < taskCount)
    <3>1. id >= taskCount
      BY <1>1, <2>2
    <3>2. QED
      BY <3>1 DEF Inv, TaskCountTight
  <2>3. QED
    BY <2>1, <2>2
<1>3. id # current /\ id # Idle /\ id # KernelTask /\ id > KernelTask
  BY <1>1, <1>2, SlotsExist DEF Inv, KernelSlots
<1>4. /\ \A t \in Tasks : state'[t] = IF t = id THEN "runnable" ELSE state[t]
      /\ \A t \in Tasks : mode'[t] = IF t = id THEN "user" ELSE mode[t]
      /\ \A t \in Tasks : parent'[t] = IF t = id THEN current ELSE parent[t]
      /\ \A t \in Tasks : waitFor'[t] = IF t = id THEN NoWait ELSE waitFor[t]
      /\ UNCHANGED <<phase, current, hw>> /\ queue' = Append(queue, id)
      /\ taskCount' = IF id >= taskCount THEN id + 1 ELSE taskCount
  BY DEF Spawn, CountWith, Inv, TypeOK
<1>5. queue \in Seq(Tasks) /\ Len(queue) \in Nat /\ Len(queue) <= MaxTasks - 2
  BY <1>1, QueueShort, LenProperties DEF Inv, TypeOK
<1>6. halted' = halted
  <2>1. ~(Len(queue) >= ReadyCap)
    BY <1>5, MaxTasksAssumption, ReadyCapAssumption
  <2>2. QED
    BY <2>1 DEF Spawn, EnqueuePanic
<1>7. queue' \in Seq(Tasks) /\ ExactQueue(queue', state', current)
  <2>1. /\ \A t \in Tasks : (\E k \in 1 .. Len(queue) : queue[k] = t)
                             <=> (state[t] = "runnable" /\ t # Idle /\ t # current)
        /\ \A j, k \in 1 .. Len(queue) : queue[j] = queue[k] => j = k
    BY <1>1 DEF Inv, QueueExact, ExactQueue
  <2>2. \A k \in 1 .. Len(queue) : queue[k] # id
    BY <1>2, <2>1
  <2> DEFINE p == Append(queue, id)
  <2>3. /\ p \in Seq(Tasks)
        /\ \A s \in Tasks : (\E k \in 1 .. Len(p) : p[k] = s)
                             <=> (\E k \in 1 .. Len(queue) : queue[k] = s) \/ s = id
        /\ \A j, k \in 1 .. Len(p) : p[j] = p[k] => j = k
    BY <1>5, <2>1, <2>2, AppendExact
  <2>4. queue' = p
    BY <1>4
  <2> HIDE DEF p
  <2>5. QED
    BY <2>1, <2>3, <2>4, <1>3, <1>4 DEF ExactQueue
<1>8. TypeOK'
  <2>1. taskCount' \in 0 .. MaxTasks
    BY <1>1, <1>4, SlotsExist, MaxTasksAssumption
  <2>2. /\ state' \in [Tasks -> {"empty", "runnable", "exited"}]
        /\ mode' \in [Tasks -> {"none", "kernel", "user"}]
        /\ parent' \in [Tasks -> Tasks] /\ exitCode' \in [Tasks -> Int]
        /\ waitFor' \in [Tasks -> {NoWait, AnyChild} \cup Tasks]
    <3>1. state' \in [Tasks -> {"empty", "runnable", "exited"}]
      BY DEF Spawn, Inv, TypeOK
    <3>2. mode' \in [Tasks -> {"none", "kernel", "user"}]
      BY DEF Spawn, Inv, TypeOK
    <3>3. parent' \in [Tasks -> Tasks]
      BY <1>1 DEF Spawn, Inv, TypeOK
    <3>4. exitCode' \in [Tasks -> Int]
      <4>1. exitCode \in [Tasks -> Int] /\ exitCode' = [exitCode EXCEPT ![id] = 0]
        BY DEF Spawn, Inv, TypeOK
      <4>2. QED
        BY <4>1
    <3>5. waitFor' \in [Tasks -> {NoWait, AnyChild} \cup Tasks]
      BY DEF Spawn, Inv, TypeOK
    <3>6. QED
      BY <3>1, <3>2, <3>3, <3>4, <3>5
  <2>3. QED
    BY <1>4, <1>6, <1>7, <2>1, <2>2 DEF Inv, TypeOK, hw
<1>9. KernelSlots' /\ CurrentLive' /\ QueueExact' /\ NoInternalPanic' /\ HardwareMatchesCurrent'
  <2>1. KernelSlots' /\ CurrentLive'
    BY <1>1, <1>3, <1>4, SlotsExist DEF Inv, KernelSlots, CurrentLive
  <2>2. HardwareMatchesCurrent'
    BY <1>1, <1>3, <1>4 DEF Inv, HardwareMatchesCurrent, Running, RootOf, hw
  <2>3. QueueExact' /\ NoInternalPanic'
    BY <1>4, <1>6, <1>7 DEF Inv, QueueExact, NoInternalPanic
  <2>4. QED
    BY <2>1, <2>2, <2>3
<1>10. BootInv'
  BY <1>1, <1>4 DEF BootInv, Running
<1>11. ParentsLive'
  <2> SUFFICES ASSUME NEW t \in Tasks, t > KernelTask, state'[t] # "empty"
               PROVE  parent'[t] # t /\ parent'[t] # Idle /\ state'[parent'[t]] = "runnable"
    BY DEF ParentsLive
  <2>1. CASE t = id
    BY <2>1, <1>1, <1>3, <1>4
  <2>2. CASE t # id
    <3>1. parent[t] \in Tasks /\ parent[t] # t /\ parent[t] # Idle /\ state[parent[t]] = "runnable"
      BY <2>2, <1>4 DEF Inv, ParentsLive, TypeOK
    <3>2. QED
      BY <3>1, <2>2, <1>2, <1>4
  <2>3. QED
    BY <2>1, <2>2
<1>12. WaitTargetIsChild'
  <2> SUFFICES ASSUME NEW t \in Tasks, waitFor'[t] # NoWait
               PROVE  /\ state'[t] = "runnable"
                      /\ IF waitFor'[t] = AnyChild
                           THEN \E c \in Tasks : state'[c] # "empty" /\ parent'[c] = t
                           ELSE state'[waitFor'[t]] # "empty" /\ parent'[waitFor'[t]] = t
    BY DEF WaitTargetIsChild
  <2>1. t # id /\ waitFor'[t] = waitFor[t] /\ waitFor[t] # NoWait
    BY <1>4
  <2>2. /\ state[t] = "runnable"
        /\ IF waitFor[t] = AnyChild
             THEN \E c \in Tasks : state[c] # "empty" /\ parent[c] = t
             ELSE state[waitFor[t]] # "empty" /\ parent[waitFor[t]] = t
    BY <2>1 DEF Inv, WaitTargetIsChild
  <2>3. CASE waitFor[t] = AnyChild
    BY <2>1, <2>2, <2>3, <1>2, <1>4
  <2>4. CASE waitFor[t] # AnyChild
    <3>1. waitFor[t] \in Tasks
      BY <2>1, <2>4 DEF Inv, TypeOK
    <3>2. QED
      BY <3>1, <2>1, <2>2, <2>4, <1>2, <1>4
  <2>5. QED
    BY <2>3, <2>4
<1>13. TaskCountTight'
  <2>1. CASE id >= taskCount
    BY <2>1, <1>1, <1>4, SlotsExist DEF Inv, TaskCountTight
  <2>2. CASE ~(id >= taskCount)
    <3>1. taskCount' = taskCount /\ taskCount - 1 \in Tasks
      BY <2>2, <1>1, <1>4, MaxTasksAssumption DEF Tasks
    <3>2. QED
      <4>1. state[taskCount - 1] # "empty"
        BY DEF Inv, TaskCountTight
      <4>2. state'[taskCount - 1] # "empty"
        BY <4>1, <3>1, <1>2, <1>4
      <4>3. QED
        BY <4>2, <3>1, <2>2, <1>1, <1>4, SlotsExist DEF Inv, TaskCountTight
  <2>3. QED
    BY <2>1, <2>2
<1>14. QED
  BY <1>8, <1>9, <1>10, <1>11, <1>12, <1>13 DEF Inv

\* scheduler_exit_current_task: the children pass to the kernel task in the
\* same step, and nobody waits for a child of the task that exits.
LEMMA ExitInv == \A code \in ExitCodes : Inv /\ Exit(code) => Inv'
<1> SUFFICES ASSUME NEW code \in ExitCodes, Inv, Exit(code) PROVE Inv'
  OBVIOUS
<1>1. /\ Running /\ waitFor[current] = NoWait /\ mode[current] = "user"
      /\ UNCHANGED <<phase, mode, taskCount, waitFor>> /\ PickNext(state')
      /\ current \in Tasks /\ current # Idle /\ state[current] = "runnable"
  BY DEF Exit, InProgram, Running, Inv, TypeOK, CurrentLive
<1>2. current # KernelTask
  BY <1>1 DEF Inv, KernelSlots
<1>3. \A t \in Tasks : state'[t] = IF t = current THEN "exited" ELSE state[t]
  BY DEF Exit, Inv, TypeOK
<1>4. /\ queue' \in Seq(Tasks) /\ current' \in Tasks /\ current' # current
      /\ current' # Idle /\ state'[current'] = "runnable"
      /\ ExactQueue(queue', state', current')
  BY <1>1, <1>2, <1>3, ExitKeepsQueue DEF Inv
<1>5. halted' = halted
  BY <1>4 DEF Exit
<1>6. rsp0' = current' /\ cr3' = RootOf(current') /\ RootOf(current') \in Tasks
  <2>1. rsp0' = current' /\ cr3' = RootOf(current')
    BY <1>4 DEF Exit, SwitchTo, LoadTask
  <2>2. RootOf(current') \in Tasks
    BY <1>4, SlotsExist DEF RootOf
  <2>3. QED
    BY <2>1, <2>2
<1>7. /\ taskCount \in Nat /\ KernelTask < taskCount
      /\ \A t \in Tasks : state[t] # "empty" => t < taskCount
  BY CountCovers
<1>8. ReparentTarget = KernelTask
  BY <1>2, <1>7 DEF ReparentTarget, KernelTask
<1>9. \A t \in Tasks : parent'[t] = IF state[t] # "empty" /\ parent[t] = current
                                      THEN KernelTask ELSE parent[t]
  BY <1>7, <1>8 DEF Exit, Reparented
<1>10. TypeOK'
  <2>1. state' \in [Tasks -> {"empty", "runnable", "exited"}]
    BY DEF Exit, Inv, TypeOK
  <2>2. exitCode' \in [Tasks -> Int]
    <3>1. exitCode \in [Tasks -> Int] /\ exitCode' = [exitCode EXCEPT ![current] = code]
      BY DEF Exit, Inv, TypeOK
    <3>2. QED
      BY <3>1, ExitCodesAssumption
  <2>3. parent' \in [Tasks -> Tasks]
    BY <1>8, SlotsExist DEF Exit, Reparented, Inv, TypeOK
  <2>4. QED
    BY <1>1, <1>4, <1>5, <1>6, <2>1, <2>2, <2>3 DEF Inv, TypeOK
<1>11. KernelSlots' /\ CurrentLive' /\ QueueExact' /\ NoInternalPanic'
  BY <1>1, <1>2, <1>3, <1>4, <1>5, SlotsExist
     DEF Inv, KernelSlots, CurrentLive, QueueExact, NoInternalPanic
<1>12. HardwareMatchesCurrent' /\ BootInv'
  BY <1>1, <1>6 DEF HardwareMatchesCurrent, BootInv, Running, RootOf
<1>13. ParentsLive'
  <2> SUFFICES ASSUME NEW t \in Tasks, t > KernelTask, state'[t] # "empty"
               PROVE  parent'[t] # t /\ parent'[t] # Idle /\ state'[parent'[t]] = "runnable"
    BY DEF ParentsLive
  <2>1. state[t] # "empty" /\ t # KernelTask
    BY <1>1, <1>3, SlotsExist
  <2>2. CASE parent[t] = current
    BY <2>1, <2>2, <1>2, <1>3, <1>9, SlotsExist DEF Inv, KernelSlots
  <2>3. CASE parent[t] # current
    <3>1. parent[t] \in Tasks /\ parent[t] # t /\ parent[t] # Idle /\ state[parent[t]] = "runnable"
      BY <2>1 DEF Inv, ParentsLive, TypeOK
    <3>2. QED
      BY <3>1, <2>3, <1>3, <1>9
  <2>4. QED
    BY <2>2, <2>3
<1>14. WaitTargetIsChild'
  <2> SUFFICES ASSUME NEW t \in Tasks, waitFor'[t] # NoWait
               PROVE  /\ state'[t] = "runnable"
                      /\ IF waitFor'[t] = AnyChild
                           THEN \E c \in Tasks : state'[c] # "empty" /\ parent'[c] = t
                           ELSE state'[waitFor'[t]] # "empty" /\ parent'[waitFor'[t]] = t
    BY DEF WaitTargetIsChild
  <2>1. t # current /\ waitFor'[t] = waitFor[t] /\ waitFor[t] # NoWait
    BY <1>1
  <2>2. /\ state[t] = "runnable"
        /\ IF waitFor[t] = AnyChild
             THEN \E c \in Tasks : state[c] # "empty" /\ parent[c] = t
             ELSE state[waitFor[t]] # "empty" /\ parent[waitFor[t]] = t
    BY <2>1 DEF Inv, WaitTargetIsChild
  <2>3. CASE waitFor[t] = AnyChild
    BY <2>1, <2>2, <2>3, <1>3, <1>9
  <2>4. CASE waitFor[t] # AnyChild
    <3>1. waitFor[t] \in Tasks
      BY <2>1, <2>4 DEF Inv, TypeOK
    <3>2. QED
      BY <3>1, <2>1, <2>2, <2>4, <1>3, <1>9
  <2>5. QED
    BY <2>3, <2>4
<1>15. TaskCountTight'
  BY <1>1, <1>3, CountCovers DEF Inv, TaskCountTight
<1>16. QED
  BY <1>10, <1>11, <1>12, <1>13, <1>14, <1>15 DEF Inv

\* The wait for arg that the current task makes or is inside of.
WaitBy(arg) ==
  /\ arg \in Tasks \cup {AnyChild}
  /\ IF arg = AnyChild
       THEN \E c \in Tasks : state[c] # "empty" /\ parent[c] = current
       ELSE state[arg] # "empty" /\ parent[arg] = current

\* waitpid's checks at the call, or the invariant after it was resumed, give
\* what the loop relies on.
LEMMA WaitIsForChild ==
  ASSUME Inv
  PROVE  /\ \A arg \in WaitArgs : InProgram /\ WaitAccepted(arg) => Running /\ WaitBy(arg)
         /\ Spinning => Running /\ WaitBy(waitFor[current])
<1>1. taskCount \in 0 .. MaxTasks /\ current \in Tasks
  BY DEF Inv, TypeOK
<1>2. ASSUME NEW arg \in WaitArgs, InProgram, WaitAccepted(arg)
      PROVE  Running /\ WaitBy(arg)
  <2>1. arg \in Tasks \cup {AnyChild}
    BY <1>1, <1>2, MaxTasksAssumption DEF WaitAccepted, Tasks, AnyChild, WaitArgs
  <2>2. \A c \in 0 .. taskCount - 1 : c \in Tasks
    BY <1>1, MaxTasksAssumption DEF Tasks
  <2>3. QED
    BY <1>2, <2>1, <2>2 DEF WaitBy, WaitAccepted, InProgram, Running
<1>3. ASSUME Spinning PROVE Running /\ WaitBy(waitFor[current])
  <2>1. waitFor[current] \in Tasks \cup {AnyChild}
    BY <1>1, <1>3 DEF Inv, TypeOK, Spinning
  <2>2. QED
    BY <1>1, <1>3, <2>1 DEF WaitBy, Inv, WaitTargetIsChild, Spinning, Running
<1>4. QED
  BY <1>2, <1>3

\* The child is collected: its slot is released and the table shrinks.
LEMMA CollectInv ==
  ASSUME Inv, Running, NEW arg, WaitBy(arg), Collect(arg)
  PROVE  Inv'
<1>1. PICK c \in Tasks : Collectable(arg, c) /\ ReleaseSlot(c)
  BY DEF Collect
<1>2. current \in Tasks /\ current # Idle /\ state[current] = "runnable"
  BY DEF Inv, TypeOK, CurrentLive
<1>3. state[c] = "exited" /\ parent[c] = current
  BY <1>1 DEF Collectable, WaitBy
<1>4. c # current /\ c # Idle /\ c # KernelTask
  BY <1>2, <1>3, SlotsExist DEF Inv, KernelSlots
<1>5. /\ \A t \in Tasks : state'[t] = IF t = c THEN "empty" ELSE state[t]
      /\ \A t \in Tasks : mode'[t] = IF t = c THEN "none" ELSE mode[t]
      /\ \A t \in Tasks : parent'[t] = IF t = c THEN 0 ELSE parent[t]
      /\ \A t \in Tasks : waitFor'[t] = IF t = current THEN NoWait ELSE waitFor[t]
      /\ UNCHANGED <<phase, halted, current, queue, hw>>
  <2>1. /\ state \in [Tasks -> {"empty", "runnable", "exited"}]
        /\ state' = [state EXCEPT ![c] = "empty"]
    BY <1>1 DEF ReleaseSlot, Inv, TypeOK
  <2>2. /\ mode \in [Tasks -> {"none", "kernel", "user"}]
        /\ mode' = [mode EXCEPT ![c] = "none"]
    BY <1>1 DEF ReleaseSlot, Inv, TypeOK
  <2>3. parent \in [Tasks -> Tasks] /\ parent' = [parent EXCEPT ![c] = 0]
    BY <1>1 DEF ReleaseSlot, Inv, TypeOK
  <2>4. /\ waitFor \in [Tasks -> {NoWait, AnyChild} \cup Tasks]
        /\ waitFor' = [waitFor EXCEPT ![current] = NoWait]
        /\ UNCHANGED <<phase, halted, current, queue, hw>>
    BY DEF Collect, Inv, TypeOK
  <2>5. QED
    BY <2>1, <2>2, <2>3, <2>4
<1>6. PICK n \in 0 .. taskCount : ShrinksTo(state', n) /\ taskCount' = n
  BY <1>1 DEF ReleaseSlot
<1>7. TypeOK'
  <2>1. state' \in [Tasks -> {"empty", "runnable", "exited"}]
    BY <1>1 DEF ReleaseSlot, Inv, TypeOK
  <2>2. mode' \in [Tasks -> {"none", "kernel", "user"}]
    BY <1>1 DEF ReleaseSlot, Inv, TypeOK
  <2>3. parent' \in [Tasks -> Tasks]
    <3>1. parent \in [Tasks -> Tasks] /\ parent' = [parent EXCEPT ![c] = 0] /\ 0 \in Tasks
      BY <1>1, SlotsExist DEF ReleaseSlot, Inv, TypeOK, Idle
    <3>2. QED
      BY <3>1
  <2>4. exitCode' \in [Tasks -> Int]
    <3>1. exitCode \in [Tasks -> Int] /\ exitCode' = [exitCode EXCEPT ![c] = 0]
      BY <1>1 DEF ReleaseSlot, Inv, TypeOK
    <3>2. QED
      BY <3>1
  <2>5. waitFor' \in [Tasks -> {NoWait, AnyChild} \cup Tasks]
    BY DEF Collect, Inv, TypeOK
  <2>6. taskCount' \in 0 .. MaxTasks
    BY <1>6, CountCovers, MaxTasksAssumption
  <2>7. QED
    BY <1>5, <2>1, <2>2, <2>3, <2>4, <2>5, <2>6 DEF Inv, TypeOK, hw
<1>8. KernelSlots' /\ CurrentLive' /\ NoInternalPanic' /\ BootInv'
  BY <1>2, <1>4, <1>5, SlotsExist
     DEF Inv, KernelSlots, CurrentLive, NoInternalPanic, BootInv, Running
<1>9. HardwareMatchesCurrent'
  BY <1>2, <1>4, <1>5 DEF Inv, HardwareMatchesCurrent, Running, RootOf, hw
<1>10. QueueExact'
  <2>1. ExactQueue(queue, state, current)
    BY DEF Inv, QueueExact
  <2>2. \A t \in Tasks : state'[t] = "runnable" <=> state[t] = "runnable"
    BY <1>3, <1>5
  <2>3. ExactQueue(queue, state', current)
    BY <2>1, <2>2 DEF ExactQueue
  <2>4. QED
    BY <2>3, <1>5 DEF QueueExact
<1>11. ParentsLive'
  <2> SUFFICES ASSUME NEW t \in Tasks, t > KernelTask, state'[t] # "empty"
               PROVE  parent'[t] # t /\ parent'[t] # Idle /\ state'[parent'[t]] = "runnable"
    BY DEF ParentsLive
  <2>1. t # c /\ state[t] # "empty"
    BY <1>5
  <2>2. parent[t] \in Tasks /\ parent[t] # t /\ parent[t] # Idle /\ state[parent[t]] = "runnable"
    BY <2>1 DEF Inv, ParentsLive, TypeOK
  <2>3. QED
    BY <2>1, <2>2, <1>3, <1>5
<1>12. WaitTargetIsChild'
  <2> SUFFICES ASSUME NEW t \in Tasks, waitFor'[t] # NoWait
               PROVE  /\ state'[t] = "runnable"
                      /\ IF waitFor'[t] = AnyChild
                           THEN \E b \in Tasks : state'[b] # "empty" /\ parent'[b] = t
                           ELSE state'[waitFor'[t]] # "empty" /\ parent'[waitFor'[t]] = t
    BY DEF WaitTargetIsChild
  <2>1. t # current /\ waitFor'[t] = waitFor[t] /\ waitFor[t] # NoWait
    BY <1>5
  <2>2. /\ state[t] = "runnable"
        /\ IF waitFor[t] = AnyChild
             THEN \E b \in Tasks : state[b] # "empty" /\ parent[b] = t
             ELSE state[waitFor[t]] # "empty" /\ parent[waitFor[t]] = t
    BY <2>1 DEF Inv, WaitTargetIsChild
  <2>3. state'[t] = "runnable"
    BY <2>2, <1>3, <1>5
  <2>4. CASE waitFor[t] = AnyChild
    BY <2>1, <2>2, <2>3, <2>4, <1>3, <1>5
  <2>5. CASE waitFor[t] # AnyChild
    <3>1. waitFor[t] \in Tasks
      BY <2>1, <2>5 DEF Inv, TypeOK
    <3>2. QED
      BY <3>1, <2>1, <2>2, <2>3, <2>5, <1>3, <1>5
  <2>6. QED
    BY <2>4, <2>5
<1>13. TaskCountTight'
  <2>1. /\ n \in Nat /\ n <= taskCount /\ taskCount \in Nat
        /\ \A i \in n .. taskCount - 1 : state'[i] = "empty"
        /\ n > 0 => state'[n - 1] # "empty"
    BY <1>6, CountCovers DEF ShrinksTo
  <2>2. n > 0
    <3>1. state'[Idle] # "empty"
      BY <1>4, <1>5, SlotsExist DEF Inv, KernelSlots
    <3>2. Idle \in 0 .. taskCount - 1
      BY CountCovers DEF Idle, KernelTask
    <3>3. CASE n = 0
      BY <3>1, <3>2, <3>3, <2>1
    <3>4. QED
      BY <3>3, <2>1
  <2>3. ASSUME NEW t \in Tasks, t >= n PROVE state'[t] = "empty"
    <3>1. CASE t < taskCount
      <4>1. t \in n .. taskCount - 1
        BY <3>1, <2>1, <2>3, SlotsExist
      <4>2. QED
        BY <4>1, <2>1
    <3>2. CASE ~(t < taskCount)
      BY <3>2, <1>5, CountCovers
    <3>3. QED
      BY <3>1, <3>2
  <2>4. QED
    BY <1>6, <2>1, <2>2, <2>3 DEF TaskCountTight
<1>14. QED
  BY <1>7, <1>8, <1>9, <1>10, <1>11, <1>12, <1>13 DEF Inv

\* Nothing to collect: the caller yields inside waitpid, still the parent of
\* what it waits for.
LEMMA KeepWaitingInv ==
  ASSUME Inv, Running, NEW arg, WaitBy(arg), KeepWaiting(arg)
  PROVE  Inv'
<1>1. /\ YieldCurrent /\ UNCHANGED <<phase, table, taskCount>>
      /\ waitFor' = [waitFor EXCEPT ![current] = arg]
  BY DEF KeepWaiting
<1>2. /\ queue' \in Seq(Tasks) /\ current' \in Tasks /\ halted' = halted
      /\ rsp0' \in Tasks \cup {NoTask} /\ cr3' \in Tasks
      /\ BootInv' /\ KernelSlots' /\ CurrentLive' /\ QueueExact' /\ NoInternalPanic'
      /\ ParentsLive' /\ TaskCountTight' /\ HardwareMatchesCurrent'
  BY <1>1, YieldStep
<1>3. waitFor' \in [Tasks -> {NoWait, AnyChild} \cup Tasks]
  BY <1>1 DEF WaitBy, Inv, TypeOK
<1>4. TypeOK'
  BY <1>1, <1>2, <1>3 DEF Inv, TypeOK, table
<1>5. WaitTargetIsChild'
  BY <1>1 DEF WaitBy, Inv, TypeOK, CurrentLive, WaitTargetIsChild, table
<1>6. QED
  BY <1>2, <1>4, <1>5 DEF Inv

-----------------------------------------------------------------------------
(***************************************************************************)
(* The theorems.                                                           *)
(***************************************************************************)

\* Every step preserves the invariant.
LEMMA StepInv == Inv /\ [Next]_vars => Inv'
<1> SUFFICES ASSUME Inv, [Next]_vars PROVE Inv'
  OBVIOUS
<1>1. CASE SelfTestPick
  BY <1>1, SelfTestPickInv
<1>2. CASE EnterFirstTask
  BY <1>2, EnterFirstTaskInv
<1>3. CASE Yield \/ TimerIrq
  BY <1>3, YieldInv
<1>4. CASE \E id \in Tasks : Spawn(id)
  BY <1>4, SpawnInv
<1>5. CASE \E code \in ExitCodes : Exit(code)
  BY <1>5, ExitInv
<1>6. CASE Exec \/ SpawnPanic \/ Fault \/ UNCHANGED vars
  BY <1>6, NoTableChangeInv
<1>7. ASSUME NEW arg \in WaitArgs, WaitCollect(arg) PROVE Inv'
  BY <1>7, WaitIsForChild, CollectInv DEF WaitCollect
<1>8. ASSUME NEW arg \in WaitArgs, WaitBlock(arg) PROVE Inv'
  BY <1>8, WaitIsForChild, KeepWaitingInv DEF WaitBlock
<1>9. CASE SpinCollect
  BY <1>9, WaitIsForChild, CollectInv DEF SpinCollect
<1>10. CASE SpinYield
  BY <1>10, WaitIsForChild, KeepWaitingInv DEF SpinYield
<1>11. ASSUME NEW arg \in WaitArgs, WaitRefused(arg) PROVE UNCHANGED vars
  BY <1>11 DEF WaitRefused
<1>12. ASSUME Halted PROVE UNCHANGED vars
  BY <1>12 DEF Halted
<1>13. QED
  BY <1>1, <1>2, <1>3, <1>4, <1>5, <1>6, <1>7, <1>8, <1>9, <1>10, <1>11, <1>12 DEF Next

\* Inv is an invariant of the scheduler.
THEOREM Invariance == Spec => []Inv
<1>1. Init => Inv
  BY InitInv
<1>2. Inv /\ [Next]_vars => Inv'
  BY StepInv
<1>3. QED
  BY <1>1, <1>2, PTL DEF Spec

\* The variables keep their types in every reachable state.
THEOREM TypeCorrect == Spec => []TypeOK
BY Invariance, PTL DEF Inv

\* The ready queue is exact from the first task on, for any number of tasks
\* and any interleaving of yields, ticks, exits and waits.
THEOREM QueueIsExact == Spec => []QueueExact
BY Invariance, PTL DEF Inv

\* The idle task is never scheduled and the current task is never an exited one.
THEOREM CurrentIsLive == Spec => []CurrentLive
BY Invariance, PTL DEF Inv

\* The panics on a full ready queue and on an exited task that runs again are
\* dead code.
THEOREM InternalPanicsUnreachable == Spec => []NoInternalPanic
BY Invariance, PTL DEF Inv

\* Every user task always has a live parent.
THEOREM ParentsStayLive == Spec => []ParentsLive
BY Invariance, PTL DEF Inv

\* The checks waitpid makes at its call still hold whenever it is resumed.
THEOREM WaitersKeepTheirChild == Spec => []WaitTargetIsChild
BY Invariance, PTL DEF Inv

\* The loops over 0 .. task_count-1 see every task.
THEOREM CountIsTight == Spec => []TaskCountTight
BY Invariance, PTL DEF Inv

\* The CPU always runs on the stack and page tables of the current task.
THEOREM HardwareFollowsCurrent == Spec => []HardwareMatchesCurrent
BY Invariance, PTL DEF Inv

-----------------------------------------------------------------------------
(***************************************************************************)
(* Exited tasks, and the process table.                                    *)
(***************************************************************************)

\* How the steps that change the table change it, in terms of the fields the
\* process table keeps.
TableUnchanged == state' = state /\ parent' = parent /\ exitCode' = exitCode

Spawned ==
  \E id \in Tasks :
    /\ id # Idle /\ id # KernelTask /\ id # current /\ state[id] = "empty"
    /\ state' = [state EXCEPT ![id] = "runnable"]
    /\ parent' = [parent EXCEPT ![id] = current]
    /\ exitCode' = [exitCode EXCEPT ![id] = 0]

Exited ==
  \E code \in ExitCodes :
    /\ current # KernelTask
    /\ state' = [state EXCEPT ![current] = "exited"]
    /\ parent' = [t \in Tasks |-> IF state[t] # "empty" /\ parent[t] = current
                                    THEN KernelTask ELSE parent[t]]
    /\ exitCode' = [exitCode EXCEPT ![current] = code]

Collected ==
  \E c \in Tasks :
    /\ c # Idle /\ c # KernelTask /\ state[c] = "exited" /\ parent[c] = current
    /\ current' = current
    /\ state' = [state EXCEPT ![c] = "empty"]
    /\ parent' = [parent EXCEPT ![c] = 0]
    /\ exitCode' = [exitCode EXCEPT ![c] = 0]

\* Every step leaves the table alone or is one of the three above.
LEMMA TableSteps ==
  ASSUME Inv, [Next]_vars
  PROVE  TableUnchanged \/ Spawned \/ Exited \/ Collected
<1>1. ASSUME NEW id \in Tasks, Spawn(id) PROVE Spawned
  <2>1. state[id] = "empty"
    <3>1. taskCount \in Nat /\ id \in Nat /\ (id < taskCount => state[id] = "empty")
      BY <1>1, CountCovers, SlotsExist DEF Spawn, FreeTaskId
    <3>2. ~(id < taskCount) => state[id] = "empty"
      BY <3>1, CountCovers
    <3>3. QED
      BY <3>1, <3>2
  <2>2. id # Idle /\ id # KernelTask /\ id # current
    BY <2>1 DEF Inv, KernelSlots, CurrentLive
  <2>3. QED
    BY <1>1, <2>1, <2>2 DEF Spawn, Spawned
<1>2. ASSUME NEW code \in ExitCodes, Exit(code) PROVE Exited
  <2>1. current # KernelTask
    BY <1>2 DEF Exit, Inv, KernelSlots
  <2>2. ReparentTarget = KernelTask /\ \A t \in Tasks : state[t] # "empty" => t < taskCount
    BY <2>1, CountCovers DEF ReparentTarget, KernelTask
  <2>3. Reparented = [t \in Tasks |-> IF state[t] # "empty" /\ parent[t] = current
                                        THEN KernelTask ELSE parent[t]]
    BY <2>2 DEF Reparented
  <2>4. QED
    BY <1>2, <2>1, <2>3 DEF Exit, Exited
<1>3. ASSUME NEW arg, Running, WaitBy(arg), Collect(arg) PROVE Collected
  <2>1. PICK c \in Tasks : Collectable(arg, c) /\ ReleaseSlot(c)
    BY <1>3 DEF Collect
  <2>2. state[c] = "exited" /\ parent[c] = current
    BY <1>3, <2>1 DEF Collectable, WaitBy
  <2>3. c # Idle /\ c # KernelTask
    BY <2>2 DEF Inv, KernelSlots
  <2>4. QED
    BY <1>3, <2>1, <2>2, <2>3 DEF Collect, ReleaseSlot, Collected
<1>4. ASSUME NEW arg \in WaitArgs, WaitCollect(arg) PROVE Collected
  BY <1>3, <1>4, WaitIsForChild DEF WaitCollect
<1>5. CASE SpinCollect
  BY <1>3, <1>5, WaitIsForChild DEF SpinCollect
<1>6. CASE SelfTestPick \/ EnterFirstTask \/ Yield \/ TimerIrq \/ SpawnPanic \/ Exec \/ Fault
  BY <1>6 DEF SelfTestPick, EnterFirstTask, Yield, TimerIrq, SpawnPanic, Exec, Fault, table,
              TableUnchanged
<1>7. ASSUME NEW arg, WaitRefused(arg) \/ WaitBlock(arg) PROVE TableUnchanged
  BY <1>7 DEF WaitRefused, WaitBlock, KeepWaiting, vars, table, TableUnchanged
<1>8. CASE SpinYield \/ Halted \/ UNCHANGED vars
  BY <1>8 DEF SpinYield, KeepWaiting, Halted, vars, table, TableUnchanged
<1>9. QED
  BY <1>1, <1>2, <1>4, <1>5, <1>6, <1>7, <1>8 DEF Next

\* An exited task keeps its code, and its slot, until its parent collects it.
THEOREM ZombiesAreKept == Spec => ZombieKept
<1> DEFINE Kept(t) ==
      \/ /\ state'[t] = "exited" /\ exitCode'[t] = exitCode[t]
         /\ parent'[t] # parent[t] => parent'[t] = KernelTask /\ state'[parent[t]] = "exited"
      \/ /\ state'[t] = "empty"
         /\ current = parent[t] /\ current' = current
<1>1. ASSUME Inv, [Next]_vars, NEW t \in Tasks, state[t] = "exited" PROVE Kept(t)
  <2>0. /\ state \in [Tasks -> {"empty", "runnable", "exited"}]
        /\ parent \in [Tasks -> Tasks] /\ exitCode \in [Tasks -> Int]
        /\ current \in Tasks /\ state[current] = "runnable" /\ t # current
    BY <1>1 DEF Inv, TypeOK, CurrentLive
  <2>1. CASE TableUnchanged
    BY <1>1, <2>1 DEF TableUnchanged
  <2>2. CASE Spawned
    BY <1>1, <2>0, <2>2 DEF Spawned
  <2>3. CASE Exited
    BY <1>1, <2>0, <2>3 DEF Exited
  <2>4. CASE Collected
    BY <1>1, <2>0, <2>4 DEF Collected
  <2>5. QED
    BY <1>1, <2>1, <2>2, <2>3, <2>4, TableSteps
<1>2. Inv /\ [Next]_vars =>
        [\A t \in Tasks : state[t] = "exited" => Kept(t)]_vars
  BY <1>1
<1>3. QED
  BY <1>2, Invariance, PTL DEF Spec, ZombieKept

\* The three fields of the process table, in this state and the next.
Life == [t \in UserSlots |-> LifeOf(t)]
Mother == [t \in UserSlots |-> MotherOf(t)]
Code == [t \in UserSlots |-> exitCode[t]]

\* The scheduler implements the process table: boot gives its initial state,
\* and every step maps to Create, End, Collect or to no change.
THEOREM Refinement == Spec => ImplementsTable
<1>1. Init => PT!TableInit
  BY SlotsExist DEF Init, PT!TableInit, UserSlots, LifeOf, MotherOf
<1>2. ASSUME Inv, [Next]_vars
      PROVE  \/ \E p \in UserSlots : \/ \E c \in UserSlots : PT!Create(p, c) \/ PT!Collect(p, c)
                                     \/ \E e \in ExitCodes : PT!End(p, e)
             \/ UNCHANGED <<Life, Mother, Code>>
  <2>0. /\ state \in [Tasks -> {"empty", "runnable", "exited"}]
        /\ parent \in [Tasks -> Tasks] /\ exitCode \in [Tasks -> Int]
        /\ current \in UserSlots /\ state[current] = "runnable"
        /\ state[KernelTask] = "runnable"
    BY <1>2 DEF Inv, TypeOK, CurrentLive, KernelSlots, UserSlots
  <2>1. CASE TableUnchanged
    BY <2>1 DEF TableUnchanged, Life, Mother, Code, LifeOf, MotherOf
  <2>2. CASE Spawned
    <3>1. PICK id \in UserSlots :
            /\ id # KernelTask /\ id # current /\ state[id] = "empty"
            /\ state' = [state EXCEPT ![id] = "runnable"]
            /\ parent' = [parent EXCEPT ![id] = current]
            /\ exitCode' = [exitCode EXCEPT ![id] = 0]
      BY <2>2 DEF Spawned, UserSlots
    <3>2. Life[current] = "live" /\ Life[id] = "free"
      BY <2>0, <3>1 DEF Life, LifeOf
    <3>3. Life' = [Life EXCEPT ![id] = "live"]
      BY <2>0, <3>1 DEF Life, LifeOf, UserSlots
    <3>4. Mother' = [Mother EXCEPT ![id] = current]
      BY <2>0, <3>1 DEF Mother, MotherOf, UserSlots
    <3>5. Code' = [Code EXCEPT ![id] = 0]
      BY <2>0, <3>1 DEF Code, UserSlots
    <3>6. PT!Create(current, id)
      BY <3>2, <3>3, <3>4, <3>5 DEF PT!Create, Life, Mother, Code
    <3>7. QED
      BY <2>0, <3>6
  <2>3. CASE Exited
    <3>1. PICK e \in ExitCodes :
            /\ current # KernelTask
            /\ state' = [state EXCEPT ![current] = "exited"]
            /\ parent' = [t \in Tasks |-> IF state[t] # "empty" /\ parent[t] = current
                                            THEN KernelTask ELSE parent[t]]
            /\ exitCode' = [exitCode EXCEPT ![current] = e]
      BY <2>3 DEF Exited
    <3>2. Life[current] = "live" /\ Life' = [Life EXCEPT ![current] = "ended"]
      BY <2>0, <3>1 DEF Life, LifeOf, UserSlots
    <3>3. Mother' = [c \in UserSlots |->
                       IF Life[c] # "free" /\ c # KernelTask /\ Mother[c] = current
                         THEN KernelTask ELSE Mother[c]]
      BY <2>0, <3>1 DEF Mother, MotherOf, Life, LifeOf, UserSlots
    <3>4. Code' = [Code EXCEPT ![current] = e]
      BY <2>0, <3>1 DEF Code, UserSlots
    <3>5. PT!End(current, e)
      BY <3>1, <3>2, <3>3, <3>4 DEF PT!End, Life, Mother, Code
    <3>6. QED
      BY <2>0, <3>5
  <2>4. CASE Collected
    <3>1. PICK c \in UserSlots :
            /\ c # KernelTask /\ state[c] = "exited" /\ parent[c] = current
            /\ state' = [state EXCEPT ![c] = "empty"]
            /\ parent' = [parent EXCEPT ![c] = 0]
            /\ exitCode' = [exitCode EXCEPT ![c] = 0]
      BY <2>4 DEF Collected, UserSlots
    <3>2. Life[current] = "live" /\ Life[c] = "ended" /\ Mother[c] = current
      BY <2>0, <3>1 DEF Life, LifeOf, Mother, MotherOf
    <3>3. Life' = [Life EXCEPT ![c] = "free"]
      BY <2>0, <3>1 DEF Life, LifeOf, UserSlots
    <3>4. Mother' = [Mother EXCEPT ![c] = KernelTask]
      BY <2>0, <3>1 DEF Mother, MotherOf, UserSlots
    <3>5. Code' = [Code EXCEPT ![c] = 0]
      BY <2>0, <3>1 DEF Code, UserSlots
    <3>6. PT!Collect(current, c)
      BY <3>2, <3>3, <3>4, <3>5 DEF PT!Collect, Life, Mother, Code
    <3>7. QED
      BY <2>0, <3>6
  <2>5. QED
    BY <1>2, <2>1, <2>2, <2>3, <2>4, TableSteps
<1>3. Inv /\ [Next]_vars => [PT!TableNext]_(PT!tvars)
  BY <1>2 DEF PT!TableNext, PT!tvars, Life, Mother, Code
<1>4. QED
  BY <1>1, <1>3, Invariance, PTL DEF Spec, ImplementsTable, PT!TableSpec

-----------------------------------------------------------------------------
(***************************************************************************)
(* Waiting tasks never all wait for each other.                            *)
(***************************************************************************)

\* parent is a forest below the kernel task: ranks can be given to the tasks
\* so that a user task has a lower one than its parent and than the kernel
\* task, which adopts the orphans. The kernel's own tasks are nobody's child.
ParentsRanked ==
  /\ parent[Idle] = Idle /\ parent[KernelTask] = Idle
  /\ \E rank \in [Tasks -> Nat] :
       \A t \in Tasks : t # Idle /\ t # KernelTask /\ state[t] # "empty" =>
         rank[t] < rank[parent[t]] /\ rank[t] < rank[KernelTask]

\* At boot there is nobody but the two kernel tasks.
LEMMA RankedInit == Init => ParentsRanked
<1> SUFFICES ASSUME Init PROVE ParentsRanked
  OBVIOUS
<1>1. parent[Idle] = Idle /\ parent[KernelTask] = Idle
  BY SlotsExist DEF Init, Idle
<1>2. [t \in Tasks |-> 0] \in [Tasks -> Nat]
  OBVIOUS
<1>3. \A t \in Tasks : t # Idle /\ t # KernelTask => state[t] = "empty"
  BY DEF Init
<1>4. QED
  BY <1>1, <1>2, <1>3 DEF ParentsRanked

\* A new task gets the lowest rank and everybody else one more; an orphan's
\* new parent, the kernel task, ranks above all; a collected task had no child.
LEMMA RankedStep == Inv /\ ParentsRanked /\ [Next]_vars => ParentsRanked'
<1> SUFFICES ASSUME Inv, ParentsRanked, [Next]_vars PROVE ParentsRanked'
  OBVIOUS
<1>0. /\ state \in [Tasks -> {"empty", "runnable", "exited"}]
      /\ parent \in [Tasks -> Tasks]
      /\ current \in Tasks /\ current # Idle /\ state[current] = "runnable"
      /\ state[KernelTask] = "runnable" /\ state[Idle] = "runnable"
      /\ Idle \in Tasks /\ KernelTask \in Tasks /\ Idle # KernelTask
  BY SlotsExist DEF Inv, TypeOK, CurrentLive, KernelSlots
<1>1. \A t \in Tasks : t # Idle /\ t # KernelTask /\ state[t] # "empty" =>
        parent[t] # t /\ parent[t] # Idle /\ state[parent[t]] = "runnable"
  BY SlotsExist DEF Inv, ParentsLive
<1>2. PICK rank \in [Tasks -> Nat] :
        \A t \in Tasks : t # Idle /\ t # KernelTask /\ state[t] # "empty" =>
          rank[t] < rank[parent[t]] /\ rank[t] < rank[KernelTask]
  BY DEF ParentsRanked
<1>3. CASE TableUnchanged
  BY <1>3 DEF TableUnchanged, ParentsRanked
<1>4. CASE Spawned
  <2>1. PICK id \in Tasks :
          /\ id # Idle /\ id # KernelTask /\ id # current /\ state[id] = "empty"
          /\ state' = [state EXCEPT ![id] = "runnable"]
          /\ parent' = [parent EXCEPT ![id] = current]
    BY <1>4 DEF Spawned
  <2> DEFINE raised == [t \in Tasks |-> IF t = id THEN 0 ELSE rank[t] + 1]
  <2>2. raised \in [Tasks -> Nat]
    BY <1>2
  <2>3. ASSUME NEW t \in Tasks, t # Idle, t # KernelTask, state'[t] # "empty"
        PROVE  raised[t] < raised[parent'[t]] /\ raised[t] < raised[KernelTask]
    <3>1. CASE t = id
      BY <1>0, <1>2, <2>1, <3>1
    <3>2. CASE t # id
      <4>1. state[t] # "empty" /\ parent'[t] = parent[t]
        BY <1>0, <2>1, <2>3, <3>2
      <4>2. parent[t] # id /\ parent[t] \in Tasks
        BY <1>0, <1>1, <2>1, <2>3, <4>1
      <4>3. rank[t] < rank[parent[t]] /\ rank[t] < rank[KernelTask]
        BY <1>2, <2>3, <4>1
      <4>4. QED
        BY <1>0, <1>2, <2>1, <3>2, <4>1, <4>2, <4>3
    <3>3. QED
      BY <3>1, <3>2
  <2>4. parent'[Idle] = Idle /\ parent'[KernelTask] = Idle
    BY <1>0, <2>1 DEF ParentsRanked
  <2>5. QED
    BY <2>2, <2>3, <2>4 DEF ParentsRanked
<1>5. CASE Exited
  <2>1. /\ current # KernelTask
        /\ state' = [state EXCEPT ![current] = "exited"]
        /\ parent' = [t \in Tasks |-> IF state[t] # "empty" /\ parent[t] = current
                                        THEN KernelTask ELSE parent[t]]
    BY <1>5 DEF Exited
  <2>2. \A t \in Tasks : t # Idle /\ t # KernelTask /\ state'[t] # "empty" =>
          rank[t] < rank[parent'[t]] /\ rank[t] < rank[KernelTask]
    BY <1>0, <1>2, <2>1
  <2>3. parent'[Idle] = Idle /\ parent'[KernelTask] = Idle
    BY <1>0, <2>1 DEF ParentsRanked
  <2>4. QED
    BY <1>2, <2>2, <2>3 DEF ParentsRanked
<1>6. CASE Collected
  <2>1. PICK c \in Tasks :
          /\ c # Idle /\ c # KernelTask
          /\ state' = [state EXCEPT ![c] = "empty"]
          /\ parent' = [parent EXCEPT ![c] = 0]
    BY <1>6 DEF Collected
  <2>2. \A t \in Tasks : t # Idle /\ t # KernelTask /\ state'[t] # "empty" =>
          rank[t] < rank[parent'[t]] /\ rank[t] < rank[KernelTask]
    BY <1>0, <1>2, <2>1
  <2>3. parent'[Idle] = Idle /\ parent'[KernelTask] = Idle
    BY <1>0, <2>1 DEF ParentsRanked
  <2>4. QED
    BY <1>2, <2>2, <2>3 DEF ParentsRanked
<1>7. QED
  BY <1>3, <1>4, <1>5, <1>6, TableSteps

\* A set of natural numbers that is not empty has a least element.
LEMMA LeastNatural ==
  ASSUME NEW S \in SUBSET Nat, S # {}
  PROVE  \E m \in S : \A n \in S : m <= n
<1> DEFINE L == {p \in Nat \X Nat : p[1] < p[2]}
<1>1. IsWellFoundedOn(L, Nat)
  BY NatLessThanWellFounded DEF OpToRel
<1>2. \E m \in S : \A n \in S : <<n, m>> \notin L
  <2> HIDE DEF L
  <2>1. QED
    BY <1>1, WFMin
<1>3. \A m, n \in Nat : n < m => <<n, m>> \in L
  OBVIOUS
<1>4. PICK m \in S : \A n \in S : <<n, m>> \notin L
  BY <1>2
<1>5. \A n \in S : n \in Nat /\ m \in Nat /\ ~(n < m)
  BY <1>3, <1>4
<1>6. QED
  BY <1>4, <1>5

\* If every runnable task waited for a task that has not exited, a waiting task
\* of least rank would wait for a runnable child of lower rank.
LEMMA RankedProgress == Inv /\ ParentsRanked => SomebodyProgresses
<1> SUFFICES ASSUME Inv, ParentsRanked, Running,
                    \A t \in Tasks \ {Idle} :
                      state[t] = "runnable" => waitFor[t] # NoWait /\ ~Satisfied(t)
             PROVE  FALSE
  BY DEF SomebodyProgresses
<1>0. /\ state \in [Tasks -> {"empty", "runnable", "exited"}]
      /\ parent \in [Tasks -> Tasks] /\ waitFor \in [Tasks -> {NoWait, AnyChild} \cup Tasks]
      /\ state[KernelTask] = "runnable"
      /\ Idle \in Tasks /\ KernelTask \in Tasks /\ Idle # KernelTask
      /\ parent[Idle] = Idle /\ parent[KernelTask] = Idle
  BY SlotsExist DEF Inv, TypeOK, KernelSlots, ParentsRanked
<1>1. PICK rank \in [Tasks -> Nat] :
        \A t \in Tasks : t # Idle /\ t # KernelTask /\ state[t] # "empty" =>
          rank[t] < rank[parent[t]] /\ rank[t] < rank[KernelTask]
  BY DEF ParentsRanked
<1> DEFINE W == {t \in Tasks \ {Idle} : state[t] = "runnable"}
<1> DEFINE R == {rank[t] : t \in W}
<1>2. R \in SUBSET Nat /\ R # {}
  <2>1. KernelTask \in W
    BY <1>0
  <2>2. QED
    BY <1>1, <2>1
<1>3. PICK t \in W : \A u \in W : rank[t] <= rank[u]
  <2> HIDE DEF W
  <2>1. PICK m \in R : \A n \in R : m <= n
    BY <1>2, LeastNatural
  <2>2. QED
    BY <2>1
<1>4. t \in Tasks /\ t # Idle /\ state[t] = "runnable" /\ waitFor[t] # NoWait /\ ~Satisfied(t)
  BY <1>3
<1>5. \E c \in Tasks : state[c] # "empty" /\ parent[c] = t /\ state[c] # "exited"
  <2>1. CASE waitFor[t] = AnyChild
    BY <1>4, <2>1 DEF Inv, WaitTargetIsChild, Satisfied
  <2>2. CASE waitFor[t] # AnyChild
    <3>1. waitFor[t] \in Tasks
      BY <1>0, <1>4, <2>2
    <3>2. QED
      BY <1>4, <2>2, <3>1 DEF Inv, WaitTargetIsChild, Satisfied
  <2>3. QED
    BY <2>1, <2>2
<1>6. PICK c \in Tasks : parent[c] = t /\ state[c] = "runnable"
  BY <1>0, <1>5
<1>7. c # Idle /\ c # KernelTask
  BY <1>0, <1>4, <1>6
<1>8. rank[c] < rank[t] /\ rank[c] \in Nat /\ rank[t] \in Nat
  BY <1>1, <1>4, <1>6, <1>7
<1>9. c \in W
  BY <1>6, <1>7
<1>10. QED
  BY <1>3, <1>8, <1>9

\* The tasks are never all stuck in waitpid, for any number of tasks and any
\* tree of parents and children.
THEOREM SomebodyAlwaysProgresses == Spec => []SomebodyProgresses
<1>1. Inv /\ ParentsRanked /\ [Next]_vars => ParentsRanked'
  BY RankedStep
<1>2. Inv /\ ParentsRanked => SomebodyProgresses
  BY RankedProgress
<1>3. QED
  BY <1>1, <1>2, RankedInit, Invariance, PTL DEF Spec

-----------------------------------------------------------------------------
(***************************************************************************)
(* The ring behind the queue. Scheduler.tla takes the ready queue as a     *)
(* sequence and a pick as one step; ReadyRing.tla has the words of the     *)
(* ring, its growing indices and the loop. Here the ring implements that   *)
(* sequence, for every set of tasks and every capacity.                    *)
(***************************************************************************)

\* The ring's content, and the queue the loop began with: the current task has
\* been put behind the content at that moment if it can go on.
RingItems == Content(slots, head, tail)
RingBack ==
  IF picked # Idle /\ taskState[picked] = "runnable"
    THEN Append(start, picked) ELSE start

\* Head never passes tail, nor does tail go around and pass head.
RingTypes ==
  /\ slots \in [0 .. Capacity - 1 -> Ids]
  /\ head \in Nat /\ tail \in Nat
  /\ head <= tail /\ tail - head <= Capacity
  /\ picked \in Ids
  /\ taskState \in [Ids -> {"runnable", "exited"}]
  /\ attempts \in Nat
  /\ start \in Seq(Ids)

\* In the loop: the ring holds the rest of what it began with, nothing before
\* that rest could run, and one iteration more is left than there are entries.
LoopInv ==
  attempts > 0 =>
    /\ ~overflow
    /\ attempts = tail - head + 1
    /\ Len(RingBack) <= Capacity
    /\ tail - head <= Len(RingBack)
    /\ \A k \in 1 .. tail - head :
         RingItems[k] = RingBack[Len(RingBack) - (tail - head) + k]
    /\ \A j \in 1 .. Len(RingBack) - (tail - head) : j \notin Eligible(RingBack, taskState)

RingInv == RingTypes /\ LoopInv

\* The operators of Picking are the same wherever they are taken from.
LEMMA SamePicking ==
  ASSUME NEW q, NEW st
  PROVE  /\ RQ!Idle = Idle
         /\ RQ!Chosen(q, st) = Chosen(q, st)
         /\ RQ!Left(q, st) = Left(q, st)
<1>1. RQ!Idle = Idle
  BY DEF RQ!Idle, Idle
<1>2. RQ!Eligible(q, st) = Eligible(q, st)
  BY <1>1 DEF RQ!Eligible, Eligible
<1>3. RQ!Dequeued(q, st) = Dequeued(q, st)
  BY <1>2 DEF RQ!Dequeued, Dequeued
<1> QED
  BY <1>1, <1>2, <1>3 DEF RQ!Chosen, RQ!Left, Chosen, Left

\* The first d entries cannot run and the next one can: the pick takes it.
LEMMA PickAfter ==
  ASSUME NEW S, NEW q \in Seq(S), NEW st, NEW d \in Nat, d < Len(q),
         \A j \in 1 .. d : j \notin Eligible(q, st),
         d + 1 \in Eligible(q, st)
  PROVE  Chosen(q, st) = q[d + 1] /\ Left(q, st) = SubSeq(q, d + 2, Len(q))
<1>1. \A j \in Eligible(q, st) : j \in 1 .. Len(q) /\ d + 1 <= j
  <2>1. SUFFICES ASSUME NEW j \in Eligible(q, st) PROVE j \in 1 .. Len(q) /\ d + 1 <= j
    OBVIOUS
  <2>2. j \in 1 .. Len(q) /\ j \notin 1 .. d
    BY <2>1 DEF Eligible
  <2> QED
    BY <2>2
<1>2. Dequeued(q, st) = d + 1
  <2>1. \E k \in Eligible(q, st) : \A j \in Eligible(q, st) : k <= j
    BY <1>1
  <2>2. Dequeued(q, st) \in Eligible(q, st) /\ \A j \in Eligible(q, st) : Dequeued(q, st) <= j
    BY <2>1 DEF Dequeued
  <2> QED
    BY <2>2, <1>1
<1>3. Eligible(q, st) # {}
  OBVIOUS
<1> QED
  BY <1>2, <1>3 DEF Chosen, Left

\* No entry can run: the pick takes them all out and ends with the idle task.
LEMMA PickNone ==
  ASSUME NEW S, NEW q \in Seq(S), NEW st, \A j \in 1 .. Len(q) : j \notin Eligible(q, st)
  PROVE  Chosen(q, st) = Idle /\ Left(q, st) = << >>
<1>1. Eligible(q, st) = {}
  BY DEF Eligible
<1>2. Dequeued(q, st) = Len(q)
  BY <1>1 DEF Dequeued
<1>3. SubSeq(q, Len(q) + 1, Len(q)) = << >>
  BY SubSeqProperties
<1> QED
  BY <1>1, <1>2, <1>3 DEF Chosen, Left

\* Two positions less than a whole turn apart are different words of the ring.
LEMMA WordsDiffer ==
  ASSUME NEW c \in Nat, c > 0, NEW a \in Nat, NEW b \in Nat, a < b, b - a < c
  PROVE  a % c # b % c
<1>1. PICK qa, qb, ra, rb \in Int : qa = a \div c /\ qb = b \div c /\ ra = a % c /\ rb = b % c
  OBVIOUS
<1>2. a = c * qa + ra /\ b = c * qb + rb
  BY <1>1
<1>3. SUFFICES ASSUME ra = rb PROVE FALSE
  BY <1>1
<1>4. b - a = c * (qb - qa)
  BY <1>2, <1>3
<1>5. CASE qb - qa >= 1
  BY <1>4, <1>5
<1>6. CASE qb - qa <= 0
  BY <1>4, <1>6
<1> QED
  BY <1>5, <1>6

\* The content is a sequence of tasks, head first.
LEMMA ContentIs ==
  ASSUME NEW s \in [0 .. Capacity - 1 -> Ids],
         NEW h \in Nat, NEW n \in Nat, h <= n
  PROVE  /\ Content(s, h, n) \in Seq(Ids)
         /\ Len(Content(s, h, n)) = n - h
         /\ \A k \in 1 .. n - h : Content(s, h, n)[k] = s[(h + k - 1) % Capacity]
<1>1. \A k \in 1 .. n - h : (h + k - 1) % Capacity \in 0 .. Capacity - 1
  BY RingAssumption
<1>2. PICK m \in Nat : m = n - h
  OBVIOUS
<1>3. Content(s, h, n) = [k \in 1 .. m |-> s[(h + k - 1) % Capacity]]
  BY <1>2 DEF Content
<1>4. \A k \in 1 .. m : s[(h + k - 1) % Capacity] \in Ids
  BY <1>1, <1>2
<1> QED
  BY <1>2, <1>3, <1>4

\* The ring after the word at tail n was set to t.
Stored(s, n, t) == [s EXCEPT ![n % Capacity] = t]

\* scheduler_enqueue_task on a ring that is not full: the entry comes last and
\* overwrites none of the others, however often the indices have gone around.
LEMMA ContentAppend ==
  ASSUME NEW s \in [0 .. Capacity - 1 -> Ids],
         NEW h \in Nat, NEW n \in Nat, h <= n, n - h < Capacity, NEW t \in Ids
  PROVE  /\ Stored(s, n, t) \in [0 .. Capacity - 1 -> Ids]
         /\ Content(Stored(s, n, t), h, n + 1) = Append(Content(s, h, n), t)
<1>1. PICK r \in 0 .. Capacity - 1 : r = n % Capacity
  BY RingAssumption
<1>2. PICK z \in [0 .. Capacity - 1 -> Ids] : z = [s EXCEPT ![r] = t]
  OBVIOUS
<1>3. PICK m \in Nat : m = n + 1
  OBVIOUS
<1>4. PICK c \in Seq(Ids), e \in Seq(Ids) :
        c = Content(s, h, n) /\ e = Content(z, h, m)
  <2>1. h <= m
    BY <1>3
  <2>2. Content(s, h, n) \in Seq(Ids)
    BY ContentIs
  <2>3. Content(z, h, m) \in Seq(Ids)
    BY <2>1, ContentIs
  <2> QED
    BY <2>2, <2>3
<1>5. Len(c) = n - h /\ \A k \in 1 .. n - h : c[k] = s[(h + k - 1) % Capacity]
  BY <1>4, ContentIs
<1>6. Len(e) = m - h /\ \A k \in 1 .. m - h : e[k] = z[(h + k - 1) % Capacity]
  <2>1. h <= m
    BY <1>3
  <2> QED
    BY <1>4, <2>1, ContentIs
<1>7. \A k \in 1 .. n - h : e[k] = c[k]
  <2>1. SUFFICES ASSUME NEW k \in 1 .. n - h PROVE e[k] = c[k]
    OBVIOUS
  <2>2. PICK a \in Nat : a = h + k - 1
    OBVIOUS
  <2>3. a < n /\ n - a < Capacity
    BY <2>2, RingAssumption
  <2>4. a % Capacity # r /\ a % Capacity \in 0 .. Capacity - 1
    <3>1. Capacity \in Nat /\ Capacity > 0
      BY RingAssumption
    <3>2. a % Capacity # n % Capacity
      BY <2>3, <3>1, WordsDiffer
    <3> QED
      BY <1>1, <3>1, <3>2
  <2>5. z[a % Capacity] = s[a % Capacity]
    BY <2>4, <1>2
  <2>6. e[k] = z[(h + k - 1) % Capacity]
    BY <1>3, <1>6
  <2>7. c[k] = s[(h + k - 1) % Capacity]
    BY <1>5
  <2> QED
    BY <2>2, <2>5, <2>6, <2>7
<1>8. e[n - h + 1] = t
  <2>1. h + (n - h + 1) - 1 = n /\ n - h + 1 \in 1 .. m - h
    BY <1>3
  <2>2. e[n - h + 1] = z[n % Capacity]
    BY <2>1, <1>6
  <2> QED
    BY <2>2, <1>1, <1>2
<1>9. e = Append(c, t)
  BY <1>3, <1>5, <1>6, <1>7, <1>8
<1>10. z = Stored(s, n, t)
  BY <1>1, <1>2 DEF Stored
<1> QED
  BY <1>3, <1>4, <1>9, <1>10

\* scheduler_enqueue_task in either case, as Put of ReadyQueue has it.
LEMMA EnqueueStep ==
  ASSUME RingTypes, NEW t \in Ids, Enqueue(t), head' = head
  PROVE  /\ RingItems \in Seq(Ids) /\ Len(RingItems) = tail - head
         /\ slots' \in [0 .. Capacity - 1 -> Ids]
         /\ \/ /\ Len(RingItems) >= Capacity
               /\ overflow' = TRUE /\ tail' = tail /\ RingItems' = RingItems
            \/ /\ Len(RingItems) < Capacity
               /\ overflow' = overflow /\ tail' = tail + 1
               /\ RingItems' = Append(RingItems, t)
<1>1. /\ slots \in [0 .. Capacity - 1 -> Ids]
      /\ head \in Nat /\ tail \in Nat /\ head <= tail
      /\ tail - head <= Capacity /\ Capacity \in Nat
  BY RingAssumption DEF RingTypes
<1>2. RingItems \in Seq(Ids) /\ Len(RingItems) = tail - head
  BY <1>1, ContentIs DEF RingItems
<1>3. CASE Size >= Capacity
  <2>1. overflow' = TRUE /\ slots' = slots /\ tail' = tail
    BY <1>3 DEF Enqueue
  <2>2. RingItems' = RingItems
    BY <2>1 DEF RingItems
  <2> QED
    BY <1>1, <1>2, <1>3, <2>1, <2>2 DEF Size
<1>4. CASE ~(Size >= Capacity)
  <2>1. /\ slots' = Stored(slots, tail, t)
        /\ tail' = tail + 1 /\ overflow' = overflow
    BY <1>4 DEF Enqueue, Stored
  <2>2. tail - head < Capacity
    BY <1>1, <1>4 DEF Size
  <2>3. /\ Stored(slots, tail, t) \in [0 .. Capacity - 1 -> Ids]
        /\ Content(Stored(slots, tail, t), head, tail + 1)
             = Append(Content(slots, head, tail), t)
    BY <1>1, <2>2, ContentAppend
  <2>4. RingItems' = Append(RingItems, t)
    BY <2>1, <2>3 DEF RingItems
  <2> QED
    BY <1>2, <2>1, <2>2, <2>3, <2>4
<1> QED
  BY <1>3, <1>4

\* Between picks the queue is the content of the ring, in the loop what it was
\* when the pick began.
LEMMA ItemsAre ==
  /\ attempts = 0 => Items = RingItems
  /\ attempts # 0 => Items = start
BY DEF Items, RingItems

\* The same of the next state.
LEMMA ItemsBecome ==
  /\ attempts' = 0 => (Items)' = RingItems'
  /\ attempts' # 0 => (Items)' = start'
BY DEF Items, RingItems

\* The ring starts with the idle task in it.
LEMMA RingStart == RingInit => RingInv /\ RQ!QueueInit
<1>1. SUFFICES ASSUME RingInit PROVE RingInv /\ RQ!QueueInit
  OBVIOUS
<1>2. RQ!Idle = Idle
  BY SamePicking
<1>3. RingTypes
  <2>1. start \in Seq(Ids)
    BY <1>1 DEF RingInit
  <2>2. /\ slots \in [0 .. Capacity - 1 -> Ids]
        /\ taskState \in [Ids -> {"runnable", "exited"}]
        /\ picked \in Ids
    BY <1>1, <1>2, RingAssumption DEF RingInit
  <2>3. /\ head \in Nat /\ tail \in Nat /\ attempts \in Nat
        /\ head <= tail /\ tail - head <= Capacity
    BY <1>1, RingAssumption DEF RingInit
  <2> QED
    BY <2>1, <2>2, <2>3 DEF RingTypes
<1>4. LoopInv
  BY <1>1 DEF RingInit, LoopInv
<1>5. Items = <<Idle>>
  <2>1. /\ RingItems \in Seq(Ids) /\ Len(RingItems) = 1 - 0
        /\ \A k \in 1 .. 1 - 0 : RingItems[k] = slots[(0 + k - 1) % Capacity]
    <3>1. slots \in [0 .. Capacity - 1 -> Ids] /\ 0 \in Nat /\ 1 \in Nat /\ 0 <= 1
      BY <1>3 DEF RingTypes
    <3>2. RingItems = Content(slots, 0, 1)
      BY <1>1 DEF RingItems, RingInit
    <3> QED
      BY <1>1, <3>1, <3>2, ContentIs
  <2>2. RingItems[1] = slots[0 % Capacity]
    BY <2>1
  <2>3. 0 % Capacity = 0 /\ 0 \in 0 .. Capacity - 1
    BY <1>1, RingAssumption
  <2>4. RingItems[1] = Idle
    BY <1>1, <1>2, <2>2, <2>3 DEF RingInit
  <2>5. RingItems = <<Idle>>
    BY <2>1, <2>4
  <2> QED
    BY <1>1, <2>5, ItemsAre DEF RingInit
<1> QED
  BY <1>1, <1>2, <1>3, <1>4, <1>5 DEF RingInv, RingInit, RQ!QueueInit

\* A task becomes runnable and is put into the queue.
LEMMA RingReady ==
  ASSUME RingInv, NEW t \in Ids, Ready(t)
  PROVE  RingInv' /\ RQ!QReady(t)
<1>1. /\ ~overflow /\ attempts = 0 /\ attempts' = 0
      /\ taskState[t] # "runnable" /\ taskState' = [taskState EXCEPT ![t] = "runnable"]
      /\ Enqueue(t)
      /\ head' = head /\ picked' = picked /\ start' = start
  BY DEF Ready, AtRest
<1>2. /\ RingItems \in Seq(Ids) /\ Len(RingItems) = tail - head
      /\ slots' \in [0 .. Capacity - 1 -> Ids]
      /\ \/ /\ Len(RingItems) >= Capacity
            /\ overflow' = TRUE /\ tail' = tail /\ RingItems' = RingItems
         \/ /\ Len(RingItems) < Capacity
            /\ overflow' = overflow /\ tail' = tail + 1
            /\ RingItems' = Append(RingItems, t)
  BY <1>1, EnqueueStep DEF RingInv
<1>3. RingTypes'
  <2>1. /\ head' \in Nat /\ tail' \in Nat
        /\ head' <= tail' /\ tail' - head' <= Capacity
    BY <1>1, <1>2, RingAssumption DEF RingInv, RingTypes
  <2>2. taskState' \in [Ids -> {"runnable", "exited"}]
    BY <1>1 DEF RingInv, RingTypes
  <2> QED
    BY <1>1, <1>2, <2>1, <2>2 DEF RingInv, RingTypes
<1>4. LoopInv'
  BY <1>1 DEF LoopInv
<1>5. Items = RingItems /\ (Items)' = RingItems'
  BY <1>1, ItemsAre, ItemsBecome
<1>6. RQ!Put(Items, t)
  <2>1. Len(RingItems) \in Nat /\ Capacity \in Nat
    BY <1>2, RingAssumption
  <2> QED
    BY <1>2, <1>5, <2>1 DEF RQ!Put
<1> QED
  BY <1>1, <1>3, <1>4, <1>6 DEF RingInv, RQ!QReady

\* A task stops being runnable; the ring does not change.
LEMMA RingEnd ==
  ASSUME RingInv, NEW t \in Ids, End(t)
  PROVE  RingInv' /\ RQ!QEnd(t)
<1>1. /\ ~overflow /\ attempts = 0 /\ attempts' = 0 /\ t # Idle
      /\ taskState' = [taskState EXCEPT ![t] = "exited"]
      /\ slots' = slots /\ head' = head /\ tail' = tail
      /\ picked' = picked /\ start' = start /\ overflow' = overflow
  BY SamePicking DEF End, AtRest
<1>2. RingTypes'
  BY <1>1 DEF RingInv, RingTypes
<1>3. LoopInv'
  BY <1>1 DEF LoopInv
<1>4. (Items)' = Items
  <2>1. RingItems' = RingItems
    BY <1>1 DEF RingItems
  <2> QED
    BY <1>1, <2>1, ItemsAre, ItemsBecome
<1> QED
  BY <1>1, <1>2, <1>3, <1>4, SamePicking DEF RingInv, RQ!QEnd

\* The entry of scheduler_pick_next_task: the current task goes back, or there
\* is no room for it; the queue itself counts as unchanged.
LEMMA RingPickBegin ==
  ASSUME RingInv, PickBegin
  PROVE  RingInv' /\ (RQ!QPickPanics \/ UNCHANGED RQ!queueVars)
<1>1. /\ ~overflow /\ attempts = 0
      /\ IF PutBack THEN Enqueue(picked)
                          ELSE UNCHANGED <<slots, tail, overflow>>
      /\ attempts' = IF overflow' THEN 0 ELSE tail' - head + 1
      /\ start' = RingItems
      /\ head' = head /\ picked' = picked /\ taskState' = taskState
  BY DEF PickBegin, AtRest, RingItems
<1>2. PutBack <=> picked # Idle /\ taskState[picked] = "runnable"
  BY SamePicking DEF PutBack
<1>3. /\ slots \in [0 .. Capacity - 1 -> Ids]
      /\ head \in Nat /\ tail \in Nat /\ head <= tail
      /\ tail - head <= Capacity /\ Capacity \in Nat /\ picked \in Ids
      /\ taskState \in [Ids -> {"runnable", "exited"}]
  BY RingAssumption DEF RingInv, RingTypes
<1>4. RingItems \in Seq(Ids) /\ Len(RingItems) = tail - head
  BY <1>3, ContentIs DEF RingItems
<1>5. Items = RingItems
  BY <1>1, ItemsAre
<1>6. CASE PutBack /\ Len(RingItems) >= Capacity
  <2>1. /\ overflow' = TRUE /\ tail' = tail /\ RingItems' = RingItems
        /\ slots' \in [0 .. Capacity - 1 -> Ids]
    <3>1. Enqueue(picked) /\ ~(Len(RingItems) < Capacity)
      BY <1>1, <1>3, <1>4, <1>6
    <3> QED
      BY <1>1, <1>3, <3>1, EnqueueStep DEF RingInv
  <2>2. attempts' = 0
    BY <1>1, <2>1
  <2>3. RingTypes'
    BY <1>1, <1>3, <1>4, <2>1, <2>2 DEF RingTypes
  <2>4. LoopInv'
    BY <2>2 DEF LoopInv
  <2>5. (Items)' = Items
    BY <1>5, <2>1, <2>2, ItemsBecome
  <2>6. Len(RQ!BackInQueue) > Capacity
    <3>1. RQ!BackInQueue = Append(RingItems, picked)
      BY <1>2, <1>5, <1>6, SamePicking DEF RQ!BackInQueue
    <3> QED
      BY <1>3, <1>4, <1>6, <3>1
  <2> QED
    BY <1>1, <2>1, <2>3, <2>4, <2>5, <2>6 DEF RingInv, RQ!QPickPanics
<1>7. CASE ~(PutBack /\ Len(RingItems) >= Capacity)
  <2>1. /\ slots' \in [0 .. Capacity - 1 -> Ids]
        /\ overflow' = overflow
        /\ RingItems' = RingBack'
        /\ tail' = IF PutBack THEN tail + 1 ELSE tail
    <3>1. CASE PutBack
      <4>1. /\ slots' \in [0 .. Capacity - 1 -> Ids]
            /\ overflow' = overflow /\ tail' = tail + 1
            /\ RingItems' = Append(RingItems, picked)
        <5>1. Len(RingItems) \in Nat /\ Capacity \in Nat /\ Enqueue(picked)
          BY <1>1, <1>3, <1>4, <3>1
        <5> QED
          BY <1>1, <1>3, <1>7, <3>1, <5>1, EnqueueStep DEF RingInv
      <4>2. RingBack' = Append(RingItems, picked)
        BY <1>1, <1>2, <3>1 DEF RingBack
      <4> QED
        BY <3>1, <4>1, <4>2
    <3>2. CASE ~PutBack
      <4>1. slots' = slots /\ tail' = tail /\ overflow' = overflow
        BY <1>1, <3>2
      <4>2. RingItems' = RingItems
        BY <1>1, <4>1 DEF RingItems
      <4>3. RingBack' = RingItems
        BY <1>1, <1>2, <3>2 DEF RingBack
      <4> QED
        BY <1>3, <3>2, <4>1, <4>2, <4>3
    <3> QED
      BY <3>1, <3>2
  <2>2. /\ tail' \in Nat /\ head' <= tail' /\ tail' - head' <= Capacity
    BY <1>1, <1>3, <1>4, <1>7, <2>1
  <2>3. attempts' = tail' - head' + 1 /\ attempts' \in Nat /\ attempts' # 0
    BY <1>1, <1>3, <2>1, <2>2
  <2>4. RingTypes'
    BY <1>1, <1>3, <1>4, <2>1, <2>2, <2>3 DEF RingTypes
  <2>5. RingItems' \in Seq(Ids) /\ Len(RingItems') = tail' - head'
    BY <1>1, <1>3, <2>1, <2>2, ContentIs DEF RingItems
  <2>6. LoopInv'
    <3>1. Len(RingBack') = tail' - head'
      BY <2>1, <2>5
    <3>2. head' \in Nat /\ tail' \in Nat
      BY <1>1, <1>3, <2>2
    <3>3. Len(RingBack') - (tail' - head') = 0
      <4>1. PICK h \in Nat, t \in Nat : h = head' /\ t = tail'
        BY <3>2
      <4>2. Len(RingBack') = t - h
        BY <3>1, <4>1
      <4>3. tail' - head' = t - h
        BY <4>1
      <4>4. (t - h) - (t - h) = 0
        OBVIOUS
      <4> QED
        BY <4>2, <4>3, <4>4
    <3>4. \A k \in 1 .. tail' - head' :
            RingItems'[k] = RingBack'[Len(RingBack') - (tail' - head') + k]
      BY <2>1, <3>2, <3>3
    <3>5. \A j \in 1 .. Len(RingBack') - (tail' - head') :
            j \notin Eligible(RingBack', taskState')
      BY <3>3
    <3>6. ~overflow' /\ Len(RingBack') <= Capacity /\ tail' - head' <= Len(RingBack')
      BY <1>1, <1>3, <2>1, <2>2, <3>1, <3>2
    <3> QED
      BY <2>3, <3>4, <3>5, <3>6 DEF LoopInv
  <2>7. (Items)' = Items
    BY <1>1, <1>5, <2>3, ItemsBecome
  <2> QED
    BY <1>1, <2>1, <2>4, <2>6, <2>7 DEF RingInv, RQ!queueVars
<1> QED
  BY <1>6, <1>7

\* The queue a pick works on, in the loop and before it.
LEMMA BackIs ==
  ASSUME RingTypes, attempts # 0
  PROVE  RingBack \in Seq(Ids) /\ RQ!BackInQueue = RingBack
<1>1. Items = start
  BY ItemsAre
<1>2. start \in Seq(Ids) /\ picked \in Ids
  BY DEF RingTypes
<1>3. RingBack \in Seq(Ids)
  BY <1>2 DEF RingBack
<1>4. RQ!Idle = Idle
  BY SamePicking
<1> QED
  BY <1>1, <1>3, <1>4 DEF RingBack, RQ!BackInQueue

\* What the loop knows about the first word it takes out.
LEMMA LoopFacts ==
  ASSUME RingInv, InLoop
  PROVE  \E n \in Nat, d \in Nat :
           /\ tail = head + n /\ Len(RingBack) = d + n /\ d + n <= Capacity
           /\ attempts = n + 1
           /\ RingItems \in Seq(Ids) /\ Len(RingItems) = n
           /\ \A k \in 1 .. n : RingItems[k] = RingBack[d + k]
           /\ \A j \in 1 .. d : j \notin Eligible(RingBack, taskState)
           /\ n = 0 => Candidate = Idle /\ HeadAfter = head
           /\ n > 0 => Candidate = RingBack[d + 1] /\ HeadAfter = head + 1
<1>1. attempts > 0 /\ attempts # 0
  BY DEF InLoop, RingInv, RingTypes
<1>2. /\ head \in Nat /\ tail \in Nat /\ head <= tail
      /\ slots \in [0 .. Capacity - 1 -> Ids] /\ Capacity \in Nat
  BY RingAssumption DEF RingInv, RingTypes
<1>3. RingBack \in Seq(Ids)
  BY <1>1, BackIs DEF RingInv
<1>4. PICK n \in Nat : n = tail - head
  BY <1>2
<1>5. /\ attempts = n + 1 /\ Len(RingBack) <= Capacity /\ n <= Len(RingBack)
      /\ \A k \in 1 .. n : RingItems[k] = RingBack[Len(RingBack) - n + k]
      /\ \A j \in 1 .. Len(RingBack) - n : j \notin Eligible(RingBack, taskState)
  BY <1>1, <1>4 DEF RingInv, LoopInv
<1>6. PICK d \in Nat : d = Len(RingBack) - n
  BY <1>3, <1>5
<1>7. Len(RingBack) = d + n /\ tail = head + n
  BY <1>2, <1>3, <1>4, <1>6
<1>8. /\ RingItems \in Seq(Ids) /\ Len(RingItems) = n
      /\ \A k \in 1 .. n : RingItems[k] = slots[(head + k - 1) % Capacity]
  BY <1>2, <1>4, ContentIs DEF RingItems
<1>9. Size = n /\ Idle = Idle
  BY <1>4, SamePicking DEF Size
<1>10. ASSUME n > 0 PROVE Candidate = RingBack[d + 1] /\ HeadAfter = head + 1
  <2>1. 1 \in 1 .. n /\ head + 1 - 1 = head
    BY <1>2, <1>10
  <2>2. RingItems[1] = slots[head % Capacity]
    BY <1>8, <2>1
  <2>3. RingItems[1] = RingBack[d + 1]
    BY <1>5, <1>6, <2>1
  <2> QED
    BY <1>9, <1>10, <2>2, <2>3 DEF Candidate, HeadAfter
<1>11. n = 0 => Candidate = Idle /\ HeadAfter = head
  BY <1>9 DEF Candidate, HeadAfter
<1>12. d + n <= Capacity
  BY <1>5, <1>7
<1>13. \A k \in 1 .. n : RingItems[k] = RingBack[d + k]
  BY <1>5, <1>6
<1>14. \A j \in 1 .. d : j \notin Eligible(RingBack, taskState)
  BY <1>5, <1>6
<1> QED
  BY <1>5, <1>7, <1>8, <1>10, <1>11, <1>12, <1>13, <1>14

\* The content after one word has been taken out.
LEMMA ContentTail ==
  ASSUME NEW s \in [0 .. Capacity - 1 -> Ids],
         NEW h \in Nat, NEW n \in Nat, n > 0
  PROVE  /\ Content(s, h + 1, h + n) \in Seq(Ids)
         /\ Len(Content(s, h + 1, h + n)) = n - 1
         /\ \A k \in 1 .. n - 1 :
              Content(s, h + 1, h + n)[k] = Content(s, h, h + n)[k + 1]
<1>1. PICK g \in Nat, m \in Nat : g = h + 1 /\ m = h + n
  OBVIOUS
<1>2. g <= m /\ h <= m /\ m - g = n - 1 /\ m - h = n
  BY <1>1
<1>3. /\ Content(s, g, m) \in Seq(Ids)
      /\ Len(Content(s, g, m)) = m - g
      /\ \A k \in 1 .. m - g : Content(s, g, m)[k] = s[(g + k - 1) % Capacity]
  BY <1>2, ContentIs
<1>4. \A k \in 1 .. m - h : Content(s, h, m)[k] = s[(h + k - 1) % Capacity]
  BY <1>2, ContentIs
<1>5. \A k \in 1 .. n - 1 : Content(s, g, m)[k] = Content(s, h, m)[k + 1]
  <2>1. SUFFICES ASSUME NEW k \in 1 .. n - 1
                 PROVE  Content(s, g, m)[k] = Content(s, h, m)[k + 1]
    OBVIOUS
  <2>2. k \in 1 .. m - g /\ k + 1 \in 1 .. m - h /\ g + k - 1 = h + (k + 1) - 1
    BY <1>1, <1>2
  <2>3. Content(s, g, m)[k] = s[(g + k - 1) % Capacity]
    BY <1>3, <2>2
  <2>4. Content(s, h, m)[k + 1] = s[(h + (k + 1) - 1) % Capacity]
    BY <1>4, <2>2
  <2> QED
    BY <2>2, <2>3, <2>4
<1> QED
  BY <1>1, <1>2, <1>3, <1>5

\* An iteration that finds a task ends the pick, with the result that Picking
\* gives for the queue of its beginning.
LEMMA RingTakes ==
  ASSUME RingInv, LoopTakes
  PROVE  RingInv' /\ RQ!QPick
<1>1. /\ InLoop /\ Candidate # Idle /\ taskState[Candidate] = "runnable"
      /\ head' = HeadAfter /\ picked' = Candidate
      /\ attempts' = 0 /\ start' = << >>
      /\ slots' = slots /\ tail' = tail /\ taskState' = taskState
      /\ overflow' = overflow
  BY SamePicking DEF LoopTakes
<1>2. attempts # 0 /\ ~overflow
  BY <1>1 DEF InLoop, RingInv, RingTypes
<1>3. PICK n \in Nat, d \in Nat :
           /\ tail = head + n /\ Len(RingBack) = d + n /\ d + n <= Capacity
           /\ RingItems \in Seq(Ids) /\ Len(RingItems) = n
           /\ \A k \in 1 .. n : RingItems[k] = RingBack[d + k]
           /\ \A j \in 1 .. d : j \notin Eligible(RingBack, taskState)
           /\ n = 0 => Candidate = Idle
           /\ n > 0 => Candidate = RingBack[d + 1] /\ HeadAfter = head + 1
  BY <1>1, LoopFacts
<1>4. n > 0 /\ Candidate = RingBack[d + 1] /\ head' = head + 1
  BY <1>1, <1>3
<1>5. RingBack \in Seq(Ids) /\ RQ!BackInQueue = RingBack
  BY <1>2, BackIs DEF RingInv
<1>6. d + 1 \in Eligible(RingBack, taskState)
  BY <1>1, <1>3, <1>4, <1>5 DEF Eligible
<1>7. /\ Chosen(RingBack, taskState) = RingBack[d + 1]
      /\ Left(RingBack, taskState) = SubSeq(RingBack, d + 2, Len(RingBack))
  <2>1. d < Len(RingBack)
    BY <1>3, <1>4
  <2>2. \A j \in 1 .. d : j \notin Eligible(RingBack, taskState)
    BY <1>3
  <2> QED
    BY <1>5, <1>6, <2>1, <2>2, PickAfter
<1>8. /\ head \in Nat /\ tail \in Nat /\ Capacity \in Nat
      /\ slots \in [0 .. Capacity - 1 -> Ids]
  BY RingAssumption DEF RingInv, RingTypes
<1>9. RingItems' = SubSeq(RingBack, d + 2, Len(RingBack))
  <2>1. RingItems' = Content(slots, head + 1, head + n)
    BY <1>1, <1>3, <1>4 DEF RingItems
  <2>2. RingItems = Content(slots, head, head + n)
    BY <1>3 DEF RingItems
  <2>3. PICK e \in Seq(Ids) : e = RingItems'
    BY <1>4, <1>8, <2>1, ContentTail
  <2>4. Len(e) = n - 1 /\ \A k \in 1 .. n - 1 : e[k] = RingItems[k + 1]
    BY <1>4, <1>8, <2>1, <2>2, <2>3, ContentTail
  <2>5. \A k \in 1 .. n - 1 : e[k] = RingBack[d + 2 + k - 1]
    <3>1. SUFFICES ASSUME NEW k \in 1 .. n - 1 PROVE e[k] = RingBack[d + 2 + k - 1]
      OBVIOUS
    <3>2. k + 1 \in 1 .. n /\ d + (k + 1) = d + 2 + k - 1
      OBVIOUS
    <3>3. RingItems[k + 1] = RingBack[d + (k + 1)]
      BY <1>3, <3>2
    <3> QED
      BY <2>4, <3>2, <3>3
  <2>6. PICK a \in Nat, z \in Nat : a = d + 2 /\ z = Len(RingBack)
    BY <1>3
  <2>7. z - a + 1 = n - 1 /\ a <= z + 1
    BY <1>3, <1>4, <2>6
  <2>8. \A i \in a .. z : RingBack[i] \in Ids
    <3>1. \A i \in a .. z : i \in 1 .. Len(RingBack)
      BY <2>6
    <3> QED
      BY <1>5, <3>1
  <2>9. PICK f \in Seq(Ids) : f = SubSeq(RingBack, a, z)
    <3>1. a \in Int /\ z \in Int
      OBVIOUS
    <3>2. SubSeq(RingBack, a, z) \in Seq(Ids)
      BY <2>8, <3>1, SubSeqProperties
    <3> QED
      BY <3>2
  <2>10. /\ Len(f) = IF a <= z THEN z - a + 1 ELSE 0
         /\ \A k \in 1 .. z - a + 1 : f[k] = RingBack[a + k - 1]
    BY <2>8, <2>9, SubSeqProperties
  <2>11. Len(f) = n - 1 /\ \A k \in 1 .. n - 1 : f[k] = RingBack[d + 2 + k - 1]
    BY <2>6, <2>7, <2>10
  <2> QED
    BY <2>3, <2>4, <2>5, <2>6, <2>9, <2>11
<1>10. RingTypes'
  <2>1. picked' \in Ids
    BY <1>1, <1>3, <1>4, <1>5
  <2>2. << >> \in Seq(Ids)
    OBVIOUS
  <2>3. /\ head' \in Nat /\ tail' \in Nat
        /\ head' <= tail' /\ tail' - head' <= Capacity
    BY <1>1, <1>3, <1>4, <1>8
  <2> QED
    BY <1>1, <2>1, <2>2, <2>3 DEF RingInv, RingTypes
<1>11. LoopInv'
  BY <1>1 DEF LoopInv
<1>12. (Items)' = RingItems'
  BY <1>1, ItemsBecome
<1>13. Len(RQ!BackInQueue) <= Capacity
  BY <1>3, <1>5
<1> QED
  BY <1>1, <1>2, <1>4, <1>5, <1>7, <1>9, <1>10, <1>11, <1>12, <1>13, SamePicking
     DEF RingInv, RQ!QPick

\* An iteration that finds nothing is not a step of the queue, unless it was
\* the last one: then no entry could run and the idle task is chosen.
LEMMA RingDrops ==
  ASSUME RingInv, LoopDrops
  PROVE  RingInv' /\ (RQ!QPick \/ UNCHANGED RQ!queueVars)
<1>1. /\ InLoop /\ (Candidate = Idle \/ taskState[Candidate] # "runnable")
      /\ head' = HeadAfter
      /\ attempts' = attempts - 1
      /\ picked' = IF attempts' = 0 THEN Idle ELSE picked
      /\ start' = IF attempts' = 0 THEN << >> ELSE start
      /\ slots' = slots /\ tail' = tail /\ taskState' = taskState
      /\ overflow' = overflow
  BY SamePicking DEF LoopDrops, AttemptsLeft
<1>2. attempts # 0 /\ ~overflow
  BY <1>1 DEF InLoop, RingInv, RingTypes
<1>3. PICK n \in Nat, d \in Nat :
           /\ tail = head + n /\ Len(RingBack) = d + n /\ d + n <= Capacity
           /\ attempts = n + 1
           /\ RingItems \in Seq(Ids) /\ Len(RingItems) = n
           /\ \A k \in 1 .. n : RingItems[k] = RingBack[d + k]
           /\ \A j \in 1 .. d : j \notin Eligible(RingBack, taskState)
           /\ n = 0 => HeadAfter = head
           /\ n > 0 => Candidate = RingBack[d + 1] /\ HeadAfter = head + 1
  BY <1>1, LoopFacts
<1>4. RingBack \in Seq(Ids) /\ RQ!BackInQueue = RingBack
  BY <1>2, BackIs DEF RingInv
<1>5. /\ head \in Nat /\ tail \in Nat /\ Capacity \in Nat
      /\ slots \in [0 .. Capacity - 1 -> Ids]
      /\ picked \in Ids /\ start \in Seq(Ids) /\ Idle \in Ids
  BY RingAssumption DEF RingInv, RingTypes
<1>6. attempts' = n
  BY <1>1, <1>3
<1>7. RingTypes'
  <2>1. << >> \in Seq(Ids)
    OBVIOUS
  <2>2. picked' \in Ids /\ start' \in Seq(Ids)
    BY <1>1, <1>5, <2>1
  <2>3. /\ head' \in Nat /\ tail' \in Nat
        /\ head' <= tail' /\ tail' - head' <= Capacity
    BY <1>1, <1>3, <1>5
  <2> QED
    BY <1>1, <1>6, <2>2, <2>3 DEF RingInv, RingTypes
<1>8. CASE n = 0
  <2>1. Chosen(RingBack, taskState) = Idle /\ Left(RingBack, taskState) = << >>
    BY <1>3, <1>4, <1>8, PickNone
  <2>2. RingItems' = << >>
    <3>1. RingItems' = RingItems
      BY <1>1, <1>3, <1>8 DEF RingItems
    <3> QED
      BY <1>3, <1>8, <3>1
  <2>3. (Items)' = << >>
    BY <1>6, <1>8, <2>2, ItemsBecome
  <2>4. LoopInv'
    BY <1>6, <1>8 DEF LoopInv
  <2>5. Len(RQ!BackInQueue) <= Capacity
    BY <1>3, <1>4
  <2>6. RQ!QPick
    BY <1>1, <1>2, <1>4, <1>6, <1>8, <2>1, <2>3, <2>5, SamePicking DEF RQ!QPick
  <2> QED
    BY <1>7, <2>4, <2>6 DEF RingInv
<1>9. CASE n # 0
  <2>1. /\ head' = head + 1 /\ Candidate = RingBack[d + 1]
        /\ picked' = picked /\ start' = start /\ n > 0 /\ attempts' # 0
    BY <1>1, <1>3, <1>6, <1>9
  <2>2. RingBack' = RingBack
    BY <1>1, <2>1 DEF RingBack
  <2>3. d + 1 \notin Eligible(RingBack, taskState)
    BY <1>1, <2>1 DEF Eligible
  <2>4. \A j \in 1 .. d + 1 : j \notin Eligible(RingBack, taskState)
    BY <1>3, <2>3
  <2>5. RingItems' = Content(slots, head + 1, head + n)
    BY <1>1, <1>3, <2>1 DEF RingItems
  <2>6. RingItems = Content(slots, head, head + n)
    BY <1>3 DEF RingItems
  <2>7. \A k \in 1 .. n - 1 : RingItems'[k] = RingItems[k + 1]
    BY <1>5, <2>1, <2>5, <2>6, ContentTail
  <2>8. tail' - head' = n - 1 /\ Len(RingBack') - (n - 1) = d + 1
    <3>1. PICK h \in Nat : h = head
      BY <1>5
    <3>2. tail' = h + n /\ head' = h + 1
      BY <1>1, <1>3, <2>1, <3>1
    <3>3. (h + n) - (h + 1) = n - 1 /\ (d + n) - (n - 1) = d + 1
      OBVIOUS
    <3>4. Len(RingBack') = d + n
      BY <1>3, <2>2
    <3> QED
      BY <3>2, <3>3, <3>4
  <2>9. \A k \in 1 .. n - 1 : RingItems'[k] = RingBack'[Len(RingBack') - (n - 1) + k]
    <3>1. SUFFICES ASSUME NEW k \in 1 .. n - 1 PROVE RingItems'[k] = RingBack[d + 1 + k]
      BY <2>2, <2>8
    <3>2. k + 1 \in 1 .. n /\ d + (k + 1) = d + 1 + k
      OBVIOUS
    <3>3. RingItems[k + 1] = RingBack[d + (k + 1)]
      BY <1>3, <3>2
    <3> QED
      BY <2>7, <3>2, <3>3
  <2>10. LoopInv'
    <3>1. ~overflow' /\ attempts' = (n - 1) + 1 /\ Len(RingBack') <= Capacity
          /\ n - 1 <= Len(RingBack')
      BY <1>1, <1>2, <1>3, <1>6, <2>2
    <3>2. \A j \in 1 .. Len(RingBack') - (n - 1) : j \notin Eligible(RingBack', taskState')
      BY <1>1, <2>2, <2>4, <2>8
    <3> QED
      BY <2>8, <2>9, <3>1, <3>2 DEF LoopInv
  <2>11. (Items)' = Items
    BY <1>2, <2>1, ItemsAre, ItemsBecome
  <2> QED
    BY <1>1, <1>7, <2>1, <2>10, <2>11 DEF RingInv, RQ!queueVars
<1> QED
  BY <1>8, <1>9

\* Every step of ring and loop is a step of the queue or leaves it alone.
LEMMA RingStep ==
  RingInv /\ [RingNext]_ringVars
    => RingInv' /\ [RQ!QueueNext]_(RQ!queueVars)
<1>1. SUFFICES ASSUME RingInv, [RingNext]_ringVars
               PROVE  RingInv' /\ [RQ!QueueNext]_(RQ!queueVars)
  OBVIOUS
<1>2. ASSUME NEW t \in Ids, Ready(t)
      PROVE  RingInv' /\ [RQ!QueueNext]_(RQ!queueVars)
  BY <1>1, <1>2, RingReady DEF RQ!QueueNext
<1>3. ASSUME NEW t \in Ids, End(t)
      PROVE  RingInv' /\ [RQ!QueueNext]_(RQ!queueVars)
  BY <1>1, <1>3, RingEnd DEF RQ!QueueNext
<1>4. CASE PickBegin
  BY <1>1, <1>4, RingPickBegin DEF RQ!QueueNext
<1>5. CASE LoopTakes
  BY <1>1, <1>5, RingTakes DEF RQ!QueueNext
<1>6. CASE LoopDrops
  BY <1>1, <1>6, RingDrops DEF RQ!QueueNext
<1>7. CASE Overflowed \/ UNCHANGED ringVars
  <2>1. /\ slots' = slots /\ head' = head /\ tail' = tail
        /\ picked' = picked /\ taskState' = taskState
        /\ attempts' = attempts /\ start' = start /\ overflow' = overflow
    BY <1>7 DEF Overflowed, ringVars
  <2>2. RingItems' = RingItems /\ RingBack' = RingBack
    BY <2>1 DEF RingItems, RingBack
  <2>3. RingInv'
    BY <1>1, <2>1, <2>2 DEF RingInv, RingTypes, LoopInv
  <2>4. (Items)' = Items
    BY <2>1, <2>2, ItemsAre, ItemsBecome
  <2> QED
    BY <2>1, <2>3, <2>4 DEF RQ!queueVars
<1> QED
  BY <1>1, <1>2, <1>3, <1>4, <1>5, <1>6, <1>7 DEF RingNext

\* The ring with its loop implements the queue that Scheduler uses: order is
\* kept across every wrap of the indices, a pick drops exactly the entries
\* that cannot run, and a full ring stops the kernel instead of losing one.
THEOREM RingRefinement == RingSpec => ImplementsQueue
BY RingStart, RingStep, PTL DEF RingSpec, ImplementsQueue, RQ!QueueSpec
=============================================================================
