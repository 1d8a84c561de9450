------------------------------ MODULE Scheduler ------------------------------
(***************************************************************************)
(* The scheduler and the process calls of src/src/kernel/ksched.py, driven *)
(* by kernel.py (boot, timer entry) and ksyscall.py (dispatch).            *)
(*                                                                         *)
(* The kernel runs with interrupts masked: a timer tick is taken only in   *)
(* ring 3 or inside the boot code's hlt. A handler is therefore one step   *)
(* up to the point where it switches the CPU to another task; a task that  *)
(* spins in waitpid gives the CPU up in the middle of its call, and        *)
(* waitFor remembers the call.                                             *)
(*                                                                         *)
(* Each slot of the task table keeps the fields the scheduling decisions   *)
(* read: state, mode, parent_pid and exit_code. Name tags, run-time        *)
(* statistics, user memory and descriptors are left out.                   *)
(***************************************************************************)
EXTENDS Integers, Sequences, Picking

CONSTANTS
  MaxTasks,   (* max_tasks(): slots of the task table, 8 in the code       *)
  ReadyCap,   (* ready_queue_capacity(): 16 in the code                    *)
  ExitCodes   (* codes a program may pass to exit                          *)

ASSUME MaxTasksAssumption == MaxTasks \in Nat /\ MaxTasks >= 3
ASSUME ReadyCapAssumption == ReadyCap \in Nat /\ ReadyCap >= MaxTasks - 1
ASSUME ExitCodesAssumption == ExitCodes \subseteq Int

VARIABLES
  phase,      (* boot progress: "boot", "tested", "running"                *)
  halted,     (* "no", or why the kernel stopped for good                  *)
  state,      (* task_slot_state                                           *)
  mode,       (* task_slot_mode                                            *)
  parent,     (* task_slot_parent_pid                                      *)
  exitCode,   (* task_slot_exit_code                                       *)
  taskCount,  (* sched_slot_task_count                                     *)
  current,    (* sched_slot_current_task                                   *)
  queue,      (* the ready queue, head first (ReadyRing.tla refines it)    *)
  waitFor,    (* waitpid call a task is inside of, kept on its kernel stack *)
  rsp0,       (* task whose kernel stack the TSS names                     *)
  cr3         (* owner of the loaded page-table root                       *)

table == <<state, mode, parent, exitCode>>
hw == <<rsp0, cr3>>
vars == <<phase, halted, table, taskCount, current, queue, waitFor, hw>>

Tasks == 0 .. MaxTasks - 1

KernelTask == 1    \* worker_task_one: boot tests, then the shell, for ever

NoWait == -2       \* not inside waitpid
AnyChild == -1     \* waitpid(-1)

NoTask == -1       \* rsp0 before the first task is entered

TypeOK ==
  /\ phase \in {"boot", "tested", "running"}
  /\ halted \in {"no", "ready queue full", "scheduler task table full",
                 "exited task resumed", "fault"}
  /\ state \in [Tasks -> {"empty", "runnable", "exited"}]
  /\ mode \in [Tasks -> {"none", "kernel", "user"}]
  /\ parent \in [Tasks -> Tasks]
  /\ exitCode \in [Tasks -> Int]
  /\ taskCount \in 0 .. MaxTasks
  /\ current \in Tasks
  /\ queue \in Seq(Tasks)
  /\ waitFor \in [Tasks -> {NoWait, AnyChild} \cup Tasks]
  /\ rsp0 \in Tasks \cup {NoTask}
  /\ cr3 \in Tasks

(***************************************************************************)
(* init_scheduler and scheduler_init_bootstrap_tasks: slots 0 and 1 hold   *)
(* the idle task and the kernel task, both with parent 0; 1 is current and *)
(* only 0 is queued.                                                       *)
(***************************************************************************)
Init ==
  /\ phase = "boot"
  /\ halted = "no"
  /\ state = [t \in Tasks |-> IF t \in {Idle, KernelTask} THEN "runnable" ELSE "empty"]
  /\ mode = [t \in Tasks |-> IF t \in {Idle, KernelTask} THEN "kernel" ELSE "none"]
  /\ parent = [t \in Tasks |-> 0]
  /\ exitCode = [t \in Tasks |-> 0]
  /\ taskCount = 2
  /\ current = KernelTask
  /\ queue = <<Idle>>
  /\ waitFor = [t \in Tasks |-> NoWait]
  /\ rsp0 = NoTask
  /\ cr3 = Idle

-----------------------------------------------------------------------------
(***************************************************************************)
(* Choosing and switching.                                                 *)
(***************************************************************************)

\* Mutant: the bound is off by one.
EnqueuePanicEarly(q) == IF Len(q) + 1 >= ReadyCap THEN "ready queue full" ELSE halted

\* scheduler_enqueue_task panics instead of overwriting a full ring.
EnqueuePanic(q) == IF Len(q) >= ReadyCap THEN "ready queue full" ELSE halted

\* Mutant: the state of the current task is not checked.
GoesBackAlways(st) == current # Idle

\* Whether scheduler_pick_next_task puts the current task back in the queue.
GoesBack(st) == current # Idle /\ st[current] = "runnable"

\* Mutant: the current task returns to the head of the queue.
RequeuedInFront(st) == IF GoesBack(st) THEN <<current>> \o queue ELSE queue

Requeued(st) == IF GoesBack(st) THEN Append(queue, current) ELSE queue

\* scheduler_pick_next_task, with st the task states it reads.
PickNext(st) ==
  LET q == Requeued(st)
  IN  /\ queue' = Left(q, st)
      /\ current' = Chosen(q, st)

\* The kernel tasks share the boot page tables; a user task has its own root.
RootOf(t) == IF mode[t] = "kernel" THEN Idle ELSE t

\* Load stack pointer and page tables of task t into the CPU.
LoadTask(t) == rsp0' = t /\ cr3' = RootOf(t)

\* Mutant: the page tables are not switched.
SwitchStackOnly(old, next) == rsp0' = next /\ cr3' = cr3

\* scheduler_switch_to_task (and the tail of scheduler_timer_irq): nothing is
\* loaded when the task that was running was chosen again.
SwitchTo(old, next) == IF next = old THEN UNCHANGED hw ELSE LoadTask(next)

\* scheduler_yield_current_task. The context saved is the kernel stack of the
\* caller, here waitFor.
YieldCurrent ==
  /\ PickNext(state)
  /\ halted' = IF GoesBack(state) THEN EnqueuePanic(queue) ELSE halted
  /\ SwitchTo(current, current')

-----------------------------------------------------------------------------
(***************************************************************************)
(* Boot.                                                                   *)
(***************************************************************************)

\* One round of scheduler_self_test, on the boot stack: it picks a task after
\* a tick but does not switch to it.
SelfTestPick ==
  /\ halted = "no" /\ phase \in {"boot", "tested"}
  /\ PickNext(state)
  /\ halted' = IF GoesBack(state) THEN EnqueuePanic(queue) ELSE halted
  /\ phase' = "tested"
  /\ UNCHANGED <<table, taskCount, waitFor, hw>>

\* scheduler_enter_first_task, which kernel_main calls after the self-test.
EnterFirstTask ==
  /\ halted = "no" /\ phase = "tested"
  /\ phase' = "running"
  /\ LoadTask(current)
  /\ UNCHANGED <<halted, table, taskCount, current, queue, waitFor>>

-----------------------------------------------------------------------------
(***************************************************************************)
(* Steps of the current task.                                              *)
(***************************************************************************)

\* The current task is executing its program, not spinning inside waitpid.
InProgram == halted = "no" /\ phase = "running" /\ waitFor[current] = NoWait

\* sys_yield.
Yield ==
  /\ InProgram
  /\ YieldCurrent
  /\ UNCHANGED <<phase, table, taskCount, waitFor>>

\* scheduler_timer_irq on a tick taken in ring 3. With one runnable task the
\* handler returns; with more it picks, and resumes the choice unless it is
\* the task that was interrupted.
TimerIrq ==
  /\ InProgram /\ mode[current] = "user"
  /\ \E s, t \in 0 .. taskCount - 1 : s # t /\ state[s] = "runnable" /\ state[t] = "runnable"
  /\ YieldCurrent
  /\ UNCHANGED <<phase, table, taskCount, waitFor>>

\* Mutant: a slot whose task has exited is taken before it is collected.
FreeOrExitedId(id) ==
  /\ id \in 0 .. taskCount
  /\ id < taskCount => state[id] # "runnable"
  /\ \A j \in 0 .. id - 1 : state[j] = "runnable"

\* scheduler_find_free_task_id: the lowest empty slot below the count, or the
\* count itself.
FreeTaskId(id) ==
  /\ id \in 0 .. taskCount
  /\ id < taskCount => state[id] = "empty"
  /\ \A j \in 0 .. id - 1 : state[j] # "empty"

\* Mutant: the count grows even when a hole in the table is filled.
CountAlwaysGrows(id) == taskCount + 1

\* The count after slot id has been filled.
CountWith(id) == IF id >= taskCount THEN id + 1 ELSE taskCount

\* scheduler_create_user_elf_task with scheduler_set_task.
Spawn(id) ==
  /\ InProgram
  /\ FreeTaskId(id)
  /\ state' = [state EXCEPT ![id] = "runnable"]
  /\ mode' = [mode EXCEPT ![id] = "user"]
  /\ parent' = [parent EXCEPT ![id] = current]
  /\ exitCode' = [exitCode EXCEPT ![id] = 0]
  /\ taskCount' = CountWith(id)
  /\ queue' = Append(queue, id)
  /\ halted' = EnqueuePanic(queue)
  /\ waitFor' = [waitFor EXCEPT ![id] = NoWait]
  /\ UNCHANGED <<phase, current, hw>>

\* The spawn of a task when no slot is left stops the whole kernel.
SpawnPanic ==
  /\ InProgram
  /\ taskCount >= MaxTasks /\ FreeTaskId(taskCount)
  /\ halted' = "scheduler task table full"
  /\ UNCHANGED <<phase, table, taskCount, current, queue, waitFor, hw>>

\* scheduler_exec_current_task for a user task: a new image in the same slot;
\* scheduler_replace_current_user_context reloads stack and page tables.
Exec ==
  /\ InProgram /\ mode[current] = "user"
  /\ LoadTask(current)
  /\ UNCHANGED <<phase, halted, table, taskCount, current, queue, waitFor>>

\* scheduler_reparent_target.
ReparentTarget == IF current # KernelTask /\ taskCount > 1 THEN KernelTask ELSE Idle

\* Mutant: children that have already exited keep their parent.
ReparentedRunnable ==
  [t \in Tasks |-> IF t < taskCount /\ state[t] = "runnable" /\ parent[t] = current
                     THEN ReparentTarget ELSE parent[t]]

\* scheduler_reparent_children.
Reparented ==
  [t \in Tasks |-> IF t < taskCount /\ state[t] # "empty" /\ parent[t] = current
                     THEN ReparentTarget ELSE parent[t]]

\* scheduler_exit_current_task. Only programs call exit: the kernel task ends
\* in the shell's loop and the idle task in its own.
Exit(code) ==
  /\ InProgram /\ mode[current] = "user"
  /\ parent' = Reparented
  /\ state' = [state EXCEPT ![current] = "exited"]
  /\ exitCode' = [exitCode EXCEPT ![current] = code]
  /\ PickNext(state')
  /\ SwitchTo(current, current')
  /\ halted' = IF current' = current THEN "exited task resumed" ELSE halted
  /\ UNCHANGED <<phase, mode, taskCount, waitFor>>

\* An exception in a program, or a call with an unknown number, ends in
\* seq_terminate: the whole machine stops, not the task.
Fault ==
  /\ InProgram /\ mode[current] = "user"
  /\ halted' = "fault"
  /\ UNCHANGED <<phase, table, taskCount, current, queue, waitFor, hw>>

-----------------------------------------------------------------------------
(***************************************************************************)
(* waitpid.                                                                *)
(***************************************************************************)

\* Mutant: the parent of the task waited for is not checked.
WaitAcceptedForAll(arg) ==
  /\ arg \in AnyChild .. taskCount - 1
  /\ arg # current
  /\ arg # AnyChild => state[arg] # "empty"

\* The checks scheduler_waitpid makes once, when it is called.
WaitAccepted(arg) ==
  /\ arg \in AnyChild .. taskCount - 1
  /\ arg # current
  /\ IF arg = AnyChild
       THEN \E c \in 0 .. taskCount - 1 : state[c] # "empty" /\ parent[c] = current
       ELSE state[arg] # "empty" /\ parent[arg] = current

\* Mutant: waitpid(-1) takes an exited task of any parent.
CollectableOfAnyone(arg, c) ==
  IF arg = AnyChild THEN c < taskCount /\ state[c] = "exited"
                    ELSE c = arg /\ state[c] = "exited"

\* Mutant: the search for an exited child stops one slot early.
CollectableButLast(arg, c) ==
  IF arg = AnyChild THEN c < taskCount - 1 /\ state[c] = "exited" /\ parent[c] = current
                    ELSE c = arg /\ state[c] = "exited"

\* The task a wait for arg would collect now. For waitpid(-1) that is
\* scheduler_find_child(current, 1): the lowest exited child. For a pid the
\* loop looks at the state of that slot and at nothing else.
Collectable(arg, c) ==
  IF arg = AnyChild
    THEN /\ c < taskCount /\ state[c] = "exited" /\ parent[c] = current
         /\ \A j \in 0 .. c - 1 : ~(state[j] = "exited" /\ parent[j] = current)
    ELSE c = arg /\ state[c] = "exited"

\* Mutant: only one empty slot is dropped.
ShrinksOnce(st, n) ==
  n = IF st[taskCount - 1] = "empty" THEN taskCount - 1 ELSE taskCount

\* The loop at the end of scheduler_release_task_slot: drop empty slots from
\* the top of the table.
ShrinksTo(st, n) ==
  /\ n \in 0 .. taskCount
  /\ \A i \in n .. taskCount - 1 : st[i] = "empty"
  /\ n > 0 => st[n - 1] # "empty"

\* scheduler_release_task_slot (scheduler_clear_task zeroes every field).
ReleaseSlot(c) ==
  /\ state' = [state EXCEPT ![c] = "empty"]
  /\ mode' = [mode EXCEPT ![c] = "none"]
  /\ parent' = [parent EXCEPT ![c] = 0]
  /\ exitCode' = [exitCode EXCEPT ![c] = 0]
  /\ \E n \in 0 .. taskCount : ShrinksTo(state', n) /\ taskCount' = n

\* The wait for arg ends: the child's slot is released and waitpid returns.
Collect(arg) ==
  /\ \E c \in Tasks : Collectable(arg, c) /\ ReleaseSlot(c)
  /\ waitFor' = [waitFor EXCEPT ![current] = NoWait]
  /\ UNCHANGED <<phase, halted, current, queue, hw>>

\* Nothing to collect yet: the caller stays inside waitpid and yields.
KeepWaiting(arg) ==
  /\ \A c \in Tasks : ~Collectable(arg, c)
  /\ waitFor' = [waitFor EXCEPT ![current] = arg]
  /\ YieldCurrent
  /\ UNCHANGED <<phase, table, taskCount>>

\* scheduler_waitpid returns -1 and changes nothing.
WaitRefused(arg) == InProgram /\ ~WaitAccepted(arg) /\ UNCHANGED vars

WaitCollect(arg) == InProgram /\ WaitAccepted(arg) /\ Collect(arg)

WaitBlock(arg) == InProgram /\ WaitAccepted(arg) /\ KeepWaiting(arg)

\* The current task was switched to in the middle of waitpid: it goes round
\* the loop once more.
Spinning == halted = "no" /\ phase = "running" /\ waitFor[current] # NoWait

SpinCollect == Spinning /\ Collect(waitFor[current])

SpinYield == Spinning /\ KeepWaiting(waitFor[current])

\* panic and seq_terminate never return.
Halted == halted # "no" /\ UNCHANGED vars

-----------------------------------------------------------------------------
\* Arguments of waitpid: one more than the largest task id is the first that
\* no table can accept.
WaitArgs == AnyChild .. MaxTasks

Next ==
  \/ SelfTestPick
  \/ EnterFirstTask
  \/ Yield
  \/ TimerIrq
  \/ \E id \in Tasks : Spawn(id)
  \/ SpawnPanic
  \/ Exec
  \/ \E code \in ExitCodes : Exit(code)
  \/ Fault
  \/ \E arg \in WaitArgs : WaitRefused(arg) \/ WaitCollect(arg) \/ WaitBlock(arg)
  \/ SpinCollect
  \/ SpinYield
  \/ Halted

Spec == Init /\ [][Next]_vars

(***************************************************************************)
(* Fairness. The local APIC timer is armed periodically, and a tick that   *)
(* is pending while the kernel runs is taken on the return to ring 3: a    *)
(* program that keeps the CPU is interrupted. The kernel task reaches the  *)
(* sys_yield of shell_run again after every line. A task inside waitpid    *)
(* executes kernel code without a wait of its own. The boot code is a      *)
(* finite sequence. Nothing is assumed of the programs.                    *)
(***************************************************************************)
KernelTaskYield == current = KernelTask /\ Yield

Fairness ==
  /\ WF_vars(SelfTestPick) /\ WF_vars(EnterFirstTask)
  /\ WF_vars(TimerIrq) /\ WF_vars(KernelTaskYield)
  /\ WF_vars(SpinCollect) /\ WF_vars(SpinYield)

FairSpec == Spec /\ Fairness

-----------------------------------------------------------------------------
(***************************************************************************)
(* Safety.                                                                 *)
(***************************************************************************)

Running == phase = "running"

\* q holds every runnable task except the idle task and cur, each once.
ExactQueue(q, st, cur) ==
  /\ \A t \in Tasks :
       (\E k \in 1 .. Len(q) : q[k] = t)
         <=> (st[t] = "runnable" /\ t # Idle /\ t # cur)
  /\ \A j, k \in 1 .. Len(q) : q[j] = q[k] => j = k

\* Once the first task runs, the ready queue holds every runnable task except
\* the idle task and the current one, each exactly once, and nothing else: no
\* entry is lost, doubled or left behind by a task that exited, and a slot
\* that is used again is not queued for its former owner.
QueueExact == Running => ExactQueue(queue, state, current)

\* The current task is runnable and is never the idle task: scheduler_exit
\* and waitpid always find somebody to run, so the idle loop of kernel.py is
\* never reached.
CurrentLive == current # Idle /\ state[current] = "runnable"

\* The panics that guard the scheduler's own bookkeeping are unreachable: the
\* ready queue never overflows and no exited task runs again. The table-full
\* panic is left out: programs can cause it.
NoInternalPanic == halted \notin {"ready queue full", "exited task resumed"}

\* The parent of every user task in the table is a runnable task other than
\* itself: somebody is left to collect it, however parents and children exit.
ParentsLive ==
  \A t \in Tasks : t > KernelTask /\ state[t] # "empty" =>
    parent[t] # t /\ parent[t] # Idle /\ state[parent[t]] = "runnable"

\* A task inside waitpid(pid) still is the parent of pid, and pid's slot was
\* not given to another task, although the checks were made before the task
\* gave up the CPU; a task inside waitpid(-1) still has a child.
WaitTargetIsChild ==
  \A t \in Tasks : waitFor[t] # NoWait =>
    /\ state[t] = "runnable"
    /\ IF waitFor[t] = AnyChild
         THEN \E c \in Tasks : state[c] # "empty" /\ parent[c] = t
         ELSE state[waitFor[t]] # "empty" /\ parent[waitFor[t]] = t

\* task_count is one more than the highest used slot, so that the loops over
\* 0 .. task_count-1 see every task and waitpid's range check refuses no child.
TaskCountTight ==
  /\ \A t \in Tasks : t >= taskCount => state[t] = "empty"
  /\ taskCount > 0 /\ state[taskCount - 1] # "empty"

\* Kernel stack and page tables loaded in the CPU are those of the current
\* task on every path that changes it (yield, exit, preemption, exec), so the
\* page tables that waitpid frees are not the ones in use.
HardwareMatchesCurrent ==
  Running => rsp0 = current /\ cr3 = RootOf(current)

\* What t waits for has happened.
Satisfied(t) ==
  IF waitFor[t] = AnyChild
    THEN \E c \in Tasks : state[c] = "exited" /\ parent[c] = t
    ELSE state[waitFor[t]] = "exited"

\* The tasks are never all stuck in waitpid: some runnable task executes its
\* program or has what it waits for. Spinning waiters can therefore not keep
\* the CPU among themselves for ever.
SomebodyProgresses ==
  Running => \E t \in Tasks \ {Idle} :
               state[t] = "runnable" /\ (waitFor[t] = NoWait \/ Satisfied(t))

\* An exited task keeps its exit code until its parent collects it: no step
\* revives it, changes the code, or lets a task other than the parent of that
\* moment release the slot; only an exiting parent hands it to the kernel task.
ZombieKept ==
  [][\A t \in Tasks : state[t] = "exited" =>
       \/ /\ state'[t] = "exited" /\ exitCode'[t] = exitCode[t]
          /\ parent'[t] # parent[t] => parent'[t] = KernelTask /\ state'[parent[t]] = "exited"
       \/ /\ state'[t] = "empty"
          /\ current = parent[t] /\ current' = current]_vars

(***************************************************************************)
(* The scheduler implements the process table of ProcessTable.tla.         *)
(***************************************************************************)
UserSlots == Tasks \ {Idle}

LifeOf(t) == CASE state[t] = "empty" -> "free"
               [] state[t] = "runnable" -> "live"
               [] state[t] = "exited" -> "ended"

MotherOf(t) == IF t = KernelTask \/ state[t] = "empty" THEN KernelTask ELSE parent[t]

PT == INSTANCE ProcessTable WITH
        Slots <- UserSlots, Root <- KernelTask, Codes <- ExitCodes,
        life <- [t \in UserSlots |-> LifeOf(t)],
        mother <- [t \in UserSlots |-> MotherOf(t)],
        code <- [t \in UserSlots |-> exitCode[t]]

\* Every behaviour of the scheduler, whatever the interleaving of yields,
\* ticks and waits, is one of the process table: slots are created by live
\* parents only, orphans change hands in the step in which the parent ends,
\* and an ended task is collected once, by its parent.
ImplementsTable == PT!TableSpec

(***************************************************************************)
(* Liveness, under Fairness.                                               *)
(***************************************************************************)

\* Round robin starves nobody: a runnable task other than the idle task gets
\* the CPU, whatever the other programs do, unless the kernel stops.
NoStarvation ==
  \A t \in UserSlots :
    Running /\ state[t] = "runnable" ~> current = t \/ halted # "no"

\* A waitpid whose child has exited returns, unless the kernel stops.
WaitReturns ==
  \A t \in UserSlots :
    waitFor[t] # NoWait /\ Satisfied(t) ~> waitFor[t] = NoWait \/ halted # "no"
=============================================================================
