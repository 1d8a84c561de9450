------------------------------- MODULE Ticks -------------------------------
(***************************************************************************)
(* The kernel's clock: the periodic interrupt of the local APIC, the waits *)
(* of src/src/kernel/ktime.py and kapic.py by which the boot tests the     *)
(* clock, and the accounting of src/src/kernel/ksched.py, which charges    *)
(* every tick to a task.                                                   *)
(*                                                                         *)
(* Kernel code runs with interrupts off. An interrupt that comes due stays *)
(* pending, once, until a program runs or wait_for_interrupt turns them on *)
(* for a hlt. Which task is picked is in Scheduler and left open here.     *)
(***************************************************************************)
EXTENDS Integers, FiniteSets, FiniteSetsExt

CONSTANTS
  Users,       (* slots for programs                                       *)
  Idle, Kernel,(* the two tasks of the boot                                *)
  ProbeTicks, TestTicks, SchedTicks, (* ticks the tests wait for: 3, 5, 5  *)
  Burst,       (* bound: interrupts taken in one wait_for_interrupt        *)
  MaxTicks     (* bound: the count at which the timer stops                *)

Tasks == Users \cup {Idle, Kernel}

ASSUME TicksAssumption ==
  /\ IsFiniteSet(Users) /\ Idle # Kernel /\ Idle \notin Users /\ Kernel \notin Users
  /\ ProbeTicks \in Nat \ {0} /\ TestTicks \in Nat \ {0} /\ SchedTicks \in Nat \ {0}
  /\ Burst \in Nat \ {0} /\ MaxTicks \in Nat
  /\ MaxTicks >= ProbeTicks + TestTicks + SchedTicks + 2 * Burst

VARIABLES
  armed,   (* the timer is periodic and not masked                         *)
  pending, (* an interrupt is due and not taken yet                        *)
  counter, (* timer_irq_count                                              *)
  mode,    (* what the CPU does: "kernel", "wait" (in a hlt), "user"       *)
  woken,   (* interrupts taken in this hlt                                 *)
  phase,   (* how far kernel_main is                                       *)
  edge,    (* start of wait_for_tick_edge                                  *)
  goal,    (* what the loop of a test waits for                            *)
  active,  (* set_active_scheduler has been called                         *)
  last, total, idleTicks, (* slots last_tick, total_ticks, idle_ticks      *)
  runtime, (* runtime_ticks of each task                                   *)
  current, (* the current task                                             *)
  used,    (* task slots that are not empty                                *)
  retired, (* history: ticks of tasks whose slot was released              *)
  base     (* history: the count when the scheduler was set up             *)

clock == <<armed, pending, counter>>
books == <<last, total, idleTicks, runtime>>
boot == <<phase, edge, goal, active, base>>
vars == <<clock, mode, woken, boot, books, current, used, retired>>

Init ==
  /\ armed = FALSE /\ pending = FALSE /\ counter = 0
  /\ mode = "kernel" /\ woken = 0
  /\ phase = "off" /\ edge = 0 /\ goal = 0 /\ active = FALSE /\ base = 0
  /\ last = 0 /\ total = 0 /\ idleTicks = 0 /\ runtime = [t \in Tasks |-> 0]
  /\ current = Kernel /\ used = {Idle, Kernel} /\ retired = 0

-----------------------------------------------------------------------------
(***************************************************************************)
(* The timer and its interrupt.                                            *)
(***************************************************************************)

\* The timer reaches zero. What is pending already is not pending twice.
TimerFires ==
  /\ armed /\ ~pending /\ counter < MaxTicks
  /\ pending' = TRUE
  /\ UNCHANGED <<armed, counter, mode, woken, boot, books, current, used, retired>>

\* scheduler_account_tick.
Account(now) ==
  IF now <= last THEN UNCHANGED books
  ELSE /\ last' = now
       /\ total' = total + (now - last)
       /\ runtime' = [runtime EXCEPT ![current] = @ + (now - last)]
       /\ idleTicks' = IF current = Idle THEN idleTicks + (now - last) ELSE idleTicks

\* The CPU goes on with task t: in its program, in a call it made, or in the
\* idle loop, which begins another wait for an edge.
GoOnWith(t) ==
  /\ current' = t
  /\ \/ t \in Users /\ mode' = "user"
     \/ mode' = "kernel"
  /\ edge' = IF t = Idle THEN counter' ELSE edge

\* Mutant: the code segment is looked at before the accounting.
KernelIrqEarlyReturn == UNCHANGED <<books, current, mode, edge>>

\* timer_irq_entry and scheduler_timer_irq in kernel code: no preemption.
KernelIrq ==
  /\ IF active THEN Account(counter + 1) ELSE UNCHANGED books
  /\ UNCHANGED <<current, mode, edge>>

\* The same in a program: the tick is charged to it before another is picked.
UserIrq ==
  /\ Account(counter + 1)
  /\ \E t \in used : GoOnWith(t)

\* isr32. In a hlt interrupts stay on until cli, so that a second one may be
\* taken before the kernel goes on.
TimerIrq ==
  /\ pending
  /\ \/ mode = "wait" /\ woken < Burst
     \/ mode = "user"
  /\ pending' = FALSE /\ counter' = counter + 1
  /\ IF mode = "wait" THEN KernelIrq /\ woken' = woken + 1 ELSE UserIrq /\ woken' = woken
  /\ UNCHANGED <<armed, phase, goal, active, base, used, retired>>

\* The rest of wait_for_interrupt.
WakeUp ==
  /\ mode = "wait" /\ woken > 0
  /\ mode' = "kernel" /\ woken' = 0
  /\ UNCHANGED <<clock, boot, books, current, used, retired>>

-----------------------------------------------------------------------------
(***************************************************************************)
(* kernel_main from probe_timer_interrupts on.                             *)
(***************************************************************************)
InBoot(p) == mode = "kernel" /\ phase = p
KeepTasks == UNCHANGED <<woken, books, current, used, retired>>

Hlt == mode' = "wait"

BeginProbe ==
  /\ InBoot("off")
  /\ counter' = 0 /\ armed' = TRUE
  /\ phase' = "probe"
  /\ UNCHANGED <<pending, mode, edge, goal, active, base>> /\ KeepTasks

\* The loop of probe_timer_interrupts and the mask behind it.
Probe ==
  /\ InBoot("probe")
  /\ IF counter < ProbeTicks
       THEN Hlt /\ UNCHANGED <<armed, phase>>
       ELSE armed' = FALSE /\ phase' = "source" /\ UNCHANGED mode
  /\ UNCHANGED <<pending, counter, edge, goal, active, base>> /\ KeepTasks

\* start_kernel_tick_source, and timekeeping_self_test up to its loop.
StartSource ==
  /\ InBoot("source")
  /\ counter' = 0 /\ armed' = TRUE
  /\ phase' = "time test" /\ edge' = 0 /\ goal' = TestTicks
  /\ UNCHANGED <<pending, mode, active, base>> /\ KeepTasks

\* wait_for_tick_edge: hlt until the count differs from where it was.
WaitForEdge ==
  /\ mode = "kernel" /\ counter = edge
  /\ \/ phase \in {"time test", "scheduler test"}
     \/ phase = "running" /\ current = Idle
  /\ Hlt
  /\ UNCHANGED <<clock, boot>> /\ KeepTasks

\* Mutant: the target is computed in the loop.
TimeTestMovingGoal ==
  /\ InBoot("time test") /\ counter # edge
  /\ IF counter < goal
       THEN edge' = counter /\ goal' = counter + TestTicks /\ UNCHANGED phase
       ELSE phase' = "setup" /\ UNCHANGED <<edge, goal>>
  /\ UNCHANGED <<clock, mode, active, base>> /\ KeepTasks

\* The loop of wait_for_kernel_ticks has seen an edge.
TimeTest ==
  /\ InBoot("time test") /\ counter # edge
  /\ IF counter < goal
       THEN edge' = counter /\ UNCHANGED phase
       ELSE phase' = "setup" /\ UNCHANGED edge
  /\ UNCHANGED <<clock, mode, goal, active, base>> /\ KeepTasks

\* init_scheduler, and scheduler_self_test up to its loop.
InitScheduler ==
  /\ InBoot("setup")
  /\ last' = counter /\ total' = 0 /\ idleTicks' = 0 /\ runtime' = [t \in Tasks |-> 0]
  /\ active' = TRUE /\ base' = counter
  /\ phase' = "scheduler test" /\ edge' = counter /\ goal' = SchedTicks
  /\ UNCHANGED <<clock, mode, woken, current, used, retired>>

\* One turn of the loop of scheduler_self_test: a task is picked and not
\* switched to. Behind the loop the first task is entered.
SchedulerTest ==
  /\ InBoot("scheduler test") /\ counter # edge
  /\ UNCHANGED <<clock, woken, goal, active, base, books, used, retired>>
  /\ \E t \in used :
       IF total < goal
         THEN current' = t /\ edge' = counter /\ UNCHANGED <<mode, phase>>
         ELSE GoOnWith(t) /\ phase' = "running"

-----------------------------------------------------------------------------
(***************************************************************************)
(* Tasks.                                                                  *)
(***************************************************************************)
Running == phase = "running"

CallBegins ==
  /\ Running /\ mode = "user"
  /\ mode' = "kernel"
  /\ UNCHANGED <<clock, woken, boot, books, current, used, retired>>

\* A call that yields, waits or exits, and the idle task's yield: another task
\* goes on.
SwitchTask ==
  /\ Running /\ mode = "kernel"
  /\ current = Idle => counter # edge
  /\ UNCHANGED <<clock, woken, phase, goal, active, base, books, used, retired>>
  /\ \E t \in used : GoOnWith(t)

\* syscall_return_with_tick: scheduler_timer_interrupt accounts once more and
\* preempts a program if that finds a tick. syscall_self_test makes its calls
\* before the tasks run.
CallReturns ==
  /\ mode = "kernel" /\ active /\ (Running => current # Idle)
  /\ UNCHANGED <<clock, woken, phase, goal, active, base, used, retired>>
  /\ Account(counter)
  /\ IF counter > last /\ Running /\ current \in Users
       THEN \E t \in used : GoOnWith(t)
       ELSE /\ mode' = IF Running /\ current \in Users THEN "user" ELSE mode
            /\ UNCHANGED <<current, edge>>

\* scheduler_set_task for a new program.
NewTask(u) ==
  /\ Running /\ mode = "kernel" /\ u \notin used /\ current # Idle
  /\ used' = used \cup {u}
  /\ runtime' = [runtime EXCEPT ![u] = 0]
  /\ UNCHANGED <<clock, mode, woken, boot, last, total, idleTicks, current, retired>>

\* scheduler_release_task_slot of a program that has ended.
ReleaseTask(u) ==
  /\ Running /\ mode = "kernel" /\ u \in used /\ u # current /\ current # Idle
  /\ used' = used \ {u}
  /\ runtime' = [runtime EXCEPT ![u] = 0]
  /\ retired' = retired + runtime[u]
  /\ UNCHANGED <<clock, mode, woken, boot, last, total, idleTicks, current>>

\* The bound on the count ends a behaviour.
BoundReached == counter = MaxTicks /\ UNCHANGED vars

BootStep ==
  \/ BeginProbe \/ Probe \/ StartSource
  \/ WaitForEdge \/ TimeTest \/ InitScheduler \/ SchedulerTest

Next ==
  \/ TimerFires \/ TimerIrq \/ WakeUp
  \/ BootStep
  \/ CallBegins \/ SwitchTask \/ CallReturns
  \/ \E u \in Users : NewTask(u) \/ ReleaseTask(u)
  \/ BoundReached

Spec == Init /\ [][Next]_vars

\* The timer is periodic, and the CPU takes interrupts and executes kernel code.
FairSpec == Spec /\ WF_vars(TimerFires) /\ WF_vars(TimerIrq) /\ WF_vars(WakeUp) /\ WF_vars(BootStep)

-----------------------------------------------------------------------------
(***************************************************************************)
(* Properties.                                                             *)
(***************************************************************************)

\* The scheduler's clock never falls behind: once it is set up, each interrupt
\* has been accounted for by the time anything else runs. So the accounting on
\* the return of a call never finds a tick, and its preemption never happens.
ClockInStep == active => last = counter /\ total = counter - base

\* Every tick since the scheduler was set up is charged to exactly one task:
\* interrupts before and during set-up, in a hlt, in a program, two in a row,
\* and those of tasks that are gone.
EveryTickCharged ==
  /\ ClockInStep
  /\ active => /\ total = retired + MapThenSumSet(LAMBDA t : runtime[t], Tasks)
               /\ idleTicks = runtime[Idle]

\* The waits of the boot end, although each is a hlt that only a tick ends, the
\* probe masks the timer, and the tests see the count jump.
BootEnds == <>(phase = "running")
=============================================================================
