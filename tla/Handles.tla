------------------------------ MODULE Handles ------------------------------
(***************************************************************************)
(* The descriptor handles of tasks: four words of a task slot (ksched.py)  *)
(* that name entries of the descriptor table (kvfs.py), and the calls of   *)
(* ksyscall.py that fill and clear them, across spawn, exit and the        *)
(* collection of a task.                                                   *)
(*                                                                         *)
(* What a descriptor refers to is the business of Vfs.tla: here an entry   *)
(* is open or closed. Which task runs is that of Scheduler.tla: here any   *)
(* runnable task makes the next call. An exec, or a spawn whose image is   *)
(* refused, opens and closes a descriptor in one step and keeps the        *)
(* handles: it changes nothing.                                            *)
(***************************************************************************)
EXTENDS Integers, FiniteSets

CONSTANTS
  MaxTasks,  (* max_tasks(): 8 in the code                                 *)
  Std,       (* console handles of a new task: 3 in the code               *)
  Fds,       (* handles of a task, 0 .. Fds-1: 4 in the code               *)
  DescCap    (* max_vfs_descriptors(): 32 in the code                      *)

Tasks == 0 .. MaxTasks - 1
Descs == 1 .. DescCap
Slots == 0 .. Fds - 1
Idle == 0
KernelTask == 1

\* vfs_self_test opens a file and forgets the descriptor, the fourth it opened.
SelfTestLeft == Std + 1

ASSUME HandlesAssumption ==
  /\ MaxTasks \in Nat /\ MaxTasks >= 2
  /\ Std \in Nat /\ Std > 0 /\ Fds \in Nat /\ Fds >= Std
  /\ DescCap \in Nat

\* The table has an entry for the self-test, for the console of the idle task,
\* which makes no calls, and for every handle of all others: 32 = 1 + 3 + 7 * 4.
ASSUME RoomAssumption == DescCap >= 1 + Std + (MaxTasks - 1) * Fds

VARIABLES
  open,    (* descriptors that are not closed                              *)
  fds,     (* task_slot_fd0_kind ..: descriptor of each handle, 0 for none *)
  state,   (* task_slot_state                                              *)
  halted   (* scheduler_init_task_fds panicked                             *)

vars == <<open, fds, state, halted>>

NoFds == [f \in Slots |-> 0]

\* Console handles on the descriptors first .. first + Std - 1.
ConsoleFrom(first) == [f \in Slots |-> IF f < Std THEN first + f ELSE 0]

\* After init_scheduler: descriptors are given out in order, around the one
\* the self-test left.
Init ==
  /\ open = 1 .. 2 * Std + 1
  /\ fds = [t \in Tasks |-> CASE t = Idle -> ConsoleFrom(1)
                              [] t = KernelTask -> ConsoleFrom(Std + 2)
                              [] OTHER -> NoFds]
  /\ state = [t \in Tasks |-> IF t \in {Idle, KernelTask} THEN "runnable" ELSE "empty"]
  /\ halted = FALSE

\* Mutant: the search counts from zero.
ClosedDescsFromZero == 0 .. DescCap - 1 \ open

\* The entries vfs_alloc_descriptor may take.
ClosedDescs == Descs \ open

\* d is the entry vfs_alloc_descriptor takes: the first closed one.
FirstClosed(d) == d \in ClosedDescs /\ \A e \in ClosedDescs : d <= e

\* A runnable task makes a call.
Calls(t) == ~halted /\ t # Idle /\ state[t] = "runnable"

\* The handle syscall_alloc_task_fd takes: it searches downwards.
FreeFd(t, f) ==
  /\ f \in Slots /\ fds[t][f] = 0
  /\ \A g \in f + 1 .. Fds - 1 : fds[t][g] # 0

HasFreeFd(t) == \E f \in Slots : fds[t][f] = 0

-----------------------------------------------------------------------------
\* An open that succeeds.
Open(t, d, f) ==
  /\ Calls(t) /\ FirstClosed(d) /\ FreeFd(t, f)
  /\ open' = open \cup {d}
  /\ fds' = [fds EXCEPT ![t][f] = d]
  /\ UNCHANGED <<state, halted>>

\* Mutant: the descriptor is not closed again.
OpenAndLeave(d) == open \cup {d}

\* The descriptors after an open that got d but found no handle for it:
\* syscall_open_user_path closes d again.
OpenUndone(d) == (open \cup {d}) \ {d}

OpenNoHandle(t, d) ==
  /\ Calls(t) /\ FirstClosed(d) /\ ~HasFreeFd(t)
  /\ open' = OpenUndone(d)
  /\ UNCHANGED <<fds, state, halted>>

\* The handles after a close.
HandleCleared(t, f) == [fds EXCEPT ![t][f] = 0]

\* syscall_close_fd.
Close(t, f) ==
  /\ Calls(t) /\ f \in Slots /\ fds[t][f] # 0
  /\ open' = open \ {fds[t][f]}
  /\ fds' = HandleCleared(t, f)
  /\ UNCHANGED <<state, halted>>

\* g gives the console handles the first Std closed descriptors, in order.
FirstStd(g) ==
  /\ \A i, j \in 0 .. Std - 1 : i < j => g[i] < g[j]
  /\ \A d \in ClosedDescs : d \in {g[i] : i \in 0 .. Std - 1} \/ d > g[Std - 1]

\* scheduler_set_task with scheduler_init_task_fds, for a program whose image
\* could be loaded, which needs a closed descriptor for a moment. It panics if
\* there are not enough descriptors for the console handles.
Spawn(t, c) ==
  /\ Calls(t) /\ ClosedDescs # {}
  /\ state[c] = "empty"
  /\ IF Cardinality(ClosedDescs) < Std
       THEN halted' = TRUE /\ UNCHANGED <<open, fds, state>>
       ELSE /\ \E g \in [0 .. Std - 1 -> ClosedDescs] :
                 /\ FirstStd(g)
                 /\ open' = open \cup {g[i] : i \in 0 .. Std - 1}
                 /\ fds' = [fds EXCEPT ![c] = [f \in Slots |-> IF f < Std THEN g[f] ELSE 0]]
            /\ state' = [state EXCEPT ![c] = "runnable"]
            /\ UNCHANGED halted

\* scheduler_exit_current_task leaves the handles to the parent's waitpid.
Exit(t) ==
  /\ Calls(t) /\ t # KernelTask
  /\ state' = [state EXCEPT ![t] = "exited"]
  /\ UNCHANGED <<open, fds, halted>>

\* Mutant: only the console handles are closed.
ReleasesStd(c) == {fds[c][f] : f \in 0 .. Std - 1}

\* The descriptors scheduler_release_task_fds closes.
Releases(c) == {fds[c][f] : f \in Slots}

\* waitpid collects c: scheduler_release_task_fds, scheduler_clear_task.
Collect(t, c) ==
  /\ Calls(t) /\ state[c] = "exited"
  /\ open' = open \ Releases(c)
  /\ fds' = [fds EXCEPT ![c] = NoFds]
  /\ state' = [state EXCEPT ![c] = "empty"]
  /\ UNCHANGED halted

Next ==
  \E t \in Tasks :
    \/ \E d \in Descs : OpenNoHandle(t, d) \/ \E f \in Slots : Open(t, d, f)
    \/ \E f \in Slots : Close(t, f)
    \/ \E c \in Tasks : Spawn(t, c) \/ Collect(t, c)
    \/ Exit(t)

Spec == Init /\ [][Next]_vars

-----------------------------------------------------------------------------
TypeOK ==
  /\ open \subseteq Descs
  /\ fds \in [Tasks -> [Slots -> 0 .. DescCap]]
  /\ state \in [Tasks -> {"empty", "runnable", "exited"}]
  /\ halted \in BOOLEAN

\* Handles and open descriptors correspond one to one, over all tasks and all
\* orders of opening, closing, spawning, exiting and collecting: a handle names
\* an open descriptor, no descriptor has two handles (closing one would pull
\* it from under the other), none is open without a handle but the one the
\* self-test left, and an empty slot keeps no handle.
HandlesExact ==
  /\ \A t \in Tasks : \A f \in Slots : fds[t][f] # 0 =>
       /\ fds[t][f] \in open \ {SelfTestLeft}
       /\ state[t] # "empty"
       /\ \A u \in Tasks : \A g \in Slots : fds[u][g] = fds[t][f] => u = t /\ g = f
  /\ \A d \in open \ {SelfTestLeft} : \E t \in Tasks : \E f \in Slots : fds[t][f] = d

\* The shared pool is never the reason that an open or a spawn fails: a task with a free
\* handle finds a closed descriptor, and a new task always gets its console, so
\* the panic of scheduler_init_task_fds is unreachable. With the descriptor of
\* the self-test the table is exactly large enough.
PoolSuffices ==
  /\ ~halted
  /\ \A t \in Tasks \ {Idle} : HasFreeFd(t) => ClosedDescs # {}
  /\ \A c \in Tasks : state[c] = "empty" => Cardinality(ClosedDescs) >= Fds
=============================================================================
