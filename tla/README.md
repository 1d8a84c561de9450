# PCO OS: TLA+ models, checks and proofs

PCO OS is a small x86-64 kernel written in Python (compiled with Codon) and
assembly, started by a UEFI loader. One CPU runs a shell as kernel task and
user programs from an initramfs; programs use an `int 0x80` interface for
processes, files and memory. This directory models the kernel's own logic in
TLA+, checks it with TLC and proves its safety with TLAPS.

## 1. The system

| Component | Source (`src/src/...`) | State | Operations |
|---|---|---|---|
| Scheduler and process calls | `kernel/ksched.py`, `kernel/kernel.py` | task table of 8 slots (state, mode, parent, exit code, saved stack, root), `task_count`, `current_task` | init, self-test, enter first task, yield, timer tick, spawn, exec, exit, waitpid, release of a slot |
| Ready queue | `kernel/ksched.py` | ring of 16 words, growing head and tail | enqueue, dequeue, pick loop |
| Physical pages | `kernel/kmemory.py` (1-175) | region table (64), recycle stack (2048), counters | init over the memory map, alloc, free |
| Page tables | `kernel/kmemory.py` (177-733) | boot root, one root per user task, split tables | create root, split 2 MiB pages, map, unmap, free root |
| Task memory | `kernel/ksched.py`, `kernel/kelf.py` | page list of each task, program break | check and load an ELF image, build the user stack, exec, free, brk |
| Files | `kernel/kvfs.py` | node table, descriptors with kind, node and offset, file data | open (create, truncate), close, read, write, fstat, readdir |
| System calls | `kernel/ksyscall.py` | per-task table of descriptor handles | dispatch, checks of user pointers, argument copies |
| Time | `kernel/ktime.py`, `arch/x86_64/interrupts.s` | tick counter, `last_tick` | tick, accounting, waiting for ticks |
| Shell | `kernel/kshell.py` | line, current directory | line editing, path resolution, commands |
| Boot | `boot/uefi/efi_loader.c`, `kernel/kboot.py` | memory map and its key, boot information | load the kernel, `ExitBootServices` until the firmware accepts it |
| Hardware access | `kapic.py`, `kidt.py`, `khal.py`, `kexceptions.py`, `kconsole.py`, `*.s` | device registers, descriptor tables | set-up, interrupt entry, context switch, fault report |

How they interact. `kernel_main` initialises everything in order, runs
`scheduler_self_test` and enters the first task, which is the kernel task; that
task runs the boot tests and then `shell_run` for ever, spawning a program per
command and waiting for it. A program enters the kernel by `int 0x80` or by the
timer. **All kernel code runs with interrupts masked**, so a handler is atomic up
to the point where it switches to another task; the places where that happens
are `scheduler_yield_current_task`, `scheduler_exit_current_task` and the end of
`scheduler_timer_irq`. The one handler that gives the CPU away in its middle and
continues later is `waitpid`: it never blocks but yields in a loop, so what it
checked at its start may be stale when it goes on. `panic`, an exception in a
program and an unknown call number all end in `seq_terminate`: the machine stops.

What is hard here: the order in which parents and children spawn, exit and wait;
slots and queue entries that are used again; several waiters spinning at once;
picks from a ring with stale entries; frames freed in any order without a record
of their owner; memory maps that overlap the kernel image in every possible way;
calls that fail half-way (an open that has already truncated); descriptors that
share a file. `PROJECT.json` lists each of these at its line under `hazards`.

## 2. Modules

| Module | Models | Kind |
|---|---|---|
| `Scheduler` | scheduler, process calls, boot sequence up to the first task | detailed, one action per handler |
| `ProcessTable` | what the process calls promise: create, end, collect | abstract; `Scheduler` implements it |
| `Picking` | result of the pick loop as a function of queue and states | operators shared by the next two and by `Scheduler` |
| `ReadyRing` | ring buffer, modulo indices, the pick loop step by step | detailed |
| `ReadyQueue` | FIFO with an atomic pick | abstract; `ReadyRing` implements it, `Scheduler` uses it |
| `Pmm` | boot-time walk of the memory map, page allocation and freeing | detailed |
| `Vfs` | node table, descriptors with cursors, file data | detailed |
| `Paths` | `vfs_normalize_path`, and as a reference what the components of a path mean | operators of `Vfs` and `Shell` |
| `Handles` | the descriptor handles of tasks across open, close, spawn, exit and collection | detailed; composes the handle calls of `ksyscall.py` with the life of a task |
| `AddressSpace` | frames and page tables of programs across spawn, exec, exit and collection; the break; user buffers | detailed |
| `ElfImage` | which ELF files the kernel accepts, with integers that wrap | operators of `ProgramStart` |
| `ProgramStart` | spawn and exec from the copy of the arguments to the first instruction | detailed; composes `ksyscall.py`, `kelf.py` and `ksched.py` |
| `Ticks` | timer interrupt, waits in `hlt`, accounting of ticks | detailed |
| `Shell` | the shell's commands, beside programs that run where it yields | detailed; uses `ProcessTable` for processes and `Paths` for paths |
| `Loader` | the UEFI loader's memory map and `ExitBootServices` loop | detailed; the firmware is external |
| `*Proofs` | theorems about the module of the same name; `SchedulerProofs` also has those about `ReadyRing`, `PmmProofs` those about `Loader` | proofs |
| `MC*` | instances for TLC | |

### Scheduler

`state`, `mode`, `parent`, `exitCode` are fields of a task slot; `taskCount`,
`current` and `queue` are the scheduler's own words; `rsp0` and `cr3` name the
task whose kernel stack is in the TSS and whose page tables are loaded;
`waitFor[t]` is the `waitpid` call that task `t` was in when it gave up the CPU
(in the code: its saved kernel stack). `halted` is the reason of a panic.

`Yield`, `TimerIrq`, `Spawn`, `Exec`, `Exit` are whole handlers: `Exit`, for
example, hands the children to the kernel task, stores the code, picks the next
task and switches to it in one step. `waitpid` is four actions: it refuses,
collects at once, or begins to wait; `SpinCollect` and `SpinYield` are a
further round of its loop when the task has the CPU again. In that loop the code looks only at
the `state` of the slot, and so does `Collectable`. Calls of spawn and exec that
fail (no such file, bad image) leave this state as it was and are stutters.
`Fault` is an exception in a program; it stops the kernel as in the code. No
action belongs to the idle task: `CurrentLive` shows that it never gets the CPU.

Left out of the state: statistics, ticks, name tags, user memory, descriptors.

### ReadyRing

`Ready`, `End` and `PickBegin` happen between picks; `LoopTakes` and `LoopDrops`
are iterations of the loop of `scheduler_pick_next_task`. The environment is
more hostile than the kernel: tasks stop being runnable while queued and are
queued again, so the ring contains stale and doubled entries and overflows.
`start` remembers the content when the loop began: in `ReadyQueue`, the pick
happens in the step in which the loop ends. `picked` is the scheduler's current task.

### Pmm

One `ScanEntry` per entry of the memory map, then `ScanDone`; `AllocRecycled`,
`AllocFresh` and `AllocFails` are the three ways through `pmm_alloc_page`, `Free`
is `pmm_free_page`. The allocator does not know who has a page; `held` is what
callers own, and they free only what they own. Map and kernel bounds are in
bytes, with the alignment done by `FrameUp` and `FrameDown`.

### Vfs

A path is the sequence of its components; `<<>>` is the root. Every open normalises
it by `Normalize` of `Paths`, which keeps what the code keeps: an empty component is a
doubled or trailing slash. `nodes` is the node table, with `data` a
file's buffer in its whole capacity and `len` its length; `desc` is the
descriptor table. `OpenDirectory`, `OpenFile` and `OpenCreate` are the ways through
`vfs_open_path`. Each includes the allocation of the descriptor, which may fail
after the file was created or emptied: the open returns an error and that
effect stays. `Close`, `Write`, `Read` and `Readdir` are the calls on a
descriptor. Two descriptors may be on one file, so a cursor may stand behind an
end that another descriptor's truncation moved; a write there makes old bytes of the
buffer part of the file again. A file's first and its grown buffers are zero
behind what was copied, because the runtime's heap starts as zero and is never
given back. A full node table is a panic (`halted`).

`Init` is the state after `vfs_self_test`, which leaves `/tmp/log.txt` and a
descriptor of the archive's first file that nobody can close. `listed`, a history
variable, is what a directory descriptor has returned so far. `fstat`, console
input and output and calls that fail without an effect change nothing here.

### Handles

`fds[t]` are the four handle words of task `t`, `open` the descriptors in use.
An open takes the first closed descriptor and the highest free handle; without
a free handle it closes the descriptor again (`OpenNoHandle`). A spawn takes
descriptors for the console handles and panics without them; an exit keeps the handles
until the parent collects the task. Any runnable task may make the next call,
which covers every schedule of `Scheduler`. Loading an image opens and closes a
descriptor in one step; when all descriptors are in use, exec returns -1.

### AddressSpace

All programs live in one window of virtual addresses at 512 MiB, smaller than a
large page, and nothing else in a task's page tables is ever changed. A task's
memory is therefore `tree` (the frames of its p4, p3, p2 tables and of the table that
replaces the window's large page), `pte` (the entries of the window) and `pages`
(image, heap and stack). `free` is the allocator as its callers see it: what
was freed last comes back first, then fresh frames in order, which is what `Pmm`
does with its stack and regions. `Spawn`, `Exec` and `Collect` do in one step all that
the handlers do, in the order in which they take and give back frames. Any live task
may run next and any may collect, a superset of what `Scheduler` allows.

`tlb` holds every translation that the CPU may have cached since cr3 was
loaded; `writers` remembers which tasks may have written to a frame since it was
zeroed (`Gone` for a task already collected). `ProgramWrites` is a program storing
to all it reaches; which bytes does not matter to the properties. `CopyStops` is a
call that copies to a buffer which passed `syscall_validate_user_buffer` and yet
stops the kernel: outside the program's pages, which `WindowExact` excludes, or in a page
that is not writable. The latter can happen, if the firmware left CR0.WP set. Pointers are
machine integers of `Width` bits and wrap. What is in the pages of an image is left to
`ProgramStart`.

Assumed: no frame of the allocator lies in the window. The allocator begins with the
lowest region and tasks hold a few hundred pages, but no line of the code
checks it (see `hazards`).

### Paths

`vfs_normalize_path` builds its result as a string. For `..` it drops one character and then
cuts back to the last slash, which it leaves in place unless it is the first character:
`/tmp/a/..` becomes `/tmp/`, `/a/b/../c` becomes `/a//c`. `DotDot` and `BackToSlash` are these two
moves on sequences in which `""` stands for nothing between two slashes. `Canonical` is what
the components mean.

### ElfImage and ProgramStart

A file is a record of the fields that `kelf.py` reads. Fields are signed integers and
sums wrap around at `2 * Half`, as they do in the compiled kernel. `HeadersInside` is separate from
`Valid` because a program header outside the file does not make the check fail but
stops the kernel (`load_byte_region` panics). It asks only for the bytes that are read, `HeaderRead`:
the type of a header, and of a `PT_LOAD` one the fields up to `p_memsz`. A file that ends within the
last header may therefore still load, and run `program_start` has such files.

One behaviour of `ProgramStart` is one call of spawn or exec, by a program or by kernel code; these two
copy the vectors before and after they read the file. `memory` is the program's pages
byte by byte; no two bytes of a file are equal, so that a byte in the wrong place
shows. `PreparePages`, `LoadSegment` (a turn of the loop over the segments),
`PushEnv`, `PushArg` (a string on the stack) and `BuildTables` follow the code; an access
outside the region that the code names is a panic. The stores of the pointer tables name the
table as their region and not the page, so here nothing stops them from running off
it: `StackFits` says they do not. Running out of frames is in `AddressSpace`.

### Ticks

`pending` is an interrupt that is due: one at most, since the APIC keeps one. Kernel code is
interrupted only in `wait_for_interrupt` (`sti; hlt; cli`, mode `"wait"`), where
a second interrupt may come before `cli`; a program may be interrupted at any point.
The boot is a sequence of phases: the probe of the timer, the start of the tick source, the
tests of clock and scheduler. After it tasks switch, make calls, appear and go in any order.
`retired` and `base` are history: ticks of tasks that are gone, and the count at which the
scheduler was set up.

`scheduler_timer_interrupt`, which every returning call goes through, has a branch that
preempts the program if it finds a tick not accounted for. `ClockInStep` says it never
does: preemption happens on the interrupt alone.

### Shell

The shell is kernel code, so programs run only where it yields: at the prompt and in
`waitpid`. The kernel task has four handles and three are the console's, so a command has one
(`FreeHandles`). `Open` and `OpenFails` are the open of any command with a path, `FinishFile` and
`FinishCd` the rest of it, `Run` and `RunEnds` a program. An open may fail for reasons that
`Handles` and `Vfs` have in detail. `cwd` is the current directory as it is kept, unnormalised;
`shell_resolve_path` puts relative paths behind it without a look at the size of
its buffer, and `PathOverruns` is where this model stops. `maker` is history: who created
the process in a slot. `NamesAssumption` says that no name in the archive has a doubled slash: `build-initramfs.py`
takes names from a directory tree, and the boot tests write to fixed paths.

### Loader

`map` is the firmware's memory map with its key; `FirmwareEvent` changes it between any two
steps, and so does each allocation of the loader. `read` is what `GetMemoryMap` last returned, `handed`
what the region table and the boot information contain. `ExitRefused` is
`EFI_INVALID_PARAMETER`, after which the code starts over at `GetMemoryMap`; every other error
makes the loader return.

## 3. Runs

| Run | Instance | Shows |
|---|---|---|
| `sched_safety` | 5 slots (3 for programs), queue of 4, two exit codes | the nine invariants, `ZombieKept`, and that `Scheduler` implements `ProcessTable` |
| `sched_liveness` | the same, one exit code | `NoStarvation`, `WaitReturns` |
| `ready_ring` | 4 tasks, ring of 3, up to 8 enqueues | `ReadyRing` implements `ReadyQueue`; every pick ends |
| `pmm` | 8 memory maps, 3 regions, stack of 4, up to 4 pages held | disjoint ownership, only usable frames, exact counters, no overflow of the stack |
| `vfs` | archive of two files, 5 nodes, 3 descriptors, 10 paths, files of up to 2 bytes | names, buffers and cursors stay consistent, the archive never changes, only a write changes what a file holds and what comes back behind a truncation is the file's own, listings are exact |
| `vfs_listed` | the same | **violated**: a created file that no listing shows (see Finding) |
| `address_space` | 2 programs, 18 frames, images of 1 and 2 pages, 1 heap page, pages of 2 bytes, 5-bit integers, up to 4 images loaded | no frame is lost or shared, windows show exactly their task's pages, no program reaches another's bytes |
| `handles` | 4 tasks with 2 handles, one of them console, 8 descriptors | handles and descriptors correspond one to one and the pool always suffices |
| `program_start` | pages of 30 bytes, images of up to 2 pages, 2 arguments and 2 variables of 3 bytes; 18 segments in all pairs, 35 vectors in all pairs | a file with sound fields is refused or loaded exactly and never stops the kernel, the first stack fits, arguments arrive |
| `ticks` | 2 programs, tests of 2 ticks, 2 interrupts in one `hlt`, up to 10 ticks | every tick is charged to one task, the waits of the boot end |
| `shell` | kernel task and 2 more slots, 10 path arguments, paths of 4 components | the current directory is one, a command leaves no handle and no process behind |
| `loader` | maps of up to 5 entries, 1 to spare, up to 8 changes | the kernel is entered with the current map only |

Bounds. Three programs are the fewest with a grandchild beside a sibling, and
give orphans, holes in the table, two waiters at once and a full table. The queue has
the least capacity the assumption allows (all tasks but the idle one), so an
extra entry would panic. The ring wraps twice and more. The eight maps put the kernel image
before, after, inside and across entries, with unaligned bounds, an entry across
the low megabyte, no usable entry, no entry and too many.
The paths of `vfs` are the root, a directory with and one without a node, an
archive file, the self-test's file, files that can be created behind `.` and `..` (one finds the
node table full), one that cannot, and one below a file; with one free descriptor beside
another view, every pair of calls through two views of a file occurs, and an
open that finds no descriptor. With 18 frames an exec succeeds beside a second program
unless both have the large image, and then runs out of memory; four loads give a slot
a second task, in frames that both programs have used. Buffers of one byte grow twice. `handles` has
exactly the descriptors that `RoomAssumption` asks for, as the code has:
32 = 1 (self-test) + 3 (idle task) + 7 * 4. `program_start` has a page that is close to the least
`RoomAssumption` allows, so that a byte more on the stack falls off it; its segments lie on one page, on both,
touch, overlap, are off by one at every limit, negative, or wrap, and program headers are cut off by the
end of the file before and behind what is read of them. In `ticks` two
interrupts in one wait jump over a target, and at least three ticks are left once tasks
run. The archive of `shell` has a directory at depth two, the least at which `..` leaves a slash
behind. In `loader` three of the eight changes are the loader's own, which leaves several
refused exits and a map that outgrows its buffer.

### Finding

`vfs_listed` (kvfs.py:279): because of the slash that `..` leaves behind, a path with `..` below depth one
mostly names nothing, and `open("/tmp/a/..", create)` creates a file named `/tmp/`. Its
entry in `/tmp` is empty and `readdir` shows no empty entries, so no listing has it. README.md
calls the file system hierarchical, and `vfs_self_test` demands that `/tmp` lists the
file created in it. `CwdMeansDirectory` shows that the shell's current directory is not hit:
a `cd` to such a path fails.

### Fairness

`sched_liveness` assumes weak fairness of

* `TimerIrq`: the APIC timer is periodic, and a tick that is pending while the
  kernel runs is taken on the return to ring 3;
* the kernel task's `Yield`: `shell_run` calls `sys_yield` once per line;
* `SpinCollect`, `SpinYield`: a round of the waitpid loop is kernel code that waits for
  nothing;
* the two boot steps, a finite sequence.

`ticks` assumes weak fairness of the timer (it is periodic), of the interrupt and the end of a `hlt`
(the CPU takes an interrupt that is due while they are on), and of the boot steps, which are
kernel code. Programs are not part of it.

Nothing is assumed of programs: one that never makes a call, never exits and
never yields is a behaviour. `PickEnds` assumes that the pick loop, masked kernel
code, goes on.

## 4. Proofs

Every invariant and action property of the passing runs, and both refinements, are proved for
every value of the constants that the assumptions allow. Each proof has an inductive invariant, checked
by TLC on the run's instance before it was proved; the lemmas have one step per action.

**Scheduler** (`SchedulerProofs`; at least 3 slots, a queue for all but the idle task, any exit codes). `Inv` is
the conjunction of the properties themselves, which need each other (that a waiter's child keeps
its slot needs that its parent is the only one to collect it; that `exit` always finds somebody to
run needs that the exiting task's parent is live and therefore queued), plus `BootInv`, what
queue and hardware look like before the first task is entered, and `KernelSlots`, that slots 0 and 1
hold the two kernel tasks for ever. `Refinement` maps slots to `ProcessTable` and shows each
handler to be one of its steps or none. `SomebodyAlwaysProgresses` needs more: `ParentsRanked`
says that tasks can be given ranks such that children have lower ones than their parents. A spawn
raises the ranks of all others, an orphan is below the kernel task anyway; and a waiting task of least rank would have
to wait for a runnable child of lower rank.

**Ready queue** (same module; any set of tasks, any capacity). `RingRefinement`: the ring implements
`ReadyQueue`. `RingInv` says that head and tail are at most a capacity apart, and `LoopInv` that in the loop
the ring holds a rest of the queue it began with (the current task appended), that nothing before this rest was
eligible, and that one more iteration is left than there are entries. The iteration that ends the
loop then chooses what `Picking` chooses at once, and no other iteration is visible.

**Pages** (`PmmProofs`; any boot informations with disjoint entries, any table sizes). The invariant adds
where the walk stands (`ScanInv`: before it ends nothing is held or recycled),
that every region lies in the cut of an entry already walked (`FromWalked`, the
reason that the next entry cannot overlap it), and that the sets counted are
finite. That the recycle stack suffices rests on
`HeldMax <= StackCap`: the callers never hold more pages at once than the stack
has entries. In the code a task has at most 69 pages of image, stack and
break, and its page tables; six programs and the second image of an exec are about 540 pages against 2048.

**Loader** (same module; any slack, any size of map, any number of changes). What was handed over
is what was read, the tables are allocated before the map is read, and the key is compared with
the map in the very step that ends the firmware.

**Handles** (`HandlesProofs`; any number of tasks and handles, at least
`1 + Std + (MaxTasks - 1) * Fds` descriptors). The inductive invariant is the correspondence
`HandlesExact`, the types, that no panic happened, and `BootKept`: the idle task and the self-test keep
what they have. `PoolSuffices` follows by counting: the open descriptors
that are not among those are mapped one to one into the
`(MaxTasks - 1) * Fds` handles of the other tasks, so a handle without a descriptor means a closed
descriptor, and a slot without a task `Fds` of them.

**Address spaces** (`AddressSpaceProofs`; any number of programs, frames, pages and images that fit the
window, integers of any width that hold its end). `MemInv` adds to the partition of the frames: that a window was
written for one image, entry by entry (`WindowInv`; `WindowExact` only says what it allows), that
the CPU has cached exactly the window of the task that runs (`TlbInv`), and that only the owner has
written to a page and nobody to a table (`WritersInv`). Isolation needs the partition, since a
store to a frame of two tasks would spoil it, and the partition needs the window, since exec frees what it unmaps.
`NoBadStop`, that neither an unmapping nor a checked buffer leaves the window, needs an argument
about wrapping sums: a buffer that passed the check of start and end has no wrapped end.

**Files** (`VfsProofs`; any archive without a file below a file and without `/tmp`, any paths opened, any
sizes). `VInv` relates the three tables: `Layout` (names unique, lengths within buffers, the archive in
front and read-only, everything else directly in `/tmp`) and `Tables` (every descriptor is on
a file or directory that exists, and has returned each distinct non-empty entry of the nodes it has
passed once). A created file lies behind all cursors, which is why listings stay exact. The two
action properties follow step by step (`StepKeeps`).

**Starting a program** (`ProgramStartProofs`; any files, vectors and sizes such that `(MaxArgs + MaxEnv) * MaxString +
(Align - 1) + (MaxArgs + MaxEnv + 3) * WordSize <= PageSize`; in the code that is 1191 <= 4096, a relation between
constants of two files that neither states). `Inv`: the copied strings are within the limits and
the stack's offset is at least the page size less `MaxString` for each string pushed, so `StackFits`.
`ImageInv`: after each segment memory holds exactly the segments copied so far (`Loaded`) and
exactly their pages and the stack's and heap's are writable (`Opened`); if the fields of the file are sound, `Valid` implies
every bound that the copy relies on, so that nothing panics but a program header outside the file. `ArgInv`: each string
pushed lies above the offset, with its NUL, where its pointer says, and what is stored later lies
below; the tables hold these pointers.

**Ticks** (`TicksProofs`; any finite set of programs, any lengths of the tests). `Inv`: the counter is reset
only before the scheduler is active, so `ClockInStep`. `ChargeInv`: an empty slot has no ticks,
so a new task starts at nothing without any being lost, and total = retired + the sum over the
tasks (`TicksAddUp`). The sum is that of `FiniteSetsExt`; its behaviour under a change at one task
is a lemma.

**Shell** (`ShellProofs`; any archive of clean names, any lines typed, any slots). `CleanIsCanonical`: whenever the result of
`vfs_normalize_path` has no doubled or trailing slash, it is what the components mean. Turn by turn (`Related`), output
and meaning agree while the output is clean, and otherwise the output is longer, by the slashes that
`..` left: it can become clean again only by becoming empty, and then the meaning is empty too. Since every directory
has a clean name and only a directory becomes the current one, `CurrentDirectoryIsSound`.
`CommandsLeaveNothing`: of the processes the shell has made only the one it waits for may have a slot.

Assumptions. Most give types and sizes. Those that say something of the system: entries of the memory map are
disjoint (UEFI), `HeldMax <= StackCap` and the two `RoomAssumption`s (above), no archive file lies below another
or in `/tmp` and its names are clean (`scripts/build-initramfs.py` packs a directory tree that has no `/tmp`), strings
end at their first zero byte, images fit the window.

### Only model-checked

`NoStarvation`, `WaitReturns`, `PickEnds` and `BootEnds`: liveness under fairness is out of the prover's
reach. So is induction with a predicate as parameter; where a loop or a recursive function had to
be followed (`Paths`, `Loads`, the sum of ticks, the ranks), the proofs take the set of turns at which the
claim fails and its least element (`LeastNatural`).

## 5. Plan

1. `Scheduler` with the saved contexts of tasks: a task preempted in its program is resumed from a copy of
   its interrupt frame, one that switched in the kernel from its kernel stack.
2. `AddressSpace`: the boot root and its self-test, with the identity mapping under a window.
3. Proofs across modules: that `free` of `AddressSpace` is what `Pmm` gives its callers, and that the
   schedules of `Handles` include those of `Scheduler`.

## 6. Not modelled

Device registers, descriptor tables, console output and formatting, and the
assembly of context switch and interrupt entry beyond which task's stack and root
they load. The sample programs under `src/src/user`: `Scheduler` lets a program
make any process call at any moment. The Codon runtime's own memory is a bump
allocator that never frees; that it can run out is listed as a hazard. The editing of the
shell's line and the texts it prints; the boot tests in `kernel.py`, `kshell.py` and `ksyscall.py`, which
are sequences of the calls that are modelled. The loader's reading of files and of the
kernel's own ELF image: one step of `Loader`. `vmm_protect_page` is used by the self-test only and
`vmm_clone_kernel_address_space` not at all; the boot page tables are made once. `PROJECT.json` gives the reason for each
component.
