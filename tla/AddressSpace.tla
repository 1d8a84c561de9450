---------------------------- MODULE AddressSpace ----------------------------
(***************************************************************************)
(* The memory of programs: the pages and page tables that spawn and exec   *)
(* take from the page allocator and that the collection of a task gives    *)
(* back (ksched.py), the page-table trees with their split of a large page *)
(* (kmemory.py), the break, and the check of user buffers (ksyscall.py).   *)
(*                                                                         *)
(* All programs use one window of virtual addresses, smaller than a large  *)
(* page; no other address of a task's tree is ever changed, so a tree is   *)
(* its frames and the entries of the window. The rest of memory is mapped  *)
(* to itself for the kernel, and the allocator is taken to give out no     *)
(* frame that lies in the window: it starts at the low end of memory, and  *)
(* all tasks together have a few hundred pages.                            *)
(*                                                                         *)
(* A handler is one step, as in Scheduler.tla; here any live task may get  *)
(* the CPU next, and any task may collect one that has exited.             *)
(***************************************************************************)
EXTENDS Integers, Sequences, SequencesExt

CONSTANTS
  UserTasks,   (* slots for programs, an interval                          *)
  FrameCount,  (* frames the allocator has after boot                      *)
  P2Count,     (* p2 tables of a tree: 4 in the code                       *)
  Images,      (* [pages, writable]: images elf_validate_user_image takes  *)
  HeapPages,   (* user_task_heap_pages(): 4 in the code                    *)
  WindowPages, (* pages of the window's large page: 512 in the code        *)
  PageBytes,   (* user_page_size()                                         *)
  Base,        (* user_task_region_base()                                  *)
  Width,       (* bits of a machine integer                                *)
  Lengths,     (* lengths of buffers programs pass to calls                *)
  MaxLoads     (* bound on the images loaded in a behaviour                *)

Frames == 1 .. FrameCount
Window == 0 .. WindowPages - 1
Kernel == 0
Gone == -1
Half == 2 ^ (Width - 1)
MachineInts == -Half .. Half - 1

ASSUME MemoryAssumption ==
  /\ UserTasks \subseteq Nat \ {Kernel}
  /\ MaxLoads \in Nat /\ FrameCount \in Nat /\ P2Count \in Nat \ {0} /\ HeapPages \in Nat
  /\ PageBytes \in Nat \ {0} /\ Base \in Nat \ {0} /\ WindowPages \in Nat
  /\ \A img \in Images : /\ img.pages \in Nat \ {0}
                         /\ img.writable \subseteq 0 .. img.pages - 1
                         /\ img.pages + HeapPages + 1 <= WindowPages
  /\ Half \in Nat \ {0} /\ Lengths \subseteq MachineInts
  /\ Base + WindowPages * PageBytes \in MachineInts

VARIABLES
  free,     (* the allocator's frames, the next one first                  *)
  state,    (* task_slot_state                                             *)
  tree,     (* task_slot_cr3: frames of the page tables                    *)
  pte,      (* entries of the window in a task's tree                      *)
  pages,    (* user_page_array of a task, its stack last                   *)
  heapBase, (* task_slot_user_heap_base                                    *)
  brk,      (* task_slot_user_heap_break                                   *)
  current,  (* the task on the CPU, whose tree is loaded                   *)
  tlb,      (* translations the CPU may have cached since it loaded cr3    *)
  writers,  (* history: tasks that may have written to a frame since it    *)
            (* was zeroed                                                  *)
  loads,    (* images loaded so far                                        *)
  halted    (* why the kernel stopped, or "no"                             *)

vars == <<free, state, tree, pte, pages, heapBase, brk, current, tlb, writers, loads, halted>>

\* Entries of a page table. A frame of the window itself is its negative page
\* number less one: no frame of the allocator.
NoEntry == [frame |-> 0, user |-> FALSE, write |-> FALSE]
Entry(f, w) == [frame |-> f, user |-> TRUE, write |-> w]
IdentityWindow == [w \in Window |-> [frame |-> -w - 1, user |-> FALSE, write |-> TRUE]]

\* The words of an empty slot.
NoTree == [p4 |-> 0, p3 |-> 0, p2 |-> <<>>, pt |-> 0]

Init ==
  /\ free = [i \in Frames |-> i]
  /\ state = [t \in UserTasks |-> "empty"]
  /\ tree = [t \in UserTasks |-> NoTree]
  /\ pte = [t \in UserTasks |-> IdentityWindow]
  /\ pages = [t \in UserTasks |-> <<>>]
  /\ heapBase = [t \in UserTasks |-> 0]
  /\ brk = [t \in UserTasks |-> 0]
  /\ current = Kernel
  /\ tlb = {}
  /\ writers = [f \in Frames |-> {}]
  /\ loads = 0
  /\ halted = "no"

-----------------------------------------------------------------------------
(***************************************************************************)
(* Frames.                                                                 *)
(***************************************************************************)

\* The frames n calls of pmm_alloc_page return, and what is left.
Taken(n) == SubSeq(free, 1, n)
Left(n) == SubSeq(free, n + 1, Len(free))

\* The allocator after pmm_free_page of all of s, in order: last in, first out.
Freed(s) == Reverse(s) \o free

\* Mutant: pages are given to a program as they are.
NotZeroed(s) == writers

\* zero_page of the frames s.
Zeroed(s) == [f \in Frames |-> IF f \in Range(s) THEN {} ELSE writers[f]]

\* Pages of a task with this image: image, heap and stack.
PageCount(img) == img.pages + HeapPages + 1

\* Frames of a new tree before its window is split: p4, p3 and the p2 tables.
RootFrames == 2 + P2Count

\* Mutant: the tables that came from splits are forgotten.
TreeWithoutSplits(r) == r.p2 \o <<r.p3, r.p4>>

\* The frames vmm_free_cloned_address_space gives back, in its order; the
\* window is in the first p2 table here.
TreeFrames(r) == <<r.pt>> \o r.p2 \o <<r.p3, r.p4>>

-----------------------------------------------------------------------------
(***************************************************************************)
(* Translations.                                                           *)
(***************************************************************************)
Present(table) == {<<w, table[w]>> : w \in {v \in Window : table[v] # NoEntry}}

\* What may be cached after load_cr3 of task u's tree.
Loaded(u) == IF u = Kernel THEN {} ELSE Present(pte[u])

\* The heap and the stack are writable, an image page if its segment is.
PageWritable(img, w) == w \in img.writable \/ w >= img.pages

\* scheduler_map_user_image_pages: an entry that is present is unmapped first.
Mapped(table, img, s) ==
  [w \in Window |-> IF w < Len(s) THEN Entry(s[w + 1], PageWritable(img, w)) ELSE table[w]]

\* Mutant: the last page, the stack, stays mapped.
UnmappedButStack(t) ==
  [w \in Window |-> IF w < Len(pages[t]) - 1 THEN NoEntry ELSE pte[t][w]]

\* scheduler_unmap_user_image_pages.
Unmapped(t) == [w \in Window |-> IF w < Len(pages[t]) THEN NoEntry ELSE pte[t][w]]

\* vmm_unmap_page_root panics if there is no entry.
UnmapPanics(t) == \E w \in Window : w < Len(pages[t]) /\ pte[t][w] = NoEntry

\* First address behind n pages of the window.
PageAddr(n) == Base + n * PageBytes
HeapLimit(t) == PageAddr(Len(pages[t]) - 1)
UserLimit(t) == PageAddr(Len(pages[t]))

-----------------------------------------------------------------------------
(***************************************************************************)
(* The life of a task.                                                     *)
(***************************************************************************)
Running == halted = "no"

\* Who can get the CPU.
Runnable == {Kernel} \cup {t \in UserTasks : state[t] = "live"}

\* panic: nothing more happens.
Panic(why) ==
  /\ halted' = why
  /\ UNCHANGED <<free, state, tree, pte, pages, heapBase, brk, current, tlb, writers, loads>>

\* scheduler_create_user_elf_task for the first empty slot: the tree, the
\* pages, then the table for the split of the window. The child's tree is not
\* the loaded one, so the TLB is left alone.
Spawn(c, img) ==
  LET n == PageCount(img)
      need == RootFrames + n + 1
      root == Taken(RootFrames)
      got == SubSeq(free, RootFrames + 1, RootFrames + n)
  IN  /\ Running /\ loads < MaxLoads
      /\ state[c] = "empty" /\ \A d \in UserTasks : d < c => state[d] # "empty"
      /\ IF Len(free) < need THEN Panic("memory")
         ELSE /\ free' = Left(need)
              /\ tree' = [tree EXCEPT ![c] = [p4 |-> root[1], p3 |-> root[2],
                            p2 |-> SubSeq(root, 3, RootFrames), pt |-> free[need]]]
              /\ writers' = Zeroed(Taken(need))
              /\ pages' = [pages EXCEPT ![c] = got]
              /\ pte' = [pte EXCEPT ![c] = Mapped(IdentityWindow, img, got)]
              /\ heapBase' = [heapBase EXCEPT ![c] = PageAddr(img.pages)]
              /\ brk' = [brk EXCEPT ![c] = PageAddr(img.pages)]
              /\ state' = [state EXCEPT ![c] = "live"]
              /\ loads' = loads + 1
              /\ UNCHANGED <<current, tlb, halted>>

\* Mutant: the break of the old image stays.
BreakKept(img) == brk[current]

\* The break after exec.
BreakAfterExec(img) == PageAddr(img.pages)

\* scheduler_exec_current_task: the new pages are taken before the old ones
\* are unmapped and freed; the edited tree is the loaded one.
Exec(img) ==
  LET n == PageCount(img)
      table == Mapped(Unmapped(current), img, Taken(n))
  IN  /\ Running /\ current # Kernel /\ loads < MaxLoads
      /\ IF Len(free) < n \/ UnmapPanics(current)
         THEN Panic(IF Len(free) < n THEN "memory" ELSE "unmap")
         ELSE
            /\ free' = Reverse(pages[current]) \o Left(n)
            /\ writers' = Zeroed(Taken(n))
            /\ pages' = [pages EXCEPT ![current] = Taken(n)]
            /\ pte' = [pte EXCEPT ![current] = table]
            /\ heapBase' = [heapBase EXCEPT ![current] = PageAddr(img.pages)]
            /\ brk' = [brk EXCEPT ![current] = BreakAfterExec(img)]
            /\ tlb' = Present(table)
            /\ loads' = loads + 1
            /\ UNCHANGED <<state, tree, current, halted>>

\* The CPU goes to u, by yield or by the timer.
Switch(u) ==
  /\ Running /\ u \in Runnable \ {current}
  /\ current' = u
  /\ tlb' = Loaded(u)
  /\ UNCHANGED <<free, state, tree, pte, pages, heapBase, brk, writers, loads, halted>>

\* scheduler_exit_current_task: memory stays until the task is collected.
Exit(u) ==
  /\ Running /\ current # Kernel /\ u \in Runnable \ {current}
  /\ state' = [state EXCEPT ![current] = "exited"]
  /\ current' = u
  /\ tlb' = Loaded(u)
  /\ UNCHANGED <<free, tree, pte, pages, heapBase, brk, writers, loads, halted>>

\* scheduler_destroy_user_task and scheduler_release_task_slot, from waitpid.
Collect(c) ==
  /\ Running /\ state[c] = "exited"
  /\ free' = Freed(pages[c] \o TreeFrames(tree[c]))
  /\ state' = [state EXCEPT ![c] = "empty"]
  /\ tree' = [tree EXCEPT ![c] = NoTree]
  /\ pte' = [pte EXCEPT ![c] = IdentityWindow]
  /\ pages' = [pages EXCEPT ![c] = <<>>]
  /\ heapBase' = [heapBase EXCEPT ![c] = 0]
  /\ brk' = [brk EXCEPT ![c] = 0]
  /\ writers' = [f \in Frames |-> IF c \in writers[f] THEN (writers[f] \ {c}) \cup {Gone}
                                  ELSE writers[f]]
  /\ UNCHANGED <<current, tlb, loads, halted>>

-----------------------------------------------------------------------------
(***************************************************************************)
(* What a program does to its memory.                                      *)
(***************************************************************************)

\* scheduler_brk; a request of 0 only asks.
Brk(a) ==
  /\ Running /\ current # Kernel
  /\ a # 0 /\ a >= heapBase[current] /\ a <= HeapLimit(current)
  /\ brk' = [brk EXCEPT ![current] = a]
  /\ UNCHANGED <<free, state, tree, pte, pages, heapBase, current, tlb, writers, loads, halted>>

\* The frames the running program reaches.
Reached == {x[2].frame : x \in {y \in tlb : y[2].user}}

\* A program stores into its memory and has calls copy to it. Which bytes does
\* not matter to the properties: all it reaches may be written.
ProgramWrites ==
  /\ Running /\ current # Kernel
  /\ writers' = [f \in Frames |-> IF f \in Reached THEN writers[f] \cup {current}
                                  ELSE writers[f]]
  /\ UNCHANGED <<free, state, tree, pte, pages, heapBase, brk, current, tlb, loads, halted>>

\* The sum of two machine integers.
Wrap(x) == ((x + Half) % (2 * Half)) - Half

\* Mutant: a buffer may end anywhere in the window.
ValidateWithoutLimit(t, ptr, length) ==
  ptr >= Base /\ length >= 0 /\ Wrap(ptr + length) <= Base + WindowPages * PageBytes

\* syscall_validate_user_buffer.
ValidateUserBuffer(t, ptr, length) ==
  LET end == Wrap(ptr + length)
  IN  /\ length >= 0 /\ (ptr # 0 \/ length = 0) /\ ptr >= Base
      /\ end >= ptr /\ end <= UserLimit(t)
      /\ \/ end <= heapBase[t]
         \/ ptr >= HeapLimit(t)
         \/ ptr >= heapBase[t] /\ end <= brk[t]

\* Pages of the window that the bytes of a buffer lie in.
BufferPages(ptr, length) ==
  {w \in Window : PageAddr(w) < ptr + length /\ ptr < PageAddr(w + 1)}

\* The entries a buffer is reached through.
BufferEntries(ptr, length) == {x \in tlb : x[1] \in BufferPages(ptr, length)}

\* Every byte of the buffer is in a page of the program.
BufferMapped(ptr, length) ==
  BufferPages(ptr, length) \subseteq {x[1] : x \in {y \in BufferEntries(ptr, length) : y[2].user}}

\* A read, fstat or readdir copies to a user buffer that passed the check, and
\* stops the kernel: outside the program's pages, or in a page that is not
\* writable, if CR0.WP is set, which is left as the firmware had it. A copy
\* that succeeds is among the ProgramWrites.
CopyStops(ptr, length) ==
  /\ Running /\ current # Kernel
  /\ length > 0 /\ ValidateUserBuffer(current, ptr, length)
  /\ ~BufferMapped(ptr, length) \/ \E x \in BufferEntries(ptr, length) : ~x[2].write
  /\ Panic(IF BufferMapped(ptr, length) THEN "protected" ELSE "outside")

\* panic never returns; a yield with nobody else to run returns at once.
Stay == (~Running \/ Runnable = {current}) /\ UNCHANGED vars

Next ==
  \/ \E img \in Images : Exec(img) \/ \E c \in UserTasks : Spawn(c, img)
  \/ \E u \in UserTasks \cup {Kernel} : Switch(u) \/ Exit(u)
  \/ \E c \in UserTasks : Collect(c)
  \/ \E a \in MachineInts : Brk(a)
  \/ ProgramWrites
  \/ \E ptr \in MachineInts, length \in Lengths : CopyStops(ptr, length)
  \/ Stay

Spec == Init /\ [][Next]_vars

-----------------------------------------------------------------------------
(***************************************************************************)
(* Properties.                                                             *)
(***************************************************************************)
Occupied == {t \in UserTasks : state[t] # "empty"}

\* All frames with the owner's purpose, as one sequence.
Owned(t) == pages[t] \o (IF state[t] = "empty" THEN <<>> ELSE TreeFrames(tree[t]))

\* Every frame is free, a page of one task or a page table of one task, and
\* never two of these: across spawn, exec, exit and collection in any order
\* nothing is freed twice, used after it was freed, or lost.
FramesPartitioned ==
  /\ IsInjective(free)
  /\ \A t \in UserTasks : /\ IsInjective(Owned(t))
                          /\ Range(Owned(t)) \cap Range(free) = {}
                          /\ \A u \in UserTasks : u # t => Range(Owned(t)) \cap Range(Owned(u)) = {}
  /\ Range(free) \cup UNION {Range(Owned(t)) : t \in UserTasks} = Frames

\* The window of a task shows its pages in order, its heap and stack writable,
\* and a program reaches nothing else, whatever larger image an exec replaced;
\* so exec's unmapping always finds its entries, and a buffer that passed
\* syscall_validate_user_buffer never leads out of them. The break is between
\* the end of the image and the stack, also after an exec of a smaller image.
WindowExact ==
  /\ \A t \in Occupied : \A w \in Window :
       IF w < Len(pages[t])
         THEN /\ pte[t][w].user /\ pte[t][w].frame = pages[t][w + 1]
              /\ PageAddr(w) >= heapBase[t] => pte[t][w].write
         ELSE ~pte[t][w].user
  /\ \A t \in Occupied : Base < heapBase[t] /\ brk[t] \in heapBase[t] .. HeapLimit(t)
  /\ halted \notin {"unmap", "outside"}

\* What a program stores stays its own: no page of a task holds bytes that
\* another task, or an earlier one in its slot, wrote, no program ever writes
\* to a page table, and whatever the CPU may have cached leads to the pages of
\* the task that runs.
Isolation ==
  /\ \A t \in Occupied :
       /\ \A f \in Range(pages[t]) : writers[f] \subseteq {t}
       /\ \A f \in Range(TreeFrames(tree[t])) : writers[f] = {}
  /\ \A x \in tlb : x[2].user => current # Kernel /\ x[2].frame \in Range(pages[current])
=============================================================================
