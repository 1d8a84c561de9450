-------------------------------- MODULE Pmm --------------------------------
(***************************************************************************)
(* The physical page allocator of src/src/kernel/kmemory.py.               *)
(*                                                                         *)
(* Boot walks the firmware's memory map and fills the region table;        *)
(* pmm_alloc_page takes from the recycle stack first and otherwise cuts a  *)
(* page off the current region; pmm_free_page pushes on the stack. The     *)
(* allocator keeps no record of the pages it gave out: held is that record *)
(* and belongs to its callers (page tables and program images), which free *)
(* only what they were given.                                              *)
(*                                                                         *)
(* Addresses in the region table and on the stack are page aligned and are *)
(* kept here as frame numbers; the memory map and the bounds of the kernel *)
(* image are in bytes, as the loader passes them.                          *)
(***************************************************************************)
EXTENDS Integers, Sequences, FiniteSets

CONSTANTS
  Boots,       (* boot informations: memory map and kernel bounds          *)
  MaxRegions,  (* entries of the region table: 64 in the code              *)
  StackCap,    (* entries of the recycle stack: 2048 in the code           *)
  HeldMax      (* most pages the callers hold at once                      *)

PageSize == 4096
LowLimit == 1048576           \* 0x100000: memory below it is not used
LowFrame == LowLimit \div PageSize
Conventional == 7             \* EfiConventionalMemory

\* What boot_info says: [mmap, kstart, kend], addresses in bytes.
BootInfo ==
  [mmap : Seq([base : Nat, length : Nat, type : Nat]), kstart : Nat, kend : Nat]

\* The firmware reports no byte twice.
EntriesDisjoint(mmap) ==
  \A i, j \in 1 .. Len(mmap) : i # j =>
    \/ mmap[i].base + mmap[i].length <= mmap[j].base
    \/ mmap[j].base + mmap[j].length <= mmap[i].base

ASSUME BootsAssumption ==
  \A b \in Boots : /\ b \in BootInfo
                   /\ b.kstart <= b.kend
                   /\ EntriesDisjoint(b.mmap)
ASSUME BoundsAssumption ==
  /\ MaxRegions \in Nat /\ StackCap \in Nat /\ HeldMax \in Nat
  /\ HeldMax <= StackCap

VARIABLES
  boot,         (* the boot information                                    *)
  phase,        (* "scan" while init_pmm walks the map, then "ready"       *)
  halted,       (* "no", or the panic that stopped the kernel              *)
  entryIndex,   (* map entries walked                                      *)
  regions,      (* region table: [start, end), in frames                   *)
  regionIndex,  (* regions used up                                         *)
  recycle,      (* recycle stack, top last                                 *)
  totalPages,   (* pages put into the table                                *)
  freePages,    (* the counter pmm_alloc_page tests                        *)
  held          (* frames the callers own                                  *)

vars == <<boot, phase, halted, entryIndex, regions, regionIndex, recycle,
          totalPages, freePages, held>>

TypeOK ==
  /\ boot \in Boots
  /\ phase \in {"scan", "ready"}
  /\ halted \in {"no", "pmm requires a boot memory map", "pmm region table full",
                 "pmm found no usable regions", "pmm recycle stack full"}
  /\ entryIndex \in 0 .. Len(boot.mmap)
  /\ regions \in Seq([start : Nat, end : Nat])
  /\ Len(regions) <= MaxRegions
  /\ regionIndex \in 0 .. Len(regions)
  /\ recycle \in Seq(Nat)
  /\ totalPages \in Nat
  /\ freePages \in Nat
  /\ held \subseteq Nat

Init ==
  /\ boot \in Boots
  /\ phase = "scan"
  /\ halted = "no"
  /\ entryIndex = 0
  /\ regions = <<>>
  /\ regionIndex = 0
  /\ recycle = <<>>
  /\ totalPages = 0
  /\ freePages = 0
  /\ held = {}

-----------------------------------------------------------------------------
(***************************************************************************)
(* init_pmm: one step per entry of the memory map.                         *)
(***************************************************************************)

\* align_up and align_down to a page, as frame numbers.
FrameUp(a) == (a + PageSize - 1) \div PageSize
FrameDown(a) == a \div PageSize

KernelFirst == FrameDown(boot.kstart)
KernelEnd == FrameUp(boot.kend)

EntryStart(e) == IF FrameUp(e.base) < LowFrame THEN LowFrame ELSE FrameUp(e.base)
EntryEnd(e) == FrameDown(e.base + e.length)

\* Entries with pages above the low megabyte that the firmware left free.
Considered(e) == e.type = Conventional /\ e.length # 0 /\ EntryEnd(e) > LowFrame

Empty == [start |-> 0, end |-> 0]

\* The part of an entry before the kernel image, when the image cuts it.
BelowKernel(e) ==
  IF Considered(e) /\ EntryStart(e) < KernelFirst /\ EntryEnd(e) > KernelFirst
    THEN [start |-> EntryStart(e), end |-> KernelFirst]
    ELSE Empty

\* Mutant: an entry that begins inside the kernel image is taken as it is.
RestIgnoringKernelTail(e) ==
  IF ~Considered(e) THEN Empty
  ELSE [start |-> IF EntryStart(e) < KernelFirst /\ EntryEnd(e) > KernelFirst
                    THEN KernelEnd ELSE EntryStart(e),
        end |-> EntryEnd(e)]

\* What is left of the entry: it begins after the kernel image if the image
\* reaches into it.
Rest(e) ==
  IF ~Considered(e) THEN Empty
  ELSE [start |-> IF \/ EntryStart(e) < KernelFirst /\ EntryEnd(e) > KernelFirst
                     \/ EntryStart(e) >= KernelFirst /\ EntryStart(e) < KernelEnd
                    THEN KernelEnd ELSE EntryStart(e),
        end |-> EntryEnd(e)]

\* Mutant: the table takes one region more than it has room for.
AddedPastEnd(regs, r) ==
  IF r.start < r.end /\ Len(regs) <= MaxRegions THEN Append(regs, r) ELSE regs

\* pmm_add_region: the table, the pages added, and whether it panics.
Added(regs, r) ==
  IF r.start < r.end /\ Len(regs) < MaxRegions THEN Append(regs, r) ELSE regs

PagesAdded(regs, r) ==
  IF r.start < r.end /\ Len(regs) < MaxRegions THEN r.end - r.start ELSE 0

TableFull(regs, r) == r.start < r.end /\ Len(regs) >= MaxRegions

ScanEntry ==
  /\ halted = "no" /\ phase = "scan" /\ entryIndex < Len(boot.mmap)
  /\ LET e == boot.mmap[entryIndex + 1]
         once == Added(regions, BelowKernel(e))
         pages == PagesAdded(regions, BelowKernel(e)) + PagesAdded(once, Rest(e))
     IN  /\ regions' = Added(once, Rest(e))
         /\ totalPages' = totalPages + pages
         /\ freePages' = freePages + pages
         /\ halted' = IF TableFull(regions, BelowKernel(e)) \/ TableFull(once, Rest(e))
                        THEN "pmm region table full" ELSE halted
  /\ entryIndex' = entryIndex + 1
  /\ UNCHANGED <<boot, phase, regionIndex, recycle, held>>

\* The end of init_pmm, and its two panics.
ScanDone ==
  /\ halted = "no" /\ phase = "scan" /\ entryIndex = Len(boot.mmap)
  /\ phase' = "ready"
  /\ halted' = CASE boot.mmap = <<>> -> "pmm requires a boot memory map"
                 [] boot.mmap # <<>> /\ regions = <<>> -> "pmm found no usable regions"
                 [] OTHER -> halted
  /\ UNCHANGED <<boot, entryIndex, regions, regionIndex, recycle, totalPages, freePages, held>>

-----------------------------------------------------------------------------
(***************************************************************************)
(* pmm_alloc_page and pmm_free_page. HeldMax bounds what the callers ask   *)
(* for.                                                                    *)
(***************************************************************************)
Serving == halted = "no" /\ phase = "ready"

WithinBudget == Cardinality(held) < HeldMax

\* Mutant: the page stays on the stack.
PoppedNothing == recycle

\* The stack without its top.
Popped == SubSeq(recycle, 1, Len(recycle) - 1)

\* A recycled page.
AllocRecycled ==
  /\ Serving /\ WithinBudget
  /\ freePages # 0 /\ recycle # <<>>
  /\ held' = held \cup {recycle[Len(recycle)]}
  /\ recycle' = Popped
  /\ freePages' = freePages - 1
  /\ UNCHANGED <<boot, phase, halted, entryIndex, regions, regionIndex, totalPages>>

\* Mutant: fresh pages are preferred to recycled ones.
FreshTriedFirst == freePages # 0

\* The stack is empty: the region loop is entered.
FreshTried == freePages # 0 /\ recycle = <<>>

\* Region i is where the loop that starts at region_index stops.
FirstUsable(i) ==
  /\ i \in regionIndex + 1 .. Len(regions)
  /\ regions[i].start + 1 <= regions[i].end
  /\ \A j \in regionIndex + 1 .. i - 1 : regions[j].start + 1 > regions[j].end

\* Mutant: the loop leaves a region before its last page.
RegionLeftEarly(i) == IF regions[i].start + 2 >= regions[i].end THEN i ELSE i - 1

\* region_index after a page was cut off region i (0-based: i - 1 is region i).
RegionLeft(i) == IF regions[i].start + 1 >= regions[i].end THEN i ELSE i - 1

\* A page from the regions.
AllocFresh(i) ==
  /\ Serving /\ WithinBudget
  /\ FreshTried /\ FirstUsable(i)
  /\ held' = held \cup {regions[i].start}
  /\ regions' = [regions EXCEPT ![i] = [start |-> regions[i].start + 1, end |-> regions[i].end]]
  /\ regionIndex' = RegionLeft(i)
  /\ freePages' = freePages - 1
  /\ UNCHANGED <<boot, phase, halted, entryIndex, recycle, totalPages>>

\* pmm_alloc_page returns 0: the counter is zero, or the loop found nothing.
AllocFails ==
  /\ Serving
  /\ \/ freePages = 0
     \/ FreshTried /\ \A i \in 1 .. Len(regions) : ~FirstUsable(i)
  /\ regionIndex' = IF freePages = 0 THEN regionIndex ELSE Len(regions)
  /\ UNCHANGED <<boot, phase, halted, entryIndex, regions, recycle, totalPages,
                 freePages, held>>

\* pmm_free_page. It panics when the stack is full.
Free(p) ==
  /\ Serving /\ p \in held
  /\ IF Len(recycle) >= StackCap
       THEN /\ halted' = "pmm recycle stack full"
            /\ UNCHANGED <<recycle, freePages, held>>
       ELSE /\ recycle' = Append(recycle, p)
            /\ freePages' = freePages + 1
            /\ held' = held \ {p}
            /\ UNCHANGED halted
  /\ UNCHANGED <<boot, phase, entryIndex, regions, regionIndex, totalPages>>

\* panic never returns.
Halted == halted # "no" /\ UNCHANGED vars

-----------------------------------------------------------------------------
Next ==
  \/ ScanEntry
  \/ ScanDone
  \/ AllocRecycled
  \/ \E i \in 1 .. Len(regions) : AllocFresh(i)
  \/ AllocFails
  \/ \E p \in held : Free(p)
  \/ Halted

Spec == Init /\ [][Next]_vars

-----------------------------------------------------------------------------
(***************************************************************************)
(* Safety.                                                                 *)
(***************************************************************************)

\* The frames pmm_alloc_page can still find: it never looks at regions before
\* region_index.
RegionFrames ==
  UNION {regions[i].start .. regions[i].end - 1 : i \in regionIndex + 1 .. Len(regions)}
RecycledFrames == {recycle[k] : k \in 1 .. Len(recycle)}
FreeFrames == RegionFrames \cup RecycledFrames

\* Every frame has one owner: a frame that a page table or a program holds is
\* neither on the recycle stack nor in what is left of a region, no frame is
\* on the stack twice or both there and in a region, and regions do not
\* overlap. Nothing in pmm_free_page checks this.
FramesDistinct ==
  /\ held \cap FreeFrames = {}
  /\ RegionFrames \cap RecycledFrames = {}
  /\ \A j, k \in 1 .. Len(recycle) : recycle[j] = recycle[k] => j = k
  /\ \A i, j \in 1 .. Len(regions) : i # j =>
       (regions[i].start .. regions[i].end - 1)
         \cap (regions[j].start .. regions[j].end - 1) = {}

\* The bytes of frame p are free memory of the machine: inside one
\* conventional entry, above the low megabyte, and none in the kernel image.
FrameUsable(p) ==
  /\ LowLimit <= p * PageSize
  /\ (p + 1) * PageSize <= boot.kstart \/ boot.kend <= p * PageSize
  /\ \E i \in 1 .. Len(boot.mmap) :
       /\ boot.mmap[i].type = Conventional
       /\ boot.mmap[i].base <= p * PageSize
       /\ (p + 1) * PageSize <= boot.mmap[i].base + boot.mmap[i].length

\* Whatever the alignment of the map and of the kernel image, the allocator
\* gives out and keeps only usable frames: init_pmm cuts entries correctly.
FramesUsable == \A p \in held \cup FreeFrames : FrameUsable(p)

\* free_pages counts exactly the frames pmm_alloc_page can still find, so the
\* early return on zero and the search agree: no page is lost, and an
\* allocation fails only when nothing is left. total_pages is the sum of free
\* and held.
CountsExact ==
  /\ freePages = Cardinality(FreeFrames)
  /\ totalPages = freePages + Cardinality(held)

\* The recycle stack never overflows, although it is smaller than memory:
\* recycled pages are used first, so the stack and the callers together never
\* have more pages than the callers once held.
RecycleFits ==
  /\ halted # "pmm recycle stack full"
  /\ Len(recycle) + Cardinality(held) <= HeldMax
=============================================================================
