----------------------------- MODULE PmmProofs -----------------------------
(***************************************************************************)
(* Proofs about Pmm.tla, for every memory map with disjoint entries, every *)
(* position of the kernel image and all sizes of the tables.               *)
(*                                                                         *)
(* Inv, the inductive invariant, adds to the safety properties what the    *)
(* boot loop keeps: until it ends nothing was allocated, and every frame   *)
(* found so far comes from an entry already walked, so that the next entry *)
(* cannot bring it a second time.                                          *)
(*                                                                         *)
(* The last part is about Loader.tla, which hands the map over.            *)
(***************************************************************************)
EXTENDS Pmm, Loader, FiniteSetTheorems, SequenceTheorems, WellFoundedInduction,
        NaturalsInduction, TLAPS

Region == [start : Nat, end : Nat]

FramesOf(r) == r.start .. r.end - 1

\* All frames of a region table.
TableFrames(regs) == UNION {FramesOf(regs[i]) : i \in 1 .. Len(regs)}

TableDisjoint(regs) ==
  \A i, j \in 1 .. Len(regs) : i # j => FramesOf(regs[i]) \cap FramesOf(regs[j]) = {}

\* Frame p is whole inside entry e, and init_pmm may use it.
UsableOf(p, e) ==
  /\ LowLimit <= p * PageSize
  /\ (p + 1) * PageSize <= boot.kstart \/ boot.kend <= p * PageSize
  /\ e.type = Conventional
  /\ e.base <= p * PageSize
  /\ (p + 1) * PageSize <= e.base + e.length

FromWalked == \A p \in held \cup FreeFrames :
                \E i \in 1 .. entryIndex : UsableOf(p, boot.mmap[i])

ScanInv == phase = "scan" => regionIndex = 0 /\ recycle = <<>> /\ held = {}

Inv ==
  /\ TypeOK /\ ScanInv /\ FromWalked
  /\ IsFiniteSet(held) /\ IsFiniteSet(FreeFrames)
  /\ FramesDistinct /\ CountsExact /\ RecycleFits

-----------------------------------------------------------------------------
(***************************************************************************)
(* Cutting one entry of the memory map.                                    *)
(***************************************************************************)

\* What the boot assumption says of the chosen boot information.
LEMMA BootFacts ==
  ASSUME boot \in Boots
  PROVE  /\ boot.mmap \in Seq([base : Nat, length : Nat, type : Nat])
         /\ boot.kstart \in Nat /\ boot.kend \in Nat /\ boot.kstart <= boot.kend
         /\ EntriesDisjoint(boot.mmap)
BY BootsAssumption DEF BootInfo

\* Rounding down gives the last frame that begins at or before an address.
LEMMA FrameDownFacts ==
  ASSUME NEW a \in Nat
  PROVE  /\ FrameDown(a) \in Nat
         /\ FrameDown(a) * PageSize <= a
         /\ a < (FrameDown(a) + 1) * PageSize
BY DEF FrameDown, PageSize

\* Rounding up gives the first frame that begins at or after an address.
LEMMA FrameUpFacts ==
  ASSUME NEW a \in Nat
  PROVE  /\ FrameUp(a) \in Nat
         /\ a <= FrameUp(a) * PageSize
         /\ FrameUp(a) * PageSize < a + PageSize
BY DEF FrameUp, PageSize

\* The two regions init_pmm makes of an entry are apart and hold only usable
\* frames of that entry.
LEMMA PiecesOfEntry ==
  ASSUME boot \in Boots, NEW e \in [base : Nat, length : Nat, type : Nat]
  PROVE  /\ BelowKernel(e) \in Region /\ Rest(e) \in Region
         /\ \A p \in FramesOf(BelowKernel(e)) : UsableOf(p, e)
         /\ \A p \in FramesOf(Rest(e)) : UsableOf(p, e)
         /\ FramesOf(BelowKernel(e)) \cap FramesOf(Rest(e)) = {}
<1> DEFINE kf == KernelFirst
           ke == KernelEnd
           s == EntryStart(e)
           t == EntryEnd(e)
<1>1. boot.kstart \in Nat /\ boot.kend \in Nat /\ boot.kstart <= boot.kend
  BY BootFacts
<1>2. e.base \in Nat /\ e.length \in Nat
  OBVIOUS
<1>3. kf \in Nat /\ kf * 4096 <= boot.kstart
  <2>1. FrameDown(boot.kstart) \in Nat /\ FrameDown(boot.kstart) * PageSize <= boot.kstart
    BY <1>1, FrameDownFacts
  <2>2. QED
    BY <2>1 DEF KernelFirst, PageSize
<1>4. ke \in Nat /\ boot.kend <= ke * 4096
  BY <1>1, FrameUpFacts DEF KernelEnd, PageSize
<1>5. kf <= ke
  BY <1>1, <1>3, <1>4
<1>6. FrameUp(e.base) \in Nat /\ e.base <= FrameUp(e.base) * 4096
  BY <1>2, FrameUpFacts DEF PageSize
<1>7. s \in Nat /\ s >= 256 /\ e.base <= s * 4096
  <2>1. LowFrame = 256
    BY DEF LowFrame, LowLimit, PageSize
  <2>2. QED
    BY <1>2, <1>6, <2>1 DEF EntryStart
<1>8. t \in Nat /\ t * 4096 <= e.base + e.length
  <2>1. e.base + e.length \in Nat
    BY <1>2
  <2>2. /\ FrameDown(e.base + e.length) \in Nat
        /\ FrameDown(e.base + e.length) * PageSize <= e.base + e.length
    BY <2>1, FrameDownFacts
  <2>3. QED
    BY <2>2 DEF EntryEnd, PageSize
<1>9. BelowKernel(e) \in Region /\ Rest(e) \in Region
  BY <1>3, <1>4, <1>7, <1>8 DEF BelowKernel, Rest, Region, Empty
<1>10. ASSUME NEW p \in FramesOf(BelowKernel(e))
       PROVE  UsableOf(p, e) /\ p < kf
  <2>1. e.type = 7 /\ p \in Int /\ s <= p /\ p < kf /\ kf < t
    BY <1>3, <1>7, <1>8 DEF BelowKernel, FramesOf, Empty, Considered, Conventional
  <2>2. QED
    BY <2>1, <1>1, <1>2, <1>3, <1>7, <1>8 DEF UsableOf, PageSize, LowLimit, Conventional
<1>11. ASSUME NEW p \in FramesOf(Rest(e))
       PROVE  /\ UsableOf(p, e)
              /\ s < kf /\ kf < t => p >= ke
  <2>1. /\ e.type = 7 /\ p \in Int /\ s <= p /\ p < t
        /\ p < kf \/ p >= ke
        /\ s < kf /\ kf < t => p >= ke
    BY <1>3, <1>4, <1>5, <1>7, <1>8 DEF Rest, FramesOf, Empty, Considered, Conventional
  <2>2. QED
    BY <2>1, <1>1, <1>2, <1>3, <1>4, <1>7, <1>8 DEF UsableOf, PageSize, LowLimit, Conventional
<1>12. FramesOf(BelowKernel(e)) \cap FramesOf(Rest(e)) = {}
  <2>1. SUFFICES ASSUME NEW p \in FramesOf(BelowKernel(e)), p \in FramesOf(Rest(e))
                 PROVE  FALSE
    OBVIOUS
  <2>2. s < kf /\ kf < t
    BY <2>1, <1>3, <1>7, <1>8 DEF BelowKernel, FramesOf, Empty
  <2>3. p \in Int
    BY <1>9 DEF FramesOf, Region
  <2>4. QED
    BY <2>1, <2>2, <2>3, <1>3, <1>4, <1>5, <1>10, <1>11
<1>13. QED
  BY <1>9, <1>10, <1>11, <1>12

\* pmm_add_region keeps the table disjoint and counts the pages it adds.
LEMMA AddRegion ==
  ASSUME NEW regs \in Seq(Region), Len(regs) <= MaxRegions, NEW r \in Region,
         TableDisjoint(regs), IsFiniteSet(TableFrames(regs)),
         TableFrames(regs) \cap FramesOf(r) = {}
  PROVE  LET new == Added(regs, r)
         IN  /\ new \in Seq(Region) /\ Len(new) <= MaxRegions
             /\ TableDisjoint(new) /\ IsFiniteSet(TableFrames(new))
             /\ TableFrames(new) \subseteq TableFrames(regs) \cup FramesOf(r)
             /\ PagesAdded(regs, r) \in Nat
             /\ Cardinality(TableFrames(new)) = Cardinality(TableFrames(regs)) + PagesAdded(regs, r)
<1>1. r.start \in Nat /\ r.end \in Nat /\ Len(regs) \in Nat /\ MaxRegions \in Nat
  BY BoundsAssumption DEF Region
<1>2. Cardinality(TableFrames(regs)) \in Nat
  BY FS_CardinalityType
<1>3. CASE ~(r.start < r.end /\ Len(regs) < MaxRegions)
  BY <1>1, <1>2, <1>3 DEF Added, PagesAdded
<1>4. CASE r.start < r.end /\ Len(regs) < MaxRegions
  <2> DEFINE new == Append(regs, r)
  <2>1. new = Added(regs, r) /\ PagesAdded(regs, r) = r.end - r.start
    BY <1>4 DEF Added, PagesAdded
  <2>2. /\ new \in Seq(Region) /\ Len(new) = Len(regs) + 1
        /\ new[Len(regs) + 1] = r
        /\ \A i \in 1 .. Len(regs) : new[i] = regs[i]
    BY AppendProperties
  <2> HIDE DEF new
  <2>3. TableFrames(new) = TableFrames(regs) \cup FramesOf(r)
    BY <1>1, <2>2 DEF TableFrames
  <2>4. TableDisjoint(new)
    <3>1. \A i \in 1 .. Len(regs) : FramesOf(regs[i]) \cap FramesOf(r) = {}
      BY DEF TableFrames
    <3>2. SUFFICES ASSUME NEW i \in 1 .. Len(regs) + 1, NEW j \in 1 .. Len(regs) + 1, i # j
                   PROVE  FramesOf(new[i]) \cap FramesOf(new[j]) = {}
      BY <2>2 DEF TableDisjoint
    <3>3. CASE i \in 1 .. Len(regs) /\ j \in 1 .. Len(regs)
      BY <3>2, <3>3, <2>2 DEF TableDisjoint
    <3>4. CASE i = Len(regs) + 1
      <4>1. j \in 1 .. Len(regs)
        BY <3>2, <3>4, <1>1
      <4>2. QED
        BY <4>1, <3>1, <3>4, <2>2
    <3>5. CASE j = Len(regs) + 1
      <4>1. i \in 1 .. Len(regs)
        BY <3>2, <3>5, <1>1
      <4>2. QED
        BY <4>1, <3>1, <3>5, <2>2
    <3>6. QED
      BY <3>3, <3>4, <3>5, <1>1
  <2>5. IsFiniteSet(FramesOf(r)) /\ Cardinality(FramesOf(r)) = r.end - r.start
    <3>1. r.start \in Int /\ r.end - 1 \in Int /\ ~(r.start > r.end - 1)
      BY <1>1, <1>4
    <3>2. /\ IsFiniteSet(r.start .. r.end - 1)
          /\ Cardinality(r.start .. r.end - 1) = r.end - 1 - r.start + 1
      BY <3>1, FS_Interval
    <3>3. QED
      BY <3>2, <1>1 DEF FramesOf
  <2>6. /\ IsFiniteSet(TableFrames(new))
        /\ Cardinality(TableFrames(new)) = Cardinality(TableFrames(regs)) + (r.end - r.start)
    <3>1. /\ IsFiniteSet(TableFrames(regs) \cup FramesOf(r))
          /\ Cardinality(TableFrames(regs) \cup FramesOf(r))
               = Cardinality(TableFrames(regs)) + Cardinality(FramesOf(r))
                 - Cardinality(TableFrames(regs) \cap FramesOf(r))
      BY <2>5, FS_Union
    <3>2. Cardinality(TableFrames(regs) \cap FramesOf(r)) = 0
      BY FS_EmptySet
    <3>3. QED
      BY <3>1, <3>2, <2>3, <2>5, <1>1, <1>2
  <2>7. QED
    BY <2>1, <2>2, <2>3, <2>4, <2>6, <1>1, <1>4
<1>5. QED
  BY <1>3, <1>4
-----------------------------------------------------------------------------
(***************************************************************************)
(* The steps.                                                              *)
(***************************************************************************)

\* Init establishes Inv.
LEMMA InitInv == Init => Inv
<1> SUFFICES ASSUME Init PROVE Inv
  OBVIOUS
<1>1. Len(boot.mmap) \in Nat
  BY BootFacts DEF Init
<1>2. TypeOK
  BY <1>1, BoundsAssumption DEF Init, TypeOK
<1>3. FreeFrames = {} /\ held = {}
  BY DEF Init, FreeFrames, RegionFrames, RecycledFrames
<1>4. IsFiniteSet({}) /\ Cardinality({}) = 0
  BY FS_EmptySet
<1>5. FramesDistinct
  BY <1>3 DEF Init, FramesDistinct, RegionFrames
<1>6. CountsExact /\ RecycleFits
  BY <1>3, <1>4, BoundsAssumption DEF Init, CountsExact, RecycleFits
<1>7. QED
  BY <1>2, <1>3, <1>4, <1>5, <1>6 DEF Init, Inv, ScanInv, FromWalked

\* Walking an entry of the map.
LEMMA ScanEntryInv == Inv /\ ScanEntry => Inv'
<1> SUFFICES ASSUME Inv, ScanEntry PROVE Inv'
  OBVIOUS
<1> DEFINE e == boot.mmap[entryIndex + 1]
           once == Added(regions, BelowKernel(e))
           twice == Added(once, Rest(e))
           pg1 == PagesAdded(regions, BelowKernel(e))
           pg2 == PagesAdded(once, Rest(e))
<1>1. /\ regions' = twice
      /\ totalPages' = totalPages + (pg1 + pg2)
      /\ freePages' = freePages + (pg1 + pg2)
      /\ halted' \in {"no", "pmm region table full"}
      /\ entryIndex' = entryIndex + 1
      /\ boot' = boot /\ phase' = phase /\ regionIndex' = regionIndex
      /\ recycle' = recycle /\ held' = held
  BY DEF ScanEntry
<1>2. /\ boot \in Boots /\ phase = "scan" /\ regionIndex = 0 /\ recycle = <<>> /\ held = {}
      /\ regions \in Seq(Region) /\ Len(regions) <= MaxRegions
      /\ totalPages \in Nat /\ freePages \in Nat
  BY DEF Inv, ScanInv, TypeOK, ScanEntry, Region
<1> HIDE DEF twice, pg1, pg2
<1>0. /\ boot.mmap \in Seq([base : Nat, length : Nat, type : Nat])
      /\ Len(boot.mmap) \in Nat /\ EntriesDisjoint(boot.mmap)
  BY <1>2, BootFacts, LenProperties
<1>3. entryIndex \in Nat /\ entryIndex < Len(boot.mmap)
  <2>1. entryIndex \in 0 .. Len(boot.mmap)
    BY DEF Inv, TypeOK
  <2>2. entryIndex < Len(boot.mmap)
    BY DEF ScanEntry
  <2>3. QED
    BY <2>1, <2>2, <1>0
<1>4. e \in [base : Nat, length : Nat, type : Nat]
  <2>1. entryIndex + 1 \in 1 .. Len(boot.mmap)
    BY <1>0, <1>3
  <2>2. QED
    BY <2>1, <1>0, ElementOfSeq
<1> HIDE DEF e
<1>5. FreeFrames = TableFrames(regions)
  BY <1>2 DEF FreeFrames, RegionFrames, RecycledFrames, TableFrames, FramesOf
<1>6. FreeFrames' = TableFrames(twice)
  <2>1. regionIndex' = 0 /\ recycle' = <<>> /\ regions' = twice
    BY <1>1, <1>2
  <2>2. QED
    BY <2>1 DEF FreeFrames, RegionFrames, RecycledFrames, TableFrames, FramesOf
<1>7. \A p \in TableFrames(regions) : ~UsableOf(p, e)
  <2>1. SUFFICES ASSUME NEW p \in TableFrames(regions), UsableOf(p, e) PROVE FALSE
    OBVIOUS
  <2>2. PICK i \in 1 .. entryIndex : UsableOf(p, boot.mmap[i])
    BY <2>1, <1>5 DEF Inv, FromWalked
  <2>3. i \in 1 .. Len(boot.mmap) /\ entryIndex + 1 \in 1 .. Len(boot.mmap) /\ i # entryIndex + 1
    BY <1>0, <1>3
  <2>4. \/ boot.mmap[i].base + boot.mmap[i].length <= e.base
        \/ e.base + e.length <= boot.mmap[i].base
    BY <2>3, <1>0 DEF EntriesDisjoint, e
  <2>5. boot.mmap[i] \in [base : Nat, length : Nat, type : Nat]
    BY <2>3, <1>0, ElementOfSeq
  <2>6. p \in Nat
    <3>1. PICK k \in 1 .. Len(regions) : p \in FramesOf(regions[k])
      BY <2>1 DEF TableFrames
    <3>2. regions[k] \in Region
      BY <1>2, <3>1, ElementOfSeq
    <3>3. QED
      BY <3>1, <3>2 DEF FramesOf, Region
  <2>7. QED
    BY <2>1, <2>2, <2>4, <2>5, <2>6, <1>4 DEF UsableOf, PageSize
<1>8. /\ BelowKernel(e) \in Region /\ Rest(e) \in Region
      /\ \A p \in FramesOf(BelowKernel(e)) : UsableOf(p, e)
      /\ \A p \in FramesOf(Rest(e)) : UsableOf(p, e)
      /\ FramesOf(BelowKernel(e)) \cap FramesOf(Rest(e)) = {}
  BY <1>2, <1>4, PiecesOfEntry
<1>9. TableDisjoint(regions) /\ IsFiniteSet(TableFrames(regions))
  BY <1>5 DEF Inv, FramesDistinct, TableDisjoint, FramesOf
<1>10. /\ once \in Seq(Region) /\ Len(once) <= MaxRegions
       /\ TableDisjoint(once) /\ IsFiniteSet(TableFrames(once))
       /\ TableFrames(once) \subseteq TableFrames(regions) \cup FramesOf(BelowKernel(e))
       /\ pg1 \in Nat
       /\ Cardinality(TableFrames(once)) = Cardinality(TableFrames(regions)) + pg1
  <2>1. TableFrames(regions) \cap FramesOf(BelowKernel(e)) = {}
    BY <1>7, <1>8
  <2>2. QED
    BY <2>1, <1>2, <1>8, <1>9, AddRegion DEF pg1
<1> HIDE DEF once
<1>11. /\ twice \in Seq(Region) /\ Len(twice) <= MaxRegions
       /\ TableDisjoint(twice) /\ IsFiniteSet(TableFrames(twice))
       /\ TableFrames(twice) \subseteq TableFrames(once) \cup FramesOf(Rest(e))
       /\ pg2 \in Nat
       /\ Cardinality(TableFrames(twice)) = Cardinality(TableFrames(once)) + pg2
  <2>1. TableFrames(once) \cap FramesOf(Rest(e)) = {}
    BY <1>7, <1>8, <1>10
  <2>2. QED
    BY <2>1, <1>8, <1>10, AddRegion DEF twice, pg2
<1>12. TypeOK'
  <2>1. entryIndex' \in 0 .. Len(boot.mmap)
    <3>1. entryIndex' = entryIndex + 1
      BY <1>1
    <3>2. QED
      BY <3>1, <1>0, <1>3
  <2>2. regionIndex' \in 0 .. Len(regions')
    <3>1. regionIndex' = 0 /\ Len(regions') \in Nat
      BY <1>1, <1>2, <1>11, LenProperties
    <3>2. QED
      BY <3>1
  <2>3. totalPages' \in Nat /\ freePages' \in Nat
    <3>1. pg1 \in Nat /\ pg2 \in Nat /\ totalPages \in Nat /\ freePages \in Nat
      BY <1>2, <1>10, <1>11
    <3>2. totalPages' = totalPages + (pg1 + pg2) /\ freePages' = freePages + (pg1 + pg2)
      BY <1>1
    <3>3. QED
      BY <3>1, <3>2
  <2>4. recycle' \in Seq(Nat) /\ held' \subseteq Nat
    BY <1>1 DEF Inv, TypeOK
  <2>5. QED
    BY <2>1, <2>2, <2>3, <2>4, <1>1, <1>2, <1>11 DEF TypeOK, Region
<1>13. FromWalked'
  <2>1. SUFFICES ASSUME NEW p \in TableFrames(twice)
                 PROVE  \E i \in 1 .. entryIndex + 1 : UsableOf(p, boot.mmap[i])
    BY <1>1, <1>2, <1>6 DEF FromWalked, UsableOf
  <2>2. CASE p \in TableFrames(regions)
    <3>1. PICK i \in 1 .. entryIndex : UsableOf(p, boot.mmap[i])
      BY <2>2, <1>5 DEF Inv, FromWalked
    <3>2. i \in 1 .. entryIndex + 1
      BY <1>3
    <3>3. QED
      BY <3>1, <3>2
  <2>3. CASE UsableOf(p, e)
    <3>1. entryIndex + 1 \in 1 .. entryIndex + 1
      BY <1>3
    <3>2. QED
      BY <2>3, <3>1 DEF e
  <2>4. QED
    BY <2>1, <2>2, <2>3, <1>8, <1>10, <1>11
<1>14. FramesDistinct'
  <2>1. recycle' = <<>> /\ held' = {} /\ RecycledFrames' = {}
    <3>1. recycle' = <<>> /\ held' = {}
      BY <1>1, <1>2
    <3>2. QED
      BY <3>1 DEF RecycledFrames
  <2>2. TableDisjoint(regions')
    BY <1>1, <1>11
  <2>3. QED
    BY <2>1, <2>2 DEF FramesDistinct, TableDisjoint, FramesOf
<1>15. CountsExact'
  <2>1. freePages = Cardinality(TableFrames(regions)) /\ totalPages = freePages + Cardinality(held)
    BY <1>5 DEF Inv, CountsExact
  <2>2. Cardinality(held) = 0
    BY <1>2, FS_EmptySet
  <2>3. /\ pg1 \in Nat /\ pg2 \in Nat /\ totalPages \in Nat /\ freePages \in Nat
        /\ Cardinality(FreeFrames') = Cardinality(TableFrames(regions)) + pg1 + pg2
    BY <1>2, <1>6, <1>10, <1>11
  <2>4. /\ totalPages' = totalPages + (pg1 + pg2) /\ freePages' = freePages + (pg1 + pg2)
        /\ held' = held
    BY <1>1
  <2>5. QED
    BY <2>1, <2>2, <2>3, <2>4 DEF CountsExact
<1>16. RecycleFits'
  BY <1>1 DEF Inv, RecycleFits
<1>17. IsFiniteSet(held') /\ IsFiniteSet(FreeFrames')
  BY <1>1, <1>6, <1>11 DEF Inv
<1>18. ScanInv'
  BY <1>1, <1>2 DEF ScanInv
<1>19. QED
  BY <1>12, <1>13, <1>14, <1>15, <1>16, <1>17, <1>18 DEF Inv

\* The end of the walk changes no frame's owner.
LEMMA ScanDoneInv == Inv /\ ScanDone => Inv'
<1> SUFFICES ASSUME Inv, ScanDone PROVE Inv'
  OBVIOUS
<1>1. /\ UNCHANGED <<boot, entryIndex, regions, regionIndex, recycle, totalPages, freePages, held>>
      /\ phase' = "ready"
      /\ halted' \in {"no", "pmm requires a boot memory map", "pmm found no usable regions"}
  BY DEF ScanDone
<1>2. TypeOK' /\ ScanInv'
  BY <1>1 DEF Inv, TypeOK, ScanInv
<1>3. FreeFrames' = FreeFrames /\ FramesDistinct'
  <2>1. regions' = regions /\ regionIndex' = regionIndex /\ recycle' = recycle /\ held' = held
    BY <1>1
  <2>2. RegionFrames' = RegionFrames /\ RecycledFrames' = RecycledFrames
    BY <2>1 DEF RegionFrames, RecycledFrames
  <2>3. FreeFrames' = FreeFrames
    BY <2>2 DEF FreeFrames
  <2>4. QED
    BY <2>1, <2>2, <2>3 DEF Inv, FramesDistinct
<1>4. FromWalked' /\ CountsExact' /\ RecycleFits' /\ IsFiniteSet(held') /\ IsFiniteSet(FreeFrames')
  BY <1>1, <1>3 DEF Inv, FromWalked, UsableOf, CountsExact, RecycleFits
<1>5. QED
  BY <1>2, <1>3, <1>4 DEF Inv

\* What a step does to ownership when it moves one frame p from the pool to
\* the callers: everything but FramesDistinct and TypeOK follows.
LEMMA GiveInv ==
  ASSUME Inv, NEW p, p \in FreeFrames, Cardinality(held) < HeldMax,
         UNCHANGED <<boot, phase, halted, entryIndex, totalPages>>,
         phase = "ready",
         held' = held \cup {p}, FreeFrames' = FreeFrames \ {p},
         freePages' = freePages - 1,
         Len(recycle') + 1 <= Len(recycle) \/ Len(recycle') = 0,
         Len(recycle') \in Nat,
         TypeOK', FramesDistinct'
  PROVE  Inv'
<1>1. ScanInv'
  BY DEF ScanInv
<1>2. FromWalked'
  BY DEF Inv, FromWalked, UsableOf
<1>3. p \notin held
  BY DEF Inv, FramesDistinct
<1>4. /\ Cardinality(held) \in Nat /\ IsFiniteSet(held') /\ Cardinality(held') = Cardinality(held) + 1
  BY <1>3, FS_AddElement, FS_CardinalityType DEF Inv
<1>5. /\ Cardinality(FreeFrames) \in Nat /\ IsFiniteSet(FreeFrames')
      /\ Cardinality(FreeFrames') = Cardinality(FreeFrames) - 1
  BY FS_RemoveElement, FS_CardinalityType DEF Inv
<1>6. CountsExact'
  BY <1>4, <1>5 DEF Inv, CountsExact
<1>7. RecycleFits'
  <2>1. /\ Len(recycle) \in Nat /\ HeldMax \in Nat /\ halted # "pmm recycle stack full"
        /\ Len(recycle) + Cardinality(held) <= HeldMax
    BY BoundsAssumption, LenProperties DEF Inv, TypeOK, RecycleFits
  <2>2. Len(recycle') + Cardinality(held') <= HeldMax
    <3> DEFINE a == Len(recycle')
               b == Len(recycle)
               c == Cardinality(held)
               d == Cardinality(held')
    <3>1. /\ a \in Nat /\ b \in Nat /\ c \in Nat /\ HeldMax \in Nat
          /\ c < HeldMax /\ b + c <= HeldMax /\ d = c + 1
          /\ a + 1 <= b \/ a = 0
      BY <2>1, <1>4
    <3> HIDE DEF a, b, c, d
    <3>2. a + d <= HeldMax
      BY <3>1
    <3>3. QED
      BY <3>2 DEF a, d
  <2>3. halted' = halted
    OBVIOUS
  <2>4. QED
    BY <2>1, <2>2, <2>3 DEF RecycleFits
<1>8. QED
  BY <1>1, <1>2, <1>4, <1>5, <1>6, <1>7 DEF Inv

\* The stack without its top.
LEMMA PopFacts ==
  ASSUME recycle \in Seq(Nat), recycle # <<>>
  PROVE  /\ Len(recycle) \in Nat /\ Len(recycle) >= 1
         /\ Popped \in Seq(Nat) /\ Len(Popped) = Len(recycle) - 1
         /\ \A k \in 1 .. Len(recycle) - 1 : Popped[k] = recycle[k]
         /\ recycle[Len(recycle)] \in Nat
<1>1. Len(recycle) \in Nat /\ Len(recycle) >= 1
  BY LenProperties, EmptySeq
<1>2. \A i \in 1 .. Len(recycle) - 1 : recycle[i] \in Nat
  BY <1>1, ElementOfSeq
<1>3. /\ Popped \in Seq(Nat) /\ Len(Popped) = Len(recycle) - 1
      /\ \A k \in 1 .. Len(recycle) - 1 : Popped[k] = recycle[k]
  <2> DEFINE n == Len(recycle) - 1
  <2>1. n \in Int /\ n >= 0
    BY <1>1
  <2> HIDE DEF n
  <2>2. /\ SubSeq(recycle, 1, n) \in Seq(Nat)
        /\ Len(SubSeq(recycle, 1, n)) = IF 1 <= n THEN n - 1 + 1 ELSE 0
        /\ \A i \in 1 .. n - 1 + 1 : SubSeq(recycle, 1, n)[i] = recycle[1 + i - 1]
    BY <1>2, <2>1, SubSeqProperties DEF n
  <2>3. (IF 1 <= n THEN n - 1 + 1 ELSE 0) = n /\ n - 1 + 1 = n
    BY <2>1
  <2>4. \A i \in 1 .. n : 1 + i - 1 = i
    BY <2>1
  <2>5. QED
    BY <2>2, <2>3, <2>4 DEF Popped, n
<1>4. recycle[Len(recycle)] \in Nat
  BY <1>1, ElementOfSeq
<1>5. QED
  BY <1>1, <1>3, <1>4

\* Taking the top of the recycle stack.
LEMMA AllocRecycledInv == Inv /\ AllocRecycled => Inv'
<1> SUFFICES ASSUME Inv, AllocRecycled PROVE Inv'
  OBVIOUS
<1> DEFINE p == recycle[Len(recycle)]
           n == Len(recycle)
<1>1. /\ recycle \in Seq(Nat) /\ recycle # <<>> /\ Cardinality(held) < HeldMax
      /\ phase = "ready"
      /\ held' = held \cup {p} /\ recycle' = Popped /\ freePages' = freePages - 1
      /\ UNCHANGED <<boot, phase, halted, entryIndex, regions, regionIndex, totalPages>>
  BY DEF Inv, TypeOK, AllocRecycled, WithinBudget, Serving
<1>2. /\ n \in Nat /\ n >= 1
      /\ recycle' \in Seq(Nat) /\ Len(recycle') = n - 1
      /\ \A k \in 1 .. n - 1 : recycle'[k] = recycle[k]
      /\ p \in Nat
  BY <1>1, PopFacts
<1>3. p \in RecycledFrames
  BY <1>2 DEF RecycledFrames
<1>4. \A j, k \in 1 .. n : recycle[j] = recycle[k] => j = k
  BY DEF Inv, FramesDistinct
<1>5. RecycledFrames' = RecycledFrames \ {p}
  <2>1. RecycledFrames' = {recycle[k] : k \in 1 .. n - 1}
    BY <1>2 DEF RecycledFrames
  <2>2. \A k \in 1 .. n - 1 : k \in 1 .. n /\ recycle[k] # p
    BY <1>2, <1>4
  <2>3. \A k \in 1 .. n : recycle[k] # p => k \in 1 .. n - 1
    BY <1>2
  <2>4. QED
    BY <2>1, <2>2, <2>3 DEF RecycledFrames
<1>6. RegionFrames' = RegionFrames /\ RegionFrames \cap RecycledFrames = {} /\ held \cap FreeFrames = {}
  BY <1>1 DEF RegionFrames, Inv, FramesDistinct
<1>7. FreeFrames' = FreeFrames \ {p}
  BY <1>3, <1>5, <1>6 DEF FreeFrames
<1>8. FramesDistinct'
  <2>1. held' \cap FreeFrames' = {} /\ RegionFrames' \cap RecycledFrames' = {}
    BY <1>1, <1>5, <1>6, <1>7
  <2>2. \A j, k \in 1 .. Len(recycle') : recycle'[j] = recycle'[k] => j = k
    BY <1>2, <1>4
  <2>3. QED
    BY <2>1, <2>2, <1>1 DEF Inv, FramesDistinct
<1>9. TypeOK'
  <2>1. freePages' \in Nat
    <3>1. freePages \in Nat /\ freePages # 0 /\ freePages' = freePages - 1
      BY DEF Inv, TypeOK, AllocRecycled
    <3>2. QED
      BY <3>1
  <2>2. held' \subseteq Nat
    BY <1>1, <1>2 DEF Inv, TypeOK
  <2>3. QED
    BY <2>1, <2>2, <1>1, <1>2 DEF Inv, TypeOK
<1>10. p \in FreeFrames /\ Len(recycle') + 1 <= Len(recycle) /\ Len(recycle') \in Nat
  BY <1>2, <1>3 DEF FreeFrames
<1>11. QED
  BY <1>1, <1>7, <1>8, <1>9, <1>10, GiveInv

\* Cutting the first page off region i.
LEMMA AllocFreshInv == ASSUME NEW i, Inv, AllocFresh(i) PROVE Inv'
<1> DEFINE p == regions[i].start
           cut == [start |-> p + 1, end |-> regions[i].end]
<1>1. /\ recycle = <<>> /\ Cardinality(held) < HeldMax /\ phase = "ready"
      /\ held' = held \cup {p} /\ freePages' = freePages - 1 /\ freePages # 0
      /\ regions' = [regions EXCEPT ![i] = cut]
      /\ regionIndex' = RegionLeft(i)
      /\ UNCHANGED <<boot, phase, halted, entryIndex, recycle, totalPages>>
  BY DEF AllocFresh, FreshTried, WithinBudget, Serving
<1>2. /\ regions \in Seq(Region) /\ Len(regions) \in Nat /\ Len(regions) <= MaxRegions
      /\ regionIndex \in 0 .. Len(regions)
  BY LenProperties DEF Inv, TypeOK, Region
<1>3. /\ i \in regionIndex + 1 .. Len(regions)
      /\ regions[i].start + 1 <= regions[i].end
      /\ \A j \in regionIndex + 1 .. i - 1 : regions[j].start + 1 > regions[j].end
  BY DEF AllocFresh, FirstUsable
<1>4. i \in 1 .. Len(regions) /\ i \in Nat
  BY <1>2, <1>3
<1>5. \A j \in 1 .. Len(regions) : regions[j].start \in Nat /\ regions[j].end \in Nat
  <2>1. \A j \in 1 .. Len(regions) : regions[j] \in Region
    BY <1>2, ElementOfSeq
  <2>2. QED
    BY <2>1 DEF Region
<1>6. p \in Nat /\ regions[i].end \in Nat /\ p + 1 <= regions[i].end
  BY <1>3, <1>4, <1>5
<1>7. /\ regions' \in Seq(Region) /\ Len(regions') = Len(regions)
      /\ regions'[i] = cut
      /\ \A j \in 1 .. Len(regions) : j # i => regions'[j] = regions[j]
  <2>1. cut \in Region
    BY <1>6 DEF Region
  <2> HIDE DEF cut
  <2>2. QED
    BY <2>1, <1>1, <1>2, <1>4, ExceptSeq
<1>8. FramesOf(regions'[i]) = FramesOf(regions[i]) \ {p} /\ p \in FramesOf(regions[i])
  BY <1>6, <1>7 DEF FramesOf
<1>9. \A j \in 1 .. Len(regions) : j # i => p \notin FramesOf(regions[j])
  BY <1>4, <1>8 DEF Inv, FramesDistinct, FramesOf
<1>10. \A j \in 1 .. Len(regions) : FramesOf(regions'[j]) = FramesOf(regions[j]) \ {p}
  BY <1>7, <1>8, <1>9
<1>11. \/ regionIndex' = i - 1
       \/ regionIndex' = i /\ FramesOf(regions'[i]) = {}
  <2>1. CASE regions[i].start + 1 >= regions[i].end
    <3>1. regionIndex' = i
      BY <2>1, <1>1 DEF RegionLeft
    <3>2. FramesOf(regions'[i]) = {}
      BY <2>1, <1>6, <1>7 DEF FramesOf
    <3>3. QED
      BY <3>1, <3>2
  <2>2. CASE ~(regions[i].start + 1 >= regions[i].end)
    BY <2>2, <1>1 DEF RegionLeft
  <2>3. QED
    BY <2>1, <2>2
<1>12. RegionFrames' = RegionFrames \ {p}
  <2>1. \A j \in regionIndex + 1 .. i - 1 : FramesOf(regions[j]) = {}
    <3>1. SUFFICES ASSUME NEW j \in regionIndex + 1 .. i - 1 PROVE FramesOf(regions[j]) = {}
      OBVIOUS
    <3>2. j \in 1 .. Len(regions) /\ regions[j].start + 1 > regions[j].end
      BY <1>2, <1>3, <1>4
    <3>3. regions[j].start \in Nat /\ regions[j].end \in Nat
      BY <3>2, <1>5
    <3>4. QED
      BY <3>2, <3>3 DEF FramesOf
  <2>2. ASSUME NEW q PROVE q \in RegionFrames' <=> q \in RegionFrames \ {p}
    <3>1. ASSUME q \in RegionFrames' PROVE q \in RegionFrames \ {p}
      <4>1. PICK j \in regionIndex' + 1 .. Len(regions) : q \in FramesOf(regions'[j])
        BY <3>1, <1>7 DEF RegionFrames, FramesOf
      <4>2. j \in regionIndex + 1 .. Len(regions) /\ j \in 1 .. Len(regions)
        BY <1>2, <1>3, <1>4, <1>11
      <4>3. q \in FramesOf(regions[j]) \ {p}
        BY <4>1, <4>2, <1>10
      <4>4. QED
        BY <4>2, <4>3 DEF RegionFrames, FramesOf
    <3>2. ASSUME q \in RegionFrames, q # p PROVE q \in RegionFrames'
      <4>1. PICK j \in regionIndex + 1 .. Len(regions) : q \in FramesOf(regions[j])
        BY <3>2 DEF RegionFrames, FramesOf
      <4>2. j \in 1 .. Len(regions) /\ j \in Int
        BY <1>2
      <4>3. q \in FramesOf(regions'[j])
        BY <4>1, <4>2, <3>2, <1>10
      <4>4. j \notin regionIndex + 1 .. i - 1
        BY <4>1, <2>1
      <4>5. j \in regionIndex' + 1 .. Len(regions)
        <5>1. j >= i
          BY <4>2, <4>4, <1>2, <1>4
        <5>2. CASE regionIndex' = i - 1
          BY <5>1, <5>2, <4>2, <1>4
        <5>3. CASE regionIndex' = i /\ FramesOf(regions'[i]) = {}
          <6>1. j # i
            BY <4>3, <5>3
          <6>2. QED
            BY <5>1, <5>3, <6>1, <4>2, <1>4
        <5>4. QED
          BY <5>2, <5>3, <1>11
      <4>6. QED
        BY <4>3, <4>5, <1>7 DEF RegionFrames, FramesOf
    <3>3. QED
      BY <3>1, <3>2
  <2>3. QED
    BY <2>2
<1>13. p \in RegionFrames
  BY <1>3, <1>8 DEF RegionFrames, FramesOf
<1>14. RecycledFrames' = RecycledFrames /\ RecycledFrames = {}
  BY <1>1 DEF RecycledFrames
<1>15. p \in FreeFrames /\ FreeFrames' = FreeFrames \ {p}
  BY <1>12, <1>13, <1>14 DEF FreeFrames
<1>16. FramesDistinct'
  <2>1. held \cap FreeFrames = {} /\ \A j, k \in 1 .. Len(recycle) : recycle[j] = recycle[k] => j = k
    BY DEF Inv, FramesDistinct
  <2>2. held' \cap FreeFrames' = {} /\ RegionFrames' \cap RecycledFrames' = {}
    BY <2>1, <1>1, <1>14, <1>15
  <2>3. \A k, j \in 1 .. Len(regions) : k # j => FramesOf(regions'[k]) \cap FramesOf(regions'[j]) = {}
    <3>1. \A k, j \in 1 .. Len(regions) : k # j => FramesOf(regions[k]) \cap FramesOf(regions[j]) = {}
      BY DEF Inv, FramesDistinct, FramesOf
    <3>2. QED
      BY <3>1, <1>10
  <2>4. recycle' = recycle
    BY <1>1
  <2>5. QED
    BY <2>1, <2>2, <2>3, <2>4, <1>7 DEF FramesDistinct, FramesOf
<1>17. TypeOK'
  <2>1. freePages' \in Nat
    <3>1. freePages \in Nat
      BY DEF Inv, TypeOK
    <3>2. QED
      BY <3>1, <1>1
  <2>2. held' \subseteq Nat
    BY <1>1, <1>6 DEF Inv, TypeOK
  <2>3. regionIndex' \in 0 .. Len(regions')
    BY <1>2, <1>4, <1>7, <1>11
  <2>4. QED
    BY <2>1, <2>2, <2>3, <1>1, <1>2, <1>7 DEF Inv, TypeOK, Region
<1>18. Len(recycle') = 0 /\ Len(recycle') \in Nat
  BY <1>1
<1>19. QED
  BY <1>1, <1>15, <1>16, <1>17, <1>18, GiveInv

\* A nonempty set of numbers has a least element.
LEMMA LeastNat ==
  ASSUME NEW T \in SUBSET Nat, T # {}
  PROVE  \E x \in T : \A y \in T : x <= y
<1>1. PICK x \in T : \A y \in T : ~(<<y, x>> \in OpToRel(<, Nat))
  BY NatLessThanWellFounded, WFMin
<1>2. \A y \in T : ~(y < x)
  BY <1>1 DEF OpToRel
<1>3. QED
  BY <1>2

\* As long as free_pages is not zero and the stack is empty, the loop over the
\* regions finds a page.
LEMMA SearchSucceeds ==
  ASSUME Inv, FreshTried
  PROVE  \E i \in 1 .. Len(regions) : FirstUsable(i)
<1>1. /\ regions \in Seq(Region) /\ Len(regions) \in Nat
      /\ regionIndex \in 0 .. Len(regions) /\ freePages # 0 /\ recycle = <<>>
  BY LenProperties DEF Inv, TypeOK, Region, FreshTried
<1>2. FreeFrames # {}
  BY <1>1, FS_EmptySet DEF Inv, CountsExact
<1>3. RegionFrames # {}
  BY <1>1, <1>2 DEF FreeFrames, RecycledFrames
<1> DEFINE T == {i \in regionIndex + 1 .. Len(regions) : regions[i].start + 1 <= regions[i].end}
<1>4. T # {}
  <2>1. PICK i \in regionIndex + 1 .. Len(regions) : FramesOf(regions[i]) # {}
    BY <1>3 DEF RegionFrames, FramesOf
  <2>2. i \in 1 .. Len(regions)
    BY <1>1
  <2>3. regions[i] \in Region
    BY <1>1, <2>2, ElementOfSeq
  <2>4. regions[i].start + 1 <= regions[i].end
    BY <2>1, <2>3 DEF FramesOf, Region
  <2>5. QED
    BY <2>4
<1>5. T \in SUBSET Nat
  BY <1>1
<1>6. PICK i \in T : \A j \in T : i <= j
  <2> HIDE DEF T
  <2>1. QED
    BY <1>4, <1>5, LeastNat
<1>7. i \in 1 .. Len(regions)
  BY <1>1
<1>8. \A j \in regionIndex + 1 .. i - 1 : regions[j].start + 1 > regions[j].end
  <2>1. SUFFICES ASSUME NEW j \in regionIndex + 1 .. i - 1
                 PROVE  regions[j].start + 1 > regions[j].end
    OBVIOUS
  <2>2. j \in 1 .. Len(regions) /\ j \in regionIndex + 1 .. Len(regions) /\ ~(i <= j)
    BY <1>1, <1>7
  <2>3. regions[j] \in Region
    BY <1>1, <2>2, ElementOfSeq
  <2>4. regions[j].start \in Nat /\ regions[j].end \in Nat
    BY <2>3 DEF Region
  <2>5. ~(regions[j].start + 1 <= regions[j].end)
    BY <2>2, <1>6
  <2>6. QED
    BY <2>4, <2>5
<1>9. QED
  BY <1>6, <1>7, <1>8 DEF FirstUsable

\* A step that changes nothing keeps Inv.
LEMMA StutterInv == Inv /\ UNCHANGED vars => Inv'
<1> SUFFICES ASSUME Inv, UNCHANGED vars PROVE Inv'
  OBVIOUS
<1>1. /\ boot' = boot /\ phase' = phase /\ halted' = halted /\ entryIndex' = entryIndex
      /\ regions' = regions /\ regionIndex' = regionIndex /\ recycle' = recycle
      /\ totalPages' = totalPages /\ freePages' = freePages /\ held' = held
  BY DEF vars
<1>2. RegionFrames' = RegionFrames /\ RecycledFrames' = RecycledFrames /\ FreeFrames' = FreeFrames
  BY <1>1 DEF RegionFrames, RecycledFrames, FreeFrames
<1>3. TypeOK' /\ ScanInv'
  BY <1>1 DEF Inv, TypeOK, ScanInv
<1>4. FromWalked'
  BY <1>1, <1>2 DEF Inv, FromWalked, UsableOf
<1>5. FramesDistinct' /\ CountsExact' /\ RecycleFits' /\ IsFiniteSet(held') /\ IsFiniteSet(FreeFrames')
  BY <1>1, <1>2 DEF Inv, FramesDistinct, CountsExact, RecycleFits
<1>6. QED
  BY <1>3, <1>4, <1>5 DEF Inv

\* A failing allocation changes nothing.
LEMMA AllocFailsInv == Inv /\ AllocFails => Inv'
<1> SUFFICES ASSUME Inv, AllocFails PROVE Inv'
  OBVIOUS
<1>1. freePages = 0
  BY SearchSucceeds DEF AllocFails
<1>2. UNCHANGED vars
  BY <1>1 DEF AllocFails, vars
<1>3. QED
  BY <1>2, StutterInv

\* Returning a page.
LEMMA FreeInv == ASSUME NEW p, Inv, Free(p) PROVE Inv'
<1> DEFINE n == Len(recycle)
<1>1. /\ p \in held /\ phase = "ready" /\ p \in Nat
      /\ UNCHANGED <<boot, phase, entryIndex, regions, regionIndex, totalPages>>
  BY DEF Free, Serving, Inv, TypeOK
<1>2. recycle \in Seq(Nat) /\ n \in Nat /\ freePages \in Nat /\ StackCap \in Nat /\ HeldMax \in Nat
  BY LenProperties, BoundsAssumption DEF Inv, TypeOK
<1>3. /\ IsFiniteSet(held \ {p}) /\ Cardinality(held) \in Nat
      /\ Cardinality(held \ {p}) = Cardinality(held) - 1 /\ Cardinality(held \ {p}) \in Nat
  BY <1>1, FS_RemoveElement, FS_CardinalityType DEF Inv
<1>4. n + Cardinality(held) <= HeldMax /\ HeldMax <= StackCap
  BY BoundsAssumption DEF Inv, RecycleFits
<1>5. ~(n >= StackCap)
  BY <1>2, <1>3, <1>4
<1>6. /\ recycle' = Append(recycle, p) /\ freePages' = freePages + 1
      /\ held' = held \ {p} /\ halted' = halted
  BY <1>5 DEF Free
<1>7. /\ recycle' \in Seq(Nat) /\ Len(recycle') = n + 1
      /\ recycle'[n + 1] = p
      /\ \A k \in 1 .. n : recycle'[k] = recycle[k]
  BY <1>1, <1>2, <1>6, AppendProperties
<1>8. RecycledFrames' = RecycledFrames \cup {p}
  BY <1>2, <1>7 DEF RecycledFrames
<1>9. RegionFrames' = RegionFrames
  BY <1>1 DEF RegionFrames
<1>10. FreeFrames' = FreeFrames \cup {p} /\ p \notin FreeFrames
  BY <1>1, <1>8, <1>9 DEF FreeFrames, Inv, FramesDistinct
<1>11. FramesDistinct'
  <2>1. /\ held \cap FreeFrames = {} /\ RegionFrames \cap RecycledFrames = {}
        /\ \A j, k \in 1 .. n : recycle[j] = recycle[k] => j = k
    BY DEF Inv, FramesDistinct
  <2>2. held' \cap FreeFrames' = {} /\ RegionFrames' \cap RecycledFrames' = {}
    BY <2>1, <1>6, <1>8, <1>9, <1>10 DEF FreeFrames
  <2>3. \A k \in 1 .. n : recycle[k] # p
    BY <1>10 DEF FreeFrames, RecycledFrames
  <2>4. ASSUME NEW j \in 1 .. n + 1, NEW k \in 1 .. n + 1, recycle'[j] = recycle'[k]
        PROVE  j = k
    <3>1. CASE j \in 1 .. n /\ k \in 1 .. n
      BY <3>1, <2>1, <2>4, <1>7
    <3>2. CASE j = n + 1 \/ k = n + 1
      <4>1. \A m \in 1 .. n + 1 : m # n + 1 => m \in 1 .. n
        BY <1>2
      <4>2. QED
        BY <4>1, <3>2, <2>3, <2>4, <1>7
    <3>3. QED
      BY <3>1, <3>2, <1>2
  <2>5. QED
    BY <2>2, <2>4, <1>1, <1>7 DEF Inv, FramesDistinct
<1>12. /\ IsFiniteSet(FreeFrames') /\ Cardinality(FreeFrames) \in Nat
       /\ Cardinality(FreeFrames') = Cardinality(FreeFrames) + 1
  BY <1>10, FS_AddElement, FS_CardinalityType DEF Inv
<1>13. CountsExact'
  <2>1. /\ freePages = Cardinality(FreeFrames) /\ totalPages = freePages + Cardinality(held)
        /\ totalPages' = totalPages
    BY <1>1 DEF Inv, CountsExact
  <2>2. freePages' = Cardinality(FreeFrames') /\ totalPages' = freePages' + Cardinality(held')
    BY <2>1, <1>2, <1>3, <1>6, <1>12
  <2>3. QED
    BY <2>2 DEF CountsExact
<1>14. RecycleFits'
  <2>1. Len(recycle') + Cardinality(held') <= HeldMax
    BY <1>2, <1>3, <1>4, <1>6, <1>7
  <2>2. QED
    BY <2>1, <1>6 DEF Inv, RecycleFits
<1>15. TypeOK' /\ ScanInv'
  <2>1. freePages' \in Nat /\ held' \subseteq Nat
    <3>1. freePages' \in Nat
      BY <1>2, <1>6
    <3>2. held' \subseteq Nat
      BY <1>6 DEF Inv, TypeOK
    <3>3. QED
      BY <3>1, <3>2
  <2>2. QED
    BY <2>1, <1>1, <1>6, <1>7 DEF Inv, TypeOK, ScanInv
<1>16. FromWalked'
  BY <1>1, <1>6, <1>10 DEF Inv, FromWalked, UsableOf
<1>17. QED
  BY <1>3, <1>6, <1>11, <1>12, <1>13, <1>14, <1>15, <1>16 DEF Inv

\* Every step, or none, keeps Inv.
LEMMA StepInv == Inv /\ [Next]_vars => Inv'
<1> SUFFICES ASSUME Inv, [Next]_vars PROVE Inv'
  OBVIOUS
<1>1. CASE UNCHANGED vars
  BY <1>1, StutterInv
<1>2. CASE ScanEntry
  BY <1>2, ScanEntryInv
<1>3. CASE ScanDone
  BY <1>3, ScanDoneInv
<1>4. CASE AllocRecycled
  BY <1>4, AllocRecycledInv
<1>5. CASE \E i \in 1 .. Len(regions) : AllocFresh(i)
  BY <1>5, AllocFreshInv
<1>6. CASE AllocFails
  BY <1>6, AllocFailsInv
<1>7. CASE \E p \in held : Free(p)
  BY <1>7, FreeInv
<1>8. CASE Halted
  BY <1>8, <1>1 DEF Halted
<1>9. QED
  BY <1>1, <1>2, <1>3, <1>4, <1>5, <1>6, <1>7, <1>8 DEF Next

-----------------------------------------------------------------------------
(***************************************************************************)
(* Theorems.                                                               *)
(***************************************************************************)

\* Inv holds of every reachable state of the allocator.
THEOREM Invariance == Spec => []Inv
<1>1. QED
  BY InitInv, StepInv, PTL DEF Spec

\* The allocator's words keep their types; in particular free_pages, which is
\* decremented without a test of its own, never goes below zero.
THEOREM TypeCorrect == Spec => []TypeOK
<1>1. Inv => TypeOK
  BY DEF Inv
<1>2. QED
  BY <1>1, Invariance, PTL

\* No frame is ever given to two callers, or given out while it is free.
THEOREM OwnersAreDistinct == Spec => []FramesDistinct
<1>1. Inv => FramesDistinct
  BY DEF Inv
<1>2. QED
  BY <1>1, Invariance, PTL

\* init_pmm never lets a frame of the kernel image, of the low megabyte or of
\* memory the firmware keeps into the pool.
THEOREM OnlyUsableFrames == Spec => []FramesUsable
<1>1. Inv => FramesUsable
  <2>1. SUFFICES ASSUME Inv, NEW p \in held \cup FreeFrames PROVE FrameUsable(p)
    BY DEF FramesUsable
  <2>2. PICK i \in 1 .. entryIndex : UsableOf(p, boot.mmap[i])
    BY <2>1 DEF Inv, FromWalked
  <2>3. boot \in Boots /\ entryIndex \in 0 .. Len(boot.mmap)
    BY <2>1 DEF Inv, TypeOK
  <2>4. Len(boot.mmap) \in Nat
    BY <2>3, BootFacts, LenProperties
  <2>5. i \in 1 .. Len(boot.mmap)
    BY <2>3, <2>4
  <2>6. QED
    BY <2>2, <2>5 DEF UsableOf, FrameUsable
<1>2. QED
  BY <1>1, Invariance, PTL

\* free_pages and total_pages agree with the frames in the pool and outside.
THEOREM CountsAreExact == Spec => []CountsExact
<1>1. Inv => CountsExact
  BY DEF Inv
<1>2. QED
  BY <1>1, Invariance, PTL

\* The recycle stack does not overflow, for any callers that never hold more
\* than HeldMax <= StackCap pages at once.
THEOREM StackSuffices == Spec => []RecycleFits
<1>1. Inv => RecycleFits
  BY DEF Inv
<1>2. QED
  BY <1>1, Invariance, PTL

-----------------------------------------------------------------------------
(***************************************************************************)
(* Where the memory map comes from. Pmm.tla takes it as given; Loader.tla  *)
(* has the loader that copies it while the firmware may still change it.   *)
(* Here the kernel gets the last one, with everything the loader allocated *)
(* in it, for every slack of the buffer, every size of the map and every   *)
(* number of changes.                                                      *)
(***************************************************************************)
Loading == {"read", "fill", "exit", "kernel"}
HasRead == {"fill", "exit", "kernel"}
Needed == {"kernel", "initramfs", "regions", "info"}
Maps == [version : Nat, entries : Nat, loader : SUBSET (Needed \cup {"buffer"})]

LoaderTypeInv ==
  /\ pc \in {"files", "probe", "tables", "returned"} \cup Loading
  /\ map \in Maps /\ read \in Maps /\ handed \in Maps
  /\ bufferCap \in Nat /\ regionCap \in Nat

\* The loader allocates everything before it reads the map for the first time.
AllocatedInv ==
  /\ pc \in {"probe", "tables"} \cup Loading => {"kernel", "initramfs"} \subseteq map.loader
  /\ pc \in Loading => Needed \subseteq map.loader /\ regionCap = bufferCap + Slack
  /\ pc \in HasRead => Needed \subseteq read.loader /\ read.entries <= bufferCap

\* A map read with the key that the firmware still has is the firmware's map.
KeyInv ==
  /\ pc \in HasRead => read.version <= map.version
  /\ pc \in HasRead /\ read.version = map.version => read = map
  /\ pc \in {"exit", "kernel"} => handed = read
  /\ pc = "kernel" => read = map

LoaderInv == LoaderTypeInv /\ AllocatedInv /\ KeyInv

\* The invariant holds when the loader starts.
LEMMA LoaderInitInv == LoaderInit => LoaderInv
<1>1. SUFFICES ASSUME LoaderInit PROVE LoaderInv
  OBVIOUS
<1>2. map \in Maps
  BY <1>1, LoaderAssumption DEF LoaderInit, Maps
<1>3. Nothing \in Maps
  BY DEF Nothing, Maps
<1> QED
  BY <1>1, <1>2, <1>3 DEF LoaderInit, LoaderInv, LoaderTypeInv, AllocatedInv, KeyInv, Loading, HasRead

\* A changed map is a map with the next key; nothing of the loader's leaves it.
LEMMA ChangedMap ==
  ASSUME map \in Maps, NEW what \in SUBSET (Needed \cup {"buffer"}), NEW n \in 1 .. MaxEntries
  PROVE  /\ Changed(what, n) \in Maps
         /\ Changed(what, n).version = map.version + 1
         /\ Changed(what, n).loader = map.loader \cup what
<1> QED
  BY LoaderAssumption DEF Changed, Maps

\* Every step of loader and firmware keeps the invariant.
LEMMA LoaderNextInv == LoaderInv /\ [LoaderNext]_loaderVars => LoaderInv'
<1>1. SUFFICES ASSUME LoaderInv, [LoaderNext]_loaderVars PROVE LoaderInv'
  OBVIOUS
<1> USE <1>1, LoaderAssumption DEF LoaderInv
<1>2. CASE FirmwareEvent
  <2>1. PICK n \in 1 .. MaxEntries : map' = Changed({}, n)
    BY <1>2 DEF FirmwareEvent
  <2>2. map' \in Maps /\ map'.version = map.version + 1 /\ map'.loader = map.loader
    BY <2>1, ChangedMap DEF LoaderTypeInv
  <2>3. read.version \in Nat /\ map.version \in Nat
    BY DEF LoaderTypeInv, Maps
  <2> QED
    BY <1>2, <2>2, <2>3 DEF FirmwareEvent, LoaderTypeInv, AllocatedInv, KeyInv, Loading, HasRead
<1>3. CASE LoadFiles
  <2>1. PICK n \in 1 .. MaxEntries : map' = Changed({"kernel", "initramfs"}, n)
    BY <1>3 DEF LoadFiles, Allocate
  <2>2. map' \in Maps /\ map'.loader = map.loader \cup {"kernel", "initramfs"}
    BY <2>1, ChangedMap DEF LoaderTypeInv, Needed
  <2> QED
    BY <1>3, <2>2 DEF LoadFiles, LoaderTypeInv, AllocatedInv, KeyInv, Loading, HasRead
<1>4. CASE ProbeMap
  <2>1. PICK n \in 1 .. MaxEntries : map' = Changed({"buffer"}, n)
    BY <1>4 DEF ProbeMap, Allocate
  <2>2. map' \in Maps /\ map'.loader = map.loader \cup {"buffer"}
    BY <2>1, ChangedMap DEF LoaderTypeInv
  <2>3. bufferCap' \in Nat
    BY <1>4 DEF ProbeMap, LoaderTypeInv, Maps
  <2> QED
    BY <1>4, <2>2, <2>3 DEF ProbeMap, LoaderTypeInv, AllocatedInv, KeyInv, Loading, HasRead
<1>5. CASE AllocateTables
  <2>1. PICK n \in 1 .. MaxEntries : map' = Changed({"regions", "info"}, n)
    BY <1>5 DEF AllocateTables, Allocate
  <2>2. map' \in Maps /\ map'.loader = map.loader \cup {"regions", "info"}
    BY <2>1, ChangedMap DEF LoaderTypeInv, Needed
  <2> QED
    BY <1>5, <2>2 DEF AllocateTables, LoaderTypeInv, AllocatedInv, KeyInv, Loading, HasRead, Needed
<1>6. CASE ReadMap
  <2>1. read'.version <= map'.version
    BY <1>6 DEF ReadMap, LoaderTypeInv, Maps
  <2> QED
    BY <1>6, <2>1 DEF ReadMap, LoaderTypeInv, AllocatedInv, KeyInv, Loading, HasRead
<1>7. CASE FillTables
  BY <1>7 DEF FillTables, LoaderTypeInv, AllocatedInv, KeyInv, Loading, HasRead
<1>8. CASE ExitRefused
  BY <1>8 DEF ExitRefused, LoaderTypeInv, AllocatedInv, KeyInv, Loading, HasRead
<1>9. CASE ExitBootServices
  BY <1>9 DEF ExitBootServices, LoaderTypeInv, AllocatedInv, KeyInv, Loading, HasRead
<1>10. CASE Return
  BY <1>10 DEF Return, LoaderTypeInv, AllocatedInv, KeyInv, Loading, HasRead
<1>11. CASE Over \/ UNCHANGED loaderVars
  BY <1>11 DEF Over, loaderVars, LoaderTypeInv, AllocatedInv, KeyInv
<1> QED
  BY <1>2, <1>3, <1>4, <1>5, <1>6, <1>7, <1>8, <1>9, <1>10, <1>11 DEF LoaderNext

\* The map the kernel gets is the firmware's last one, with all the loader's
\* allocations in it, for every size of buffer and every number of changes:
\* efi_main_body goes back to GetMemoryMap whenever its key is refused.
THEOREM HandoverIsCurrent == LoaderSpec => []HandoverCurrent
<1>1. LoaderInv => HandoverCurrent
  <2>1. SUFFICES ASSUME LoaderInv, pc = "kernel" PROVE HandoverCurrent
    BY DEF HandoverCurrent
  <2>2. handed = read /\ read = map /\ Needed \subseteq read.loader
    BY <2>1 DEF LoaderInv, AllocatedInv, KeyInv, HasRead
  <2>3. read.entries <= bufferCap /\ regionCap = bufferCap + Slack
    BY <2>1 DEF LoaderInv, AllocatedInv, Loading, HasRead
  <2>4. read.entries \in Nat /\ bufferCap \in Nat
    BY <2>1 DEF LoaderInv, LoaderTypeInv, Maps
  <2> QED
    BY <2>2, <2>3, <2>4, LoaderAssumption DEF HandoverCurrent, Needed
<1> QED
  BY LoaderInitInv, LoaderNextInv, <1>1, PTL DEF LoaderSpec
=============================================================================
