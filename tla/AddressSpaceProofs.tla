------------------------- MODULE AddressSpaceProofs -------------------------
(***************************************************************************)
(* Proofs about AddressSpace.tla, for any number of tasks, frames, pages   *)
(* and images.                                                             *)
(***************************************************************************)
EXTENDS AddressSpace, SequenceTheorems, TLAPS

(***************************************************************************)
(* The inductive invariant. To the three properties it adds what they rest *)
(* on: the types, what an empty slot holds, that the window of a task was  *)
(* written for one image (its entries, not only what they allow), and that *)
(* the CPU has cached exactly the window of the task that runs. Isolation  *)
(* needs the partition, because a store into a frame of two tasks would    *)
(* spoil it, and the partition needs the types of what exec replaces.      *)
(***************************************************************************)
Entries == [frame : Int, user : BOOLEAN, write : BOOLEAN]
Trees == [p4 : Nat, p3 : Nat, p2 : Seq(Nat), pt : Nat]

MemTypes ==
  /\ free \in Seq(Frames)
  /\ state \in [UserTasks -> {"empty", "live", "exited"}]
  /\ tree \in [UserTasks -> Trees]
  /\ pte \in [UserTasks -> [Window -> Entries]]
  /\ pages \in [UserTasks -> Seq(Frames)]
  /\ heapBase \in [UserTasks -> Int] /\ brk \in [UserTasks -> Int]
  /\ current \in UserTasks \cup {Kernel}
  /\ writers \in [Frames -> SUBSET (UserTasks \cup {Gone})]

\* An empty slot has no pages, a used one has a tree of frames, and only a
\* live task has the CPU.
SlotsInv ==
  /\ \A t \in UserTasks : IF state[t] = "empty" THEN pages[t] = <<>>
                           ELSE TreeFrames(tree[t]) \in Seq(Frames)
  /\ current # Kernel => state[current] = "live"

\* The window of t is that of a task whose image is img.
WindowOf(t, img) ==
  /\ Len(pages[t]) = PageCount(img) /\ heapBase[t] = PageAddr(img.pages)
  /\ \A w \in Window :
       IF w < Len(pages[t]) THEN pte[t][w] = Entry(pages[t][w + 1], PageWritable(img, w))
       ELSE ~pte[t][w].user

WindowInv ==
  \A t \in Occupied : /\ \E img \in Images : WindowOf(t, img)
                      /\ brk[t] \in heapBase[t] .. HeapLimit(t)

TlbInv == tlb = Loaded(current)

NoBadStop == halted \notin {"unmap", "outside"}

\* The first half of Isolation.
WritersInv ==
  \A t \in Occupied :
    /\ \A f \in Range(pages[t]) : writers[f] \subseteq {t}
    /\ \A f \in Range(TreeFrames(tree[t])) : writers[f] = {}

MemInv ==
  /\ MemTypes /\ SlotsInv /\ FramesPartitioned
  /\ WindowInv /\ TlbInv /\ NoBadStop /\ WritersInv

-----------------------------------------------------------------------------
(***************************************************************************)
(* Sequences of frames without repetition.                                 *)
(***************************************************************************)

\* IsInjective and Range in terms of positions.
LEMMA SeqFacts ==
  ASSUME NEW S, NEW s \in Seq(S)
  PROVE  /\ IsInjective(s) <=> \A i, j \in 1 .. Len(s) : s[i] = s[j] => i = j
         /\ Range(s) = {s[i] : i \in 1 .. Len(s)}
         /\ Range(s) \subseteq S
         /\ Len(s) \in Nat
<1>1. DOMAIN s = 1 .. Len(s) /\ Len(s) \in Nat
  OBVIOUS
<1>2. \A i \in 1 .. Len(s) : s[i] \in S
  OBVIOUS
<1>3. QED
  BY <1>1, <1>2 DEF IsInjective, Range

\* Two sequences without repetition and without a common element make one.
LEMMA InjectiveConcat ==
  ASSUME NEW S, NEW s \in Seq(S), NEW t \in Seq(S)
  PROVE  /\ s \o t \in Seq(S)
         /\ Range(s \o t) = Range(s) \cup Range(t)
         /\ IsInjective(s \o t) <=>
              IsInjective(s) /\ IsInjective(t) /\ Range(s) \cap Range(t) = {}
<1> DEFINE u == s \o t
<1>1. /\ u \in Seq(S) /\ Len(u) = Len(s) + Len(t) /\ Len(s) \in Nat /\ Len(t) \in Nat
      /\ \A i \in 1 .. Len(s) : u[i] = s[i]
      /\ \A i \in 1 .. Len(t) : u[Len(s) + i] = t[i]
  OBVIOUS
<1>2. Range(u) = Range(s) \cup Range(t)
  BY RangeConcatenation
<1>3. ASSUME IsInjective(u)
      PROVE  IsInjective(s) /\ IsInjective(t) /\ Range(s) \cap Range(t) = {}
  <2> HIDE DEF u
  <2>1. \A i, j \in 1 .. Len(u) : u[i] = u[j] => i = j
    BY <1>1, <1>3, SeqFacts
  <2>2. \A i, j \in 1 .. Len(s) : s[i] = s[j] => i = j
    BY <1>1, <2>1
  <2>3. ASSUME NEW i \in 1 .. Len(t), NEW j \in 1 .. Len(t), t[i] = t[j] PROVE i = j
    <3>1. Len(s) + i \in 1 .. Len(u) /\ Len(s) + j \in 1 .. Len(u)
      BY <1>1
    <3>2. Len(s) + i = Len(s) + j
      BY <1>1, <2>1, <2>3, <3>1
    <3>3. QED
      BY <1>1, <3>2
  <2>4. ASSUME NEW i \in 1 .. Len(s), NEW j \in 1 .. Len(t), s[i] = t[j] PROVE FALSE
    <3>1. i \in 1 .. Len(u) /\ Len(s) + j \in 1 .. Len(u)
      BY <1>1
    <3>2. i = Len(s) + j
      BY <1>1, <2>1, <2>4, <3>1
    <3>3. QED
      BY <1>1, <3>2
  <2>5. QED
    BY <2>2, <2>3, <2>4, SeqFacts
<1>4. ASSUME IsInjective(s), IsInjective(t), Range(s) \cap Range(t) = {}
      PROVE  IsInjective(u)
  <2> HIDE DEF u
  <2>1. /\ \A i, j \in 1 .. Len(s) : s[i] = s[j] => i = j
        /\ \A i, j \in 1 .. Len(t) : t[i] = t[j] => i = j
    BY <1>4, SeqFacts
  <2>2. ASSUME NEW i \in 1 .. Len(s), NEW j \in 1 .. Len(t) PROVE s[i] # t[j]
    <3>1. s[i] \in Range(s) /\ t[j] \in Range(t)
      BY SeqFacts
    <3>2. QED
      BY <1>4, <3>1
  <2>3. \A i \in 1 .. Len(u) : i \in 1 .. Len(s) \/ \E a \in 1 .. Len(t) : i = Len(s) + a
    <3>1. \A i \in 1 .. Len(u) : i \in 1 .. Len(s) \/ i - Len(s) \in 1 .. Len(t)
      BY <1>1
    <3>2. \A i \in 1 .. Len(u) : i = Len(s) + (i - Len(s))
      BY <1>1
    <3>3. QED
      BY <3>1, <3>2
  <2>4. ASSUME NEW i \in 1 .. Len(u), NEW j \in 1 .. Len(u), u[i] = u[j] PROVE i = j
    <3>1. CASE i \in 1 .. Len(s) /\ j \in 1 .. Len(s)
      BY <1>1, <2>1, <2>4, <3>1
    <3>2. ASSUME NEW a \in 1 .. Len(t), NEW c \in 1 .. Len(t), i = Len(s) + a, j = Len(s) + c
          PROVE  i = j
      BY <1>1, <2>1, <2>4, <3>2
    <3>3. ASSUME NEW a \in 1 .. Len(t), i = Len(s) + a, j \in 1 .. Len(s) PROVE FALSE
      BY <1>1, <2>2, <2>4, <3>3
    <3>4. ASSUME NEW a \in 1 .. Len(t), j = Len(s) + a, i \in 1 .. Len(s) PROVE FALSE
      BY <1>1, <2>2, <2>4, <3>4
    <3>5. i \in 1 .. Len(s) \/ \E a \in 1 .. Len(t) : i = Len(s) + a
      BY <2>3
    <3>6. j \in 1 .. Len(s) \/ \E a \in 1 .. Len(t) : j = Len(s) + a
      BY <2>3
    <3>7. QED
      BY <3>1, <3>2, <3>3, <3>4, <3>5, <3>6, Zenon
  <2>5. QED
    BY <1>1, <2>4, SeqFacts
<1>5. QED
  BY <1>1, <1>2, <1>3, <1>4

\* Reversing keeps the elements and their being different.
LEMMA InjectiveReverse ==
  ASSUME NEW S, NEW s \in Seq(S)
  PROVE  /\ Reverse(s) \in Seq(S)
         /\ Range(Reverse(s)) = Range(s)
         /\ IsInjective(s) => IsInjective(Reverse(s))
<1> DEFINE r == Reverse(s)
<1>1. /\ r \in Seq(S) /\ Len(r) = Len(s) /\ Len(s) \in Nat
      /\ \A i \in 1 .. Len(s) : r[i] = s[(Len(s) - i) + 1]
  BY DEF Reverse
<1> HIDE DEF r
<1>2. \A i \in 1 .. Len(s) : \E j \in 1 .. Len(s) : j = (Len(s) - i) + 1 /\ i = (Len(s) - j) + 1
  BY <1>1
<1>3. Range(r) = Range(s)
  <2>1. Range(r) = {r[i] : i \in 1 .. Len(s)} /\ Range(s) = {s[i] : i \in 1 .. Len(s)}
    <3>1. Range(r) = {r[i] : i \in 1 .. Len(r)}
      BY <1>1, SeqFacts
    <3>2. Range(s) = {s[i] : i \in 1 .. Len(s)}
      BY SeqFacts
    <3>3. QED
      BY <1>1, <3>1, <3>2
  <2>2. ASSUME NEW i \in 1 .. Len(s)
        PROVE  \E j \in 1 .. Len(s) : r[i] = s[j] /\ s[i] = r[j]
    BY <1>1, <1>2
  <2>3. Range(r) \subseteq Range(s)
    BY <2>1, <2>2
  <2>4. Range(s) \subseteq Range(r)
    BY <2>1, <2>2
  <2>5. QED
    BY <2>3, <2>4
<1>4. ASSUME IsInjective(s) PROVE IsInjective(r)
  <2>1. \A i, j \in 1 .. Len(s) : s[i] = s[j] => i = j
    BY <1>4, SeqFacts
  <2>2. ASSUME NEW i \in 1 .. Len(r), NEW j \in 1 .. Len(r), r[i] = r[j] PROVE i = j
    <3>1. PICK a \in 1 .. Len(s) : a = (Len(s) - i) + 1
      BY <1>1, <1>2
    <3>2. PICK c \in 1 .. Len(s) : c = (Len(s) - j) + 1
      BY <1>1, <1>2
    <3>3. a = c
      BY <1>1, <2>1, <2>2, <3>1, <3>2
    <3>4. QED
      BY <1>1, <3>1, <3>2, <3>3
  <2>3. QED
    BY <1>1, <2>2, SeqFacts
<1>5. QED
  BY <1>1, <1>3, <1>4 DEF r

\* Pieces of a sequence without repetition have none, and pieces that do not
\* overlap have no common element.
LEMMA InjectiveSplit ==
  ASSUME NEW S, NEW s \in Seq(S), NEW n \in 0 .. Len(s)
  PROVE  /\ SubSeq(s, 1, n) \in Seq(S) /\ Len(SubSeq(s, 1, n)) = n
         /\ SubSeq(s, n + 1, Len(s)) \in Seq(S)
         /\ Range(s) = Range(SubSeq(s, 1, n)) \cup Range(SubSeq(s, n + 1, Len(s)))
         /\ IsInjective(s) =>
              /\ IsInjective(SubSeq(s, 1, n)) /\ IsInjective(SubSeq(s, n + 1, Len(s)))
              /\ Range(SubSeq(s, 1, n)) \cap Range(SubSeq(s, n + 1, Len(s))) = {}
<1>1. /\ SubSeq(s, 1, n) \in Seq(S) /\ Len(SubSeq(s, 1, n)) = n
      /\ SubSeq(s, n + 1, Len(s)) \in Seq(S) /\ n \in Nat
  OBVIOUS
<1>2. s = SubSeq(s, 1, n) \o SubSeq(s, n + 1, Len(s))
  <2>1. SubSeq(s, 1, Len(s)) = s
    BY SubSeqFull
  <2>2. SubSeq(s, 1, n) \o SubSeq(s, n + 1, Len(s)) = SubSeq(s, 1, Len(s))
    <3>1. 1 \in 1 .. Len(s) + 1 /\ n \in 1 - 1 .. Len(s) /\ Len(s) \in n .. Len(s)
      OBVIOUS
    <3>2. QED
      BY <3>1, ConcatAdjacentSubSeq
  <2>3. QED
    BY <2>1, <2>2
<1> DEFINE a == SubSeq(s, 1, n)
           b == SubSeq(s, n + 1, Len(s))
<1>3. a \in Seq(S) /\ b \in Seq(S) /\ s = a \o b /\ Len(a) = n
  BY <1>1, <1>2
<1> HIDE DEF a, b
<1>4. /\ Range(s) = Range(a) \cup Range(b)
      /\ IsInjective(s) => IsInjective(a) /\ IsInjective(b) /\ Range(a) \cap Range(b) = {}
  BY <1>3, InjectiveConcat
<1>5. QED
  BY <1>3, <1>4 DEF a, b

-----------------------------------------------------------------------------
(***************************************************************************)
(* Addresses.                                                              *)
(***************************************************************************)

\* The sum of an address and a length does not wrap around if it is not below
\* the address: the check of syscall_validate_user_buffer finds every overflow.
LEMMA WrapExact ==
  ASSUME NEW ptr \in MachineInts, NEW length \in MachineInts, length >= 0,
         Wrap(ptr + length) >= ptr
  PROVE  Wrap(ptr + length) = ptr + length
<1>1. Half \in Nat /\ Half > 0
  BY MemoryAssumption
<1> DEFINE M == 2 * Half
           x == ptr + length + Half
           q == x \div M
           r == x % M
<1>2. /\ ptr \in Int /\ length \in Int /\ -Half <= ptr /\ ptr < Half /\ length < Half
      /\ M \in Nat /\ M > 0 /\ M = Half + Half /\ x \in Int
  BY <1>1 DEF MachineInts
<1>3. 0 <= x /\ x < M + M /\ x = ptr + length + Half
  BY <1>1, <1>2
<1>4. Wrap(ptr + length) = r - Half
  BY DEF Wrap
<1> HIDE DEF x, M
<1>5. q \in Int /\ r \in Int /\ 0 <= r /\ r < M /\ x = (M * q) + r
  BY <1>2
<1> HIDE DEF q, r
<1>6. q = 0 \/ q = 1
  <2>1. M * q \in Int
    BY <1>2, <1>5
  <2>2. q >= 2 => M * q >= M + M
    BY <1>2, <1>5
  <2>3. q <= -1 => M * q <= -M
    BY <1>2, <1>5
  <2>4. ~(q >= 2) /\ ~(q <= -1)
    BY <1>2, <1>3, <1>5, <2>1, <2>2, <2>3
  <2>5. QED
    BY <1>5, <2>4
<1>7. M * q = IF q = 0 THEN 0 ELSE M
  BY <1>2, <1>6
<1>8. CASE q = 0
  BY <1>1, <1>2, <1>3, <1>4, <1>5, <1>7, <1>8
<1>9. CASE q = 1
  BY <1>1, <1>2, <1>3, <1>4, <1>5, <1>7, <1>9
<1>10. QED
  BY <1>6, <1>8, <1>9

\* Addresses of pages are ordered like the pages.
LEMMA PageOrder ==
  ASSUME NEW m \in Int, NEW n \in Int
  PROVE  /\ PageAddr(m) \in Int
         /\ PageAddr(m) < PageAddr(n) <=> m < n
<1>1. PageBytes \in Nat /\ PageBytes > 0 /\ Base \in Nat
  BY MemoryAssumption
<1>2. m * PageBytes \in Int /\ n * PageBytes \in Int
  BY <1>1
<1>3. m < n => m * PageBytes < n * PageBytes
  BY <1>1
<1>4. n <= m => n * PageBytes <= m * PageBytes
  BY <1>1
<1>5. QED
  BY <1>1, <1>2, <1>3, <1>4 DEF PageAddr

\* Sizes of images.
LEMMA ImageFacts ==
  ASSUME NEW img \in Images
  PROVE  /\ img.pages \in Nat /\ img.pages > 0 /\ HeapPages \in Nat /\ WindowPages \in Nat
         /\ PageCount(img) \in Nat /\ PageCount(img) = img.pages + HeapPages + 1
         /\ PageCount(img) <= WindowPages
         /\ \A w \in Window : PageWritable(img, w) \in BOOLEAN
BY MemoryAssumption DEF PageCount, PageWritable, Window

-----------------------------------------------------------------------------
(***************************************************************************)
(* Frames and their owners.                                                *)
(***************************************************************************)

\* What a task owns is its pages and its tree; an empty slot owns nothing.
LEMMA OwnedFacts ==
  ASSUME MemTypes, SlotsInv, NEW t \in UserTasks
  PROVE  /\ Owned(t) \in Seq(Frames) /\ pages[t] \in Seq(Frames)
         /\ state[t] = "empty" => Owned(t) = <<>> /\ Range(Owned(t)) = {}
         /\ state[t] # "empty" => /\ Owned(t) = pages[t] \o TreeFrames(tree[t])
                                  /\ TreeFrames(tree[t]) \in Seq(Frames)
<1>1. pages[t] \in Seq(Frames)
  BY DEF MemTypes
<1>2. CASE state[t] = "empty"
  <2>1. Owned(t) = <<>>
    BY <1>2 DEF Owned, SlotsInv
  <2>2. <<>> \in Seq(Frames) /\ Range(<<>>) = {}
    BY DEF Range
  <2>3. QED
    BY <1>1, <1>2, <2>1, <2>2
<1>3. CASE state[t] # "empty"
  <2>1. TreeFrames(tree[t]) \in Seq(Frames) /\ Owned(t) = pages[t] \o TreeFrames(tree[t])
    BY <1>3 DEF Owned, SlotsInv
  <2>2. QED
    BY <1>1, <1>3, <2>1, InjectiveConcat
<1>4. QED
  BY <1>2, <1>3

\* Frames that pass between the allocator and one task keep the partition, if
\* the two have together what they had before.
LEMMA Transfer ==
  ASSUME FramesPartitioned, NEW c \in UserTasks,
         \A t \in UserTasks : t # c => Owned(t)' = Owned(t),
         IsInjective(free'), IsInjective(Owned(c)'),
         Range(free') \cap Range(Owned(c)') = {},
         Range(free') \cup Range(Owned(c)') = Range(free) \cup Range(Owned(c))
  PROVE  FramesPartitioned'
<1> DEFINE R(t) == Range(Owned(t))
           Q(t) == Range(Owned(t)')
           F == Range(free)
           G == Range(free')
<1>1. /\ \A t \in UserTasks : R(t) \cap F = {}
      /\ \A t, u \in UserTasks : u # t => R(t) \cap R(u) = {}
      /\ \A t \in UserTasks : IsInjective(Owned(t))
      /\ F \cup UNION {R(t) : t \in UserTasks} = Frames
  BY DEF FramesPartitioned
<1>2. \A t \in UserTasks : t # c => Q(t) = R(t)
  OBVIOUS
<1>3. \A t \in UserTasks : IsInjective(Owned(t)')
  BY <1>1
<1>4. G \cap Q(c) = {} /\ G \cup Q(c) = F \cup R(c)
  OBVIOUS
<1> HIDE DEF R, Q, F, G
<1>5. \A t \in UserTasks : Q(t) \cap G = {}
  BY <1>1, <1>2, <1>4
<1>6. \A t, u \in UserTasks : u # t => Q(t) \cap Q(u) = {}
  BY <1>1, <1>2, <1>4
<1>7. G \cup UNION {Q(t) : t \in UserTasks} = Frames
  <2>1. \A f : f \in G \cup UNION {Q(t) : t \in UserTasks} <=>
               f \in G \cup Q(c) \/ \E t \in UserTasks : t # c /\ f \in Q(t)
    OBVIOUS
  <2>2. \A f : f \in F \cup UNION {R(t) : t \in UserTasks} <=>
               f \in F \cup R(c) \/ \E t \in UserTasks : t # c /\ f \in R(t)
    OBVIOUS
  <2>3. QED
    BY <1>1, <1>2, <1>4, <2>1, <2>2
<1>8. QED
  BY <1>3, <1>5, <1>6, <1>7 DEF FramesPartitioned, R, Q, F, G

\* All frames are free and no task exists when the first program is started.
LEMMA InitMem == Init => MemInv
<1> SUFFICES ASSUME Init PROVE MemInv
  OBVIOUS
<1>1. MemTypes
  <2>1. free \in Seq(Frames)
    BY MemoryAssumption DEF Init, Frames
  <2>2. tree \in [UserTasks -> Trees]
    <3>1. NoTree \in Trees
      BY DEF NoTree, Trees
    <3>2. QED
      BY <3>1 DEF Init
  <2>3. pte \in [UserTasks -> [Window -> Entries]]
    <3>1. IdentityWindow \in [Window -> Entries]
      BY MemoryAssumption DEF IdentityWindow, Entries, Window
    <3>2. QED
      BY <3>1 DEF Init
  <2>4. pages \in [UserTasks -> Seq(Frames)]
    BY DEF Init
  <2>5. QED
    BY <2>1, <2>2, <2>3, <2>4 DEF Init, MemTypes
<1>2. SlotsInv
  BY DEF Init, SlotsInv
<1>3. Occupied = {}
  BY DEF Init, Occupied
<1>4. FramesPartitioned
  <2>1. \A t \in UserTasks : Owned(t) = <<>> /\ Range(Owned(t)) = {}
    BY <1>1, <1>2, OwnedFacts DEF Init
  <2>2. IsInjective(<<>>)
    BY DEF IsInjective
  <2>3. IsInjective(free) /\ Range(free) = Frames
    BY DEF Init, IsInjective, Range
  <2>4. QED
    BY <2>1, <2>2, <2>3 DEF FramesPartitioned
<1>5. WindowInv /\ WritersInv
  BY <1>3 DEF WindowInv, WritersInv
<1>6. TlbInv /\ NoBadStop
  BY DEF Init, TlbInv, Loaded, NoBadStop
<1>7. QED
  BY <1>1, <1>2, <1>4, <1>5, <1>6 DEF MemInv

\* A step that only stops the kernel.
LEMMA PanicMem ==
  ASSUME MemInv, NEW why, why \notin {"unmap", "outside"}, Panic(why)
  PROVE  MemInv'
<1>1. /\ halted' = why
      /\ UNCHANGED <<free, state, tree, pte, pages, heapBase, brk, current, tlb, writers>>
  BY DEF Panic
<1>2. MemTypes' /\ SlotsInv'
  BY <1>1 DEF MemInv, MemTypes, SlotsInv, TreeFrames
<1>3. FramesPartitioned'
  BY <1>1 DEF MemInv, FramesPartitioned, Owned, TreeFrames
<1>4. WindowInv'
  BY <1>1 DEF MemInv, WindowInv, Occupied, WindowOf, HeapLimit, PageAddr
<1>5. TlbInv' /\ NoBadStop'
  BY <1>1 DEF MemInv, TlbInv, Loaded, NoBadStop
<1>6. WritersInv'
  BY <1>1 DEF MemInv, WritersInv, Occupied, TreeFrames
<1>7. QED
  BY <1>2, <1>3, <1>4, <1>5, <1>6 DEF MemInv

-----------------------------------------------------------------------------
(***************************************************************************)
(* Steps that move no frame.                                               *)
(***************************************************************************)

\* Whatever is cached leads a program to its own pages.
LEMMA CachedIsOwn ==
  ASSUME MemInv, NEW x \in tlb, x[2].user
  PROVE  /\ current # Kernel /\ current \in Occupied
         /\ x[1] \in Window /\ x[1] < Len(pages[current])
         /\ x[2].frame \in Range(pages[current])
<1>1. tlb = Loaded(current)
  BY DEF MemInv, TlbInv
<1>2. current # Kernel /\ x \in Present(pte[current])
  BY <1>1 DEF Loaded
<1>3. PICK w \in Window : x = <<w, pte[current][w]>>
  BY <1>2 DEF Present
<1>4. current \in UserTasks /\ state[current] = "live"
  BY <1>2 DEF MemInv, MemTypes, SlotsInv
<1>5. current \in Occupied
  BY <1>4 DEF Occupied
<1>6. PICK img \in Images : WindowOf(current, img)
  BY <1>5 DEF MemInv, WindowInv
<1>7. x[1] = w /\ x[2] = pte[current][w]
  BY <1>3
<1>8. w < Len(pages[current])
  BY <1>6, <1>7 DEF WindowOf
<1>9. x[2].frame = pages[current][w + 1]
  <2>1. x[2] = Entry(pages[current][w + 1], PageWritable(img, w))
    BY <1>6, <1>7, <1>8 DEF WindowOf
  <2>2. PICK b \in BOOLEAN : b = PageWritable(img, w)
    BY ImageFacts
  <2>3. x[2] = Entry(pages[current][w + 1], b)
    BY <2>1, <2>2
  <2>4. QED
    BY <2>3 DEF Entry
<1>10. pages[current] \in Seq(Frames) /\ w \in Nat /\ w + 1 \in 1 .. Len(pages[current])
  <2>1. pages[current] \in Seq(Frames)
    BY <1>4 DEF MemInv, MemTypes
  <2>2. w \in Nat
    BY MemoryAssumption DEF Window
  <2>3. QED
    BY <1>8, <2>1, <2>2
<1>11. x[2].frame \in Range(pages[current])
  BY <1>9, <1>10, SeqFacts
<1>12. QED
  BY <1>2, <1>5, <1>7, <1>8, <1>11

\* Changes of state, CPU, cache and break that empty and fill no slot keep all
\* that is said of frames, windows and writers.
LEMMA FramesStay ==
  ASSUME MemInv, UNCHANGED <<free, tree, pte, pages, heapBase>>,
         \A t \in UserTasks : state'[t] = "empty" <=> state[t] = "empty"
  PROVE  /\ FramesPartitioned' /\ Occupied' = Occupied
         /\ \A t \in UserTasks : \A img : WindowOf(t, img)' <=> WindowOf(t, img)
         /\ UNCHANGED writers => WritersInv'
         /\ UNCHANGED brk => WindowInv'
<1>1. \A t \in UserTasks : Owned(t)' = Owned(t)
  BY DEF Owned, TreeFrames
<1>2. FramesPartitioned'
  BY <1>1 DEF MemInv, FramesPartitioned
<1>3. Occupied' = Occupied /\ Occupied \subseteq UserTasks
  BY DEF Occupied
<1>4. \A t \in UserTasks : \A img : WindowOf(t, img)' <=> WindowOf(t, img)
  BY DEF WindowOf, PageCount, PageAddr, Entry, PageWritable
<1>5. UNCHANGED writers => WritersInv'
  BY <1>3 DEF MemInv, WritersInv, TreeFrames
<1>6. UNCHANGED brk => WindowInv'
  BY <1>3, <1>4 DEF MemInv, WindowInv, HeapLimit, PageAddr
<1>7. QED
  BY <1>2, <1>3, <1>4, <1>5, <1>6

\* A switch loads cr3 and with it the window of the task that goes on; an exit
\* keeps the pages until the task is collected.
LEMMA SwitchMem == \A u \in UserTasks \cup {Kernel} : MemInv /\ (Switch(u) \/ Exit(u)) => MemInv'
<1> SUFFICES ASSUME NEW u \in UserTasks \cup {Kernel}, MemInv, Switch(u) \/ Exit(u) PROVE MemInv'
  OBVIOUS
<1>1. /\ current' = u /\ u \in Runnable \ {current} /\ tlb' = Loaded(u)
      /\ UNCHANGED <<free, tree, pte, pages, heapBase, brk, writers, halted>>
  BY DEF Switch, Exit
<1>2. /\ state \in [UserTasks -> {"empty", "live", "exited"}]
      /\ current # Kernel => current \in UserTasks /\ state[current] = "live"
  BY DEF MemInv, MemTypes, SlotsInv
<1>3. \/ state' = state
      \/ current # Kernel /\ state' = [state EXCEPT ![current] = "exited"]
  BY DEF Switch, Exit
<1>4. /\ state' \in [UserTasks -> {"empty", "live", "exited"}]
      /\ \A t \in UserTasks : state'[t] = "empty" <=> state[t] = "empty"
      /\ u # Kernel => state'[u] = "live"
  BY <1>1, <1>2, <1>3 DEF Runnable
<1>5. MemTypes'
  BY <1>1, <1>4 DEF MemInv, MemTypes
<1>6. SlotsInv'
  BY <1>1, <1>4 DEF MemInv, SlotsInv, TreeFrames
<1>7. FramesPartitioned' /\ WindowInv' /\ WritersInv'
  BY <1>1, <1>4, FramesStay
<1>8. TlbInv' /\ NoBadStop'
  BY <1>1 DEF MemInv, TlbInv, Loaded, NoBadStop
<1>9. QED
  BY <1>5, <1>6, <1>7, <1>8 DEF MemInv

\* scheduler_brk moves the break within the pages the heap has from the start.
LEMMA BrkMem == \A a \in MachineInts : MemInv /\ Brk(a) => MemInv'
<1> SUFFICES ASSUME NEW a \in MachineInts, MemInv, Brk(a) PROVE MemInv'
  OBVIOUS
<1>1. /\ current # Kernel /\ a >= heapBase[current] /\ a <= HeapLimit(current)
      /\ brk' = [brk EXCEPT ![current] = a]
      /\ UNCHANGED <<free, state, tree, pte, pages, heapBase, current, tlb, writers, halted>>
  BY DEF Brk
<1>2. a \in Int
  BY MemoryAssumption DEF MachineInts
<1>3. current \in UserTasks /\ brk \in [UserTasks -> Int] /\ heapBase \in [UserTasks -> Int]
  BY <1>1 DEF MemInv, MemTypes
<1>4. MemTypes'
  BY <1>1, <1>2, <1>3 DEF MemInv, MemTypes
<1>5. SlotsInv'
  BY <1>1 DEF MemInv, SlotsInv, TreeFrames
<1>6. FramesPartitioned' /\ WritersInv' /\ Occupied' = Occupied
  BY <1>1, FramesStay
<1>7. WindowInv'
  <2>1. ASSUME NEW t \in Occupied'
        PROVE  /\ \E img \in Images : WindowOf(t, img)'
               /\ brk'[t] \in heapBase'[t] .. HeapLimit(t)'
    <3>1. t \in Occupied /\ t \in UserTasks
      BY <1>6, <2>1 DEF Occupied
    <3>2. \E img \in Images : WindowOf(t, img)'
      BY <1>1, <3>1, FramesStay DEF MemInv, WindowInv
    <3>3. HeapLimit(t)' = HeapLimit(t) /\ HeapLimit(t) \in Int
      <4>1. pages[t] \in Seq(Frames)
        BY <3>1 DEF MemInv, MemTypes
      <4>2. Len(pages[t]) - 1 \in Int
        BY <4>1
      <4>3. QED
        BY <1>1, <4>2, PageOrder DEF HeapLimit, PageAddr
    <3>4. brk[t] \in heapBase[t] .. HeapLimit(t)
      BY <3>1 DEF MemInv, WindowInv
    <3>5. brk'[t] \in heapBase[t] .. HeapLimit(t)
      BY <1>1, <1>2, <1>3, <3>1, <3>3, <3>4
    <3>6. QED
      BY <1>1, <3>2, <3>3, <3>5
  <2>2. QED
    BY <2>1 DEF WindowInv
<1>8. TlbInv' /\ NoBadStop'
  BY <1>1 DEF MemInv, TlbInv, Loaded, NoBadStop
<1>9. QED
  BY <1>4, <1>5, <1>6, <1>7, <1>8 DEF MemInv

\* A program writes to its own pages; the partition keeps them apart from
\* everything else.
LEMMA ProgramWritesMem == MemInv /\ ProgramWrites => MemInv'
<1> SUFFICES ASSUME MemInv, ProgramWrites PROVE MemInv'
  OBVIOUS
<1>1. /\ current # Kernel
      /\ writers' = [f \in Frames |-> IF f \in Reached THEN writers[f] \cup {current}
                                      ELSE writers[f]]
      /\ UNCHANGED <<free, state, tree, pte, pages, heapBase, brk, current, tlb, halted>>
  BY DEF ProgramWrites
<1>2. /\ current \in UserTasks /\ state[current] = "live" /\ current \in Occupied
      /\ writers \in [Frames -> SUBSET (UserTasks \cup {Gone})]
  BY <1>1 DEF MemInv, MemTypes, SlotsInv, Occupied
<1>3. Reached \subseteq Range(pages[current])
  BY CachedIsOwn DEF Reached
<1>4. MemTypes'
  <2>1. writers' \in [Frames -> SUBSET (UserTasks \cup {Gone})]
    BY <1>1, <1>2
  <2>2. QED
    BY <1>1, <2>1 DEF MemInv, MemTypes
<1>5. SlotsInv'
  BY <1>1 DEF MemInv, SlotsInv, TreeFrames
<1>6. FramesPartitioned' /\ WindowInv' /\ Occupied' = Occupied
  BY <1>1, FramesStay
<1>7. WritersInv'
  <2>1. ASSUME NEW t \in Occupied
        PROVE  /\ \A f \in Range(pages[t]) : writers'[f] \subseteq {t}
               /\ \A f \in Range(TreeFrames(tree[t])) : writers'[f] = {}
    <3>1. /\ t \in UserTasks /\ state[t] # "empty"
          /\ \A f \in Range(pages[t]) : writers[f] \subseteq {t}
          /\ \A f \in Range(TreeFrames(tree[t])) : writers[f] = {}
      BY <2>1 DEF Occupied, MemInv, WritersInv
    <3>2. /\ Owned(t) = pages[t] \o TreeFrames(tree[t])
          /\ TreeFrames(tree[t]) \in Seq(Frames) /\ pages[t] \in Seq(Frames)
          /\ Owned(current) = pages[current] \o TreeFrames(tree[current])
          /\ TreeFrames(tree[current]) \in Seq(Frames) /\ pages[current] \in Seq(Frames)
      BY <1>2, <3>1, OwnedFacts DEF MemInv
    <3>3. /\ Range(Owned(t)) = Range(pages[t]) \cup Range(TreeFrames(tree[t]))
          /\ Range(Owned(current)) = Range(pages[current]) \cup Range(TreeFrames(tree[current]))
          /\ IsInjective(Owned(t)) => Range(pages[t]) \cap Range(TreeFrames(tree[t])) = {}
          /\ Range(pages[t]) \subseteq Frames /\ Range(TreeFrames(tree[t])) \subseteq Frames
      BY <3>2, InjectiveConcat, SeqFacts
    <3>4. IsInjective(Owned(t)) /\ (t # current => Range(Owned(t)) \cap Range(Owned(current)) = {})
      BY <1>2, <3>1 DEF MemInv, FramesPartitioned
    <3>5. t # current => Reached \cap Range(Owned(t)) = {}
      BY <1>3, <3>3, <3>4
    <3>6. Reached \cap Range(TreeFrames(tree[t])) = {}
      BY <1>3, <3>3, <3>4, <3>5
    <3>7. QED
      BY <1>1, <3>1, <3>3, <3>5, <3>6
  <2>2. QED
    BY <1>1, <1>6, <2>1 DEF WritersInv, TreeFrames
<1>8. TlbInv' /\ NoBadStop'
  BY <1>1 DEF MemInv, TlbInv, Loaded, NoBadStop
<1>9. QED
  BY <1>4, <1>5, <1>6, <1>7, <1>8 DEF MemInv

\* The page table of a task has a user entry for each of its pages.
LEMMA OwnEntries ==
  ASSUME MemInv, NEW t \in Occupied, NEW w \in Window, w < Len(pages[t])
  PROVE  pte[t][w].user /\ pte[t][w] # NoEntry
<1>1. PICK img \in Images : WindowOf(t, img)
  BY DEF MemInv, WindowInv
<1>2. PICK b \in BOOLEAN : b = PageWritable(img, w)
  BY ImageFacts
<1>3. pte[t][w] = Entry(pages[t][w + 1], b)
  BY <1>1, <1>2 DEF WindowOf
<1>4. pte[t][w].user
  BY <1>3 DEF Entry
<1>5. QED
  BY <1>4 DEF NoEntry

\* A buffer that passed syscall_validate_user_buffer lies in pages of the
\* program that runs.
LEMMA CheckedIsMapped ==
  ASSUME MemInv, NEW ptr \in MachineInts, NEW length \in Lengths,
         current # Kernel, ValidateUserBuffer(current, ptr, length)
  PROVE  BufferMapped(ptr, length)
<1>1. /\ length \in MachineInts /\ ptr \in Int /\ length \in Int
  BY MemoryAssumption DEF MachineInts
<1>2. /\ length >= 0 /\ Wrap(ptr + length) >= ptr
      /\ Wrap(ptr + length) <= UserLimit(current)
  BY DEF ValidateUserBuffer
<1>3. ptr + length <= UserLimit(current)
  BY <1>1, <1>2, WrapExact
<1>4. current \in UserTasks /\ state[current] = "live" /\ current \in Occupied
  BY DEF MemInv, MemTypes, SlotsInv, Occupied
<1>5. pages[current] \in Seq(Frames) /\ Len(pages[current]) \in Nat
  BY <1>4 DEF MemInv, MemTypes
<1>6. ASSUME NEW w \in BufferPages(ptr, length)
      PROVE  \E x \in BufferEntries(ptr, length) : x[1] = w /\ x[2].user
  <2>1. w \in Window /\ PageAddr(w) < ptr + length /\ w \in Int
    BY <1>6, MemoryAssumption DEF BufferPages, Window
  <2>2. UserLimit(current) \in Int /\ PageAddr(w) \in Int
    BY <1>5, <2>1, PageOrder DEF UserLimit
  <2>3. PageAddr(w) < PageAddr(Len(pages[current]))
    BY <1>1, <1>3, <2>1, <2>2 DEF UserLimit
  <2>4. w < Len(pages[current])
    BY <1>5, <2>1, <2>3, PageOrder
  <2>5. pte[current][w].user /\ pte[current][w] # NoEntry
    BY <1>4, <2>1, <2>4, OwnEntries
  <2>6. <<w, pte[current][w]>> \in tlb
    BY <2>1, <2>5 DEF MemInv, TlbInv, Loaded, Present
  <2>7. QED
    BY <1>6, <2>5, <2>6 DEF BufferEntries
<1>7. QED
  BY <1>6 DEF BufferMapped

\* A checked buffer lies in the window, so a copy stops the kernel only at a
\* page that is not writable.
LEMMA CopyStopsMem ==
  \A ptr \in MachineInts, length \in Lengths : MemInv /\ CopyStops(ptr, length) => MemInv'
<1> SUFFICES ASSUME NEW ptr \in MachineInts, NEW length \in Lengths, MemInv, CopyStops(ptr, length)
             PROVE  MemInv'
  OBVIOUS
<1>1. BufferMapped(ptr, length)
  BY CheckedIsMapped DEF CopyStops
<1>2. Panic("protected")
  BY <1>1 DEF CopyStops
<1>3. QED
  BY <1>2, PanicMem

-----------------------------------------------------------------------------
(***************************************************************************)
(* Steps that move frames.                                                 *)
(***************************************************************************)

\* Mapping the pages s of an image over a window that shows a program nothing.
LEMMA MappedFacts ==
  ASSUME NEW table \in [Window -> Entries], NEW img \in Images, NEW s \in Seq(Frames),
         Len(s) = PageCount(img), \A w \in Window : ~table[w].user
  PROVE  /\ Mapped(table, img, s) \in [Window -> Entries]
         /\ \A w \in Window :
              IF w < Len(s) THEN Mapped(table, img, s)[w] = Entry(s[w + 1], PageWritable(img, w))
              ELSE ~Mapped(table, img, s)[w].user
<1>1. ASSUME NEW w \in Window, w < Len(s)
      PROVE  Entry(s[w + 1], PageWritable(img, w)) \in Entries
  <2>1. w \in Nat /\ w + 1 \in 1 .. Len(s)
    BY <1>1, MemoryAssumption DEF Window
  <2>2. s[w + 1] \in Int
    BY <2>1, MemoryAssumption DEF Frames
  <2>3. PICK b \in BOOLEAN : b = PageWritable(img, w)
    BY ImageFacts
  <2>4. Entry(s[w + 1], b) \in Entries
    BY <2>2 DEF Entry, Entries
  <2>5. QED
    BY <2>3, <2>4
<1>2. \A w \in Window : Mapped(table, img, s)[w] =
        IF w < Len(s) THEN Entry(s[w + 1], PageWritable(img, w)) ELSE table[w]
  BY DEF Mapped
<1>3. Mapped(table, img, s) \in [Window -> Entries]
  BY <1>1 DEF Mapped
<1>4. QED
  BY <1>2, <1>3

\* The frames of an exited task go back; the slot owns nothing any more.
LEMMA CollectMem == \A c \in UserTasks : MemInv /\ Collect(c) => MemInv'
<1> SUFFICES ASSUME NEW c \in UserTasks, MemInv, Collect(c) PROVE MemInv'
  OBVIOUS
<1>1. /\ state[c] = "exited"
      /\ free' = Reverse(pages[c] \o TreeFrames(tree[c])) \o free
      /\ state' = [state EXCEPT ![c] = "empty"]
      /\ tree' = [tree EXCEPT ![c] = NoTree]
      /\ pte' = [pte EXCEPT ![c] = IdentityWindow]
      /\ pages' = [pages EXCEPT ![c] = <<>>]
      /\ heapBase' = [heapBase EXCEPT ![c] = 0]
      /\ brk' = [brk EXCEPT ![c] = 0]
      /\ writers' = [f \in Frames |-> IF c \in writers[f] THEN (writers[f] \ {c}) \cup {Gone}
                                      ELSE writers[f]]
      /\ UNCHANGED <<current, tlb, halted>>
  BY DEF Collect, Freed
<1>2. MemTypes /\ SlotsInv
  BY DEF MemInv
<1>3. /\ Owned(c) \in Seq(Frames) /\ Owned(c) = pages[c] \o TreeFrames(tree[c])
      /\ free \in Seq(Frames) /\ c # current
  BY <1>1, <1>2, OwnedFacts, MemoryAssumption DEF MemTypes, SlotsInv
<1>4. IsInjective(Owned(c)) /\ IsInjective(free) /\ Range(Owned(c)) \cap Range(free) = {}
  BY DEF MemInv, FramesPartitioned
<1>5. free' \in Seq(Frames) /\ Range(free') = Range(Owned(c)) \cup Range(free) /\ IsInjective(free')
  <2>1. /\ Reverse(Owned(c)) \in Seq(Frames) /\ Range(Reverse(Owned(c))) = Range(Owned(c))
        /\ IsInjective(Reverse(Owned(c)))
    BY <1>3, <1>4, InjectiveReverse
  <2>2. free' = Reverse(Owned(c)) \o free
    BY <1>1, <1>3
  <2>3. QED
    BY <1>3, <1>4, <2>1, <2>2, InjectiveConcat
<1>6. MemTypes'
  <2>1. NoTree \in Trees
    BY DEF NoTree, Trees
  <2>2. IdentityWindow \in [Window -> Entries]
    BY MemoryAssumption DEF IdentityWindow, Entries, Window
  <2>3. <<>> \in Seq(Frames)
    OBVIOUS
  <2>4. /\ tree' \in [UserTasks -> Trees] /\ pte' \in [UserTasks -> [Window -> Entries]]
        /\ pages' \in [UserTasks -> Seq(Frames)]
    BY <1>1, <1>2, <2>1, <2>2, <2>3 DEF MemTypes
  <2>5. /\ state' \in [UserTasks -> {"empty", "live", "exited"}]
        /\ heapBase' \in [UserTasks -> Int] /\ brk' \in [UserTasks -> Int]
        /\ current' \in UserTasks \cup {Kernel}
    BY <1>1, <1>2 DEF MemTypes
  <2>6. writers' \in [Frames -> SUBSET (UserTasks \cup {Gone})]
    BY <1>1, <1>2 DEF MemTypes
  <2>7. QED
    BY <1>5, <2>4, <2>5, <2>6 DEF MemTypes
<1>7. SlotsInv'
  BY <1>1, <1>2, <1>3 DEF MemTypes, SlotsInv, TreeFrames
<1>8. FramesPartitioned'
  <2>1. \A t \in UserTasks : t # c => Owned(t)' = Owned(t)
    BY <1>1, <1>2 DEF Owned, MemTypes, TreeFrames
  <2>2. Owned(c)' = <<>> /\ Range(<<>>) = {} /\ IsInjective(<<>>)
    BY <1>1, <1>2 DEF Owned, MemTypes, Range, IsInjective
  <2>3. FramesPartitioned
    BY DEF MemInv
  <2>4. QED
    BY <1>5, <2>1, <2>2, <2>3, Transfer
<1>9. \A t \in Occupied' : t \in Occupied /\ t # c /\ t \in UserTasks
  BY <1>1, <1>2 DEF Occupied, MemTypes
<1>10. WindowInv'
  <2>1. ASSUME NEW t \in Occupied'
        PROVE  (\E img \in Images : WindowOf(t, img)') /\ brk'[t] \in heapBase'[t] .. HeapLimit(t)'
    <3>1. /\ pages'[t] = pages[t] /\ pte'[t] = pte[t] /\ heapBase'[t] = heapBase[t]
          /\ brk'[t] = brk[t]
      BY <1>1, <1>2, <1>9, <2>1 DEF MemTypes
    <3>2. PICK img \in Images : WindowOf(t, img)
      BY <1>9, <2>1 DEF MemInv, WindowInv
    <3>3. WindowOf(t, img)'
      BY <3>1, <3>2 DEF WindowOf
    <3>4. brk[t] \in heapBase[t] .. HeapLimit(t)
      BY <1>9, <2>1 DEF MemInv, WindowInv
    <3>5. QED
      BY <3>1, <3>3, <3>4 DEF HeapLimit
  <2>2. QED
    BY <2>1 DEF WindowInv
<1>11. TlbInv' /\ NoBadStop'
  <2>1. current = Kernel \/ pte'[current] = pte[current]
    BY <1>1, <1>2, <1>3 DEF MemTypes
  <2>2. QED
    BY <1>1, <2>1 DEF MemInv, TlbInv, Loaded, NoBadStop
<1>12. WritersInv'
  <2>1. ASSUME NEW t \in Occupied'
        PROVE  /\ \A f \in Range(pages'[t]) : writers'[f] \subseteq {t}
               /\ \A f \in Range(TreeFrames(tree'[t])) : writers'[f] = {}
    <3>1. /\ t \in UserTasks /\ t # c /\ state[t] # "empty" /\ t \in Occupied
          /\ pages'[t] = pages[t] /\ tree'[t] = tree[t]
      BY <1>1, <1>2, <1>9, <2>1 DEF Occupied, MemTypes
    <3>2. Range(pages[t]) \subseteq Frames /\ Range(TreeFrames(tree[t])) \subseteq Frames
      BY <1>2, <3>1, OwnedFacts, SeqFacts
    <3>3. /\ \A f \in Range(pages[t]) : writers[f] \subseteq {t}
          /\ \A f \in Range(TreeFrames(tree[t])) : writers[f] = {}
      BY <3>1 DEF MemInv, WritersInv
    <3>4. QED
      BY <1>1, <3>1, <3>2, <3>3
  <2>2. QED
    BY <2>1 DEF WritersInv, TreeFrames
<1>13. QED
  BY <1>6, <1>7, <1>8, <1>10, <1>11, <1>12 DEF MemInv

\* A task t that has just got the pages s for the image img, and nobody else
\* anything new.
LEMMA ImageLoaded ==
  ASSUME MemInv, NEW t \in UserTasks, NEW img \in Images, NEW s \in Seq(Frames),
         Len(s) = PageCount(img),
         NEW before \in [Window -> Entries], \A w \in Window : ~before[w].user,
         pages' = [pages EXCEPT ![t] = s],
         pte' = [pte EXCEPT ![t] = Mapped(before, img, s)],
         heapBase' = [heapBase EXCEPT ![t] = PageAddr(img.pages)],
         brk' = [brk EXCEPT ![t] = PageAddr(img.pages)],
         Occupied' = Occupied \cup {t}
  PROVE  /\ pages' \in [UserTasks -> Seq(Frames)]
         /\ pte' \in [UserTasks -> [Window -> Entries]]
         /\ heapBase' \in [UserTasks -> Int] /\ brk' \in [UserTasks -> Int]
         /\ WindowInv'
<1>1. /\ pages \in [UserTasks -> Seq(Frames)] /\ pte \in [UserTasks -> [Window -> Entries]]
      /\ heapBase \in [UserTasks -> Int] /\ brk \in [UserTasks -> Int]
  BY DEF MemInv, MemTypes
<1>2. /\ Mapped(before, img, s) \in [Window -> Entries]
      /\ \A w \in Window :
           IF w < Len(s) THEN Mapped(before, img, s)[w] = Entry(s[w + 1], PageWritable(img, w))
           ELSE ~Mapped(before, img, s)[w].user
  BY MappedFacts
<1>3. /\ img.pages \in Int /\ HeapPages \in Nat
      /\ Len(s) - 1 \in Int /\ Len(s) - 1 = img.pages + HeapPages
  BY ImageFacts
<1>4. PageAddr(img.pages) \in Int
  BY <1>3, PageOrder
<1>5. /\ pages' \in [UserTasks -> Seq(Frames)] /\ pte' \in [UserTasks -> [Window -> Entries]]
      /\ heapBase' \in [UserTasks -> Int] /\ brk' \in [UserTasks -> Int]
  BY <1>1, <1>2, <1>4
<1>6. /\ pages'[t] = s /\ pte'[t] = Mapped(before, img, s)
      /\ heapBase'[t] = PageAddr(img.pages) /\ brk'[t] = PageAddr(img.pages)
  BY <1>1
<1>7. WindowOf(t, img)'
  BY <1>2, <1>6 DEF WindowOf
<1>8. brk'[t] \in heapBase'[t] .. HeapLimit(t)'
  <2>1. HeapLimit(t)' = PageAddr(Len(s) - 1)
    BY <1>6 DEF HeapLimit
  <2>2. PageAddr(Len(s) - 1) \in Int /\ ~(PageAddr(Len(s) - 1) < PageAddr(img.pages))
    <3>1. ~(Len(s) - 1 < img.pages)
      BY <1>3
    <3>2. QED
      BY <1>3, <3>1, PageOrder
  <2>3. QED
    BY <1>4, <1>6, <2>1, <2>2
<1>9. ASSUME NEW u \in Occupied', u # t
      PROVE  (\E i \in Images : WindowOf(u, i)') /\ brk'[u] \in heapBase'[u] .. HeapLimit(u)'
  <2>1. u \in Occupied /\ u \in UserTasks
    BY <1>9 DEF Occupied
  <2>2. /\ pages'[u] = pages[u] /\ pte'[u] = pte[u] /\ heapBase'[u] = heapBase[u]
        /\ brk'[u] = brk[u]
    BY <1>1, <1>9, <2>1
  <2>3. PICK i \in Images : WindowOf(u, i)
    BY <2>1 DEF MemInv, WindowInv
  <2>4. WindowOf(u, i)'
    BY <2>2, <2>3 DEF WindowOf
  <2>5. brk[u] \in heapBase[u] .. HeapLimit(u)
    BY <2>1 DEF MemInv, WindowInv
  <2>6. QED
    BY <2>2, <2>4, <2>5 DEF HeapLimit
<1>10. WindowInv'
  BY <1>7, <1>8, <1>9 DEF WindowInv
<1>11. QED
  BY <1>5, <1>10

\* exec takes pages for the new image before it gives the old ones back, and
\* finds an entry for every page it unmaps.
LEMMA ExecMem == \A img \in Images : MemInv /\ Exec(img) => MemInv'
<1> SUFFICES ASSUME NEW img \in Images, MemInv, Exec(img) PROVE MemInv'
  OBVIOUS
<1>1. current # Kernel
  BY DEF Exec
<1>2. MemTypes /\ SlotsInv /\ FramesPartitioned
  BY DEF MemInv
<1>3. current \in UserTasks /\ state[current] = "live" /\ current \in Occupied
  BY <1>1, <1>2 DEF MemTypes, SlotsInv, Occupied
<1>0. PICK c \in UserTasks : c = current
  BY <1>3
<1> DEFINE n == PageCount(img)
           got == SubSeq(free, 1, n)
           rest == SubSeq(free, n + 1, Len(free))
           old == pages[c]
           tf == TreeFrames(tree[c])
<1>4. ~UnmapPanics(current)
  BY <1>3, OwnEntries DEF UnmapPanics
<1>5. CASE Len(free) < n
  BY <1>5, PanicMem DEF Exec
<1>6. CASE ~(Len(free) < n)
  <2>1. /\ free' = Reverse(old) \o rest
        /\ writers' = Zeroed(got)
        /\ pages' = [pages EXCEPT ![current] = got]
        /\ pte' = [pte EXCEPT ![current] = Mapped(Unmapped(current), img, got)]
        /\ heapBase' = [heapBase EXCEPT ![current] = PageAddr(img.pages)]
        /\ brk' = [brk EXCEPT ![current] = PageAddr(img.pages)]
        /\ tlb' = Present(Mapped(Unmapped(current), img, got))
        /\ UNCHANGED <<state, tree, current, halted>>
    BY <1>0, <1>4, <1>6 DEF Exec, Taken, Left, BreakAfterExec
  <2>2. /\ free \in Seq(Frames) /\ old \in Seq(Frames) /\ tf \in Seq(Frames)
        /\ Owned(c) = old \o tf
    BY <1>0, <1>2, <1>3, OwnedFacts DEF MemTypes
  <2>3. n \in 0 .. Len(free)
    BY <1>6, <2>2, ImageFacts
  <2>4. /\ got \in Seq(Frames) /\ Len(got) = n /\ rest \in Seq(Frames)
        /\ Range(free) = Range(got) \cup Range(rest)
        /\ IsInjective(got) /\ IsInjective(rest) /\ Range(got) \cap Range(rest) = {}
    BY <1>2, <2>2, <2>3, InjectiveSplit DEF FramesPartitioned
  <2>5. /\ Range(Owned(c)) = Range(old) \cup Range(tf)
        /\ IsInjective(old) /\ IsInjective(tf) /\ Range(old) \cap Range(tf) = {}
        /\ Range(Owned(c)) \cap Range(free) = {}
    <3>1. IsInjective(Owned(c)) /\ Range(Owned(c)) \cap Range(free) = {}
      BY <1>2 DEF FramesPartitioned
    <3> HIDE DEF old, tf
    <3>2. QED
      BY <2>2, <3>1, InjectiveConcat
  <2> HIDE DEF got, rest, n, old, tf
  <2>6. /\ free' \in Seq(Frames) /\ Range(free') = Range(old) \cup Range(rest)
        /\ IsInjective(free')
    <3>1. /\ Reverse(old) \in Seq(Frames) /\ Range(Reverse(old)) = Range(old)
          /\ IsInjective(Reverse(old))
      BY <2>2, <2>5, InjectiveReverse
    <3>2. Range(old) \cap Range(rest) = {}
      BY <2>4, <2>5
    <3>3. QED
      BY <2>1, <2>4, <3>1, <3>2, InjectiveConcat
  <2>7. Owned(c)' = got \o tf
    BY <1>0, <1>2, <1>3, <2>1 DEF Owned, MemTypes, TreeFrames, tf
  <2>8. /\ Range(Owned(c)') = Range(got) \cup Range(tf) /\ IsInjective(Owned(c)')
    <3>1. Range(got) \cap Range(tf) = {}
      BY <2>4, <2>5
    <3>2. QED
      BY <2>2, <2>4, <2>5, <2>7, <3>1, InjectiveConcat
  <2>9. FramesPartitioned'
    <3>1. \A t \in UserTasks : t # c => Owned(t)' = Owned(t)
      BY <1>0, <1>2, <1>3, <2>1 DEF Owned, MemTypes, TreeFrames
    <3>2. Range(free') \cap Range(Owned(c)') = {}
      BY <2>4, <2>5, <2>6, <2>8
    <3>3. Range(free') \cup Range(Owned(c)') = Range(free) \cup Range(Owned(c))
      BY <2>4, <2>5, <2>6, <2>8
    <3>4. QED
      BY <1>2, <1>3, <2>6, <2>8, <3>1, <3>2, <3>3, Transfer
  <2>10. Occupied' = Occupied \cup {current} /\ Occupied' = Occupied
    BY <1>3, <2>1 DEF Occupied
  <2>11. Unmapped(current) \in [Window -> Entries] /\ \A w \in Window : ~Unmapped(current)[w].user
    <3>1. NoEntry \in Entries /\ ~NoEntry.user
      BY DEF NoEntry, Entries
    <3>2. PICK i \in Images : WindowOf(current, i)
      BY <1>3 DEF MemInv, WindowInv
    <3>3. pte[current] \in [Window -> Entries]
      BY <1>2, <1>3 DEF MemTypes
    <3>4. \A w \in Window : ~(w < Len(pages[current])) => ~pte[current][w].user
      BY <3>2 DEF WindowOf
    <3>5. QED
      BY <3>1, <3>3, <3>4 DEF Unmapped
  <2>12. /\ pages' \in [UserTasks -> Seq(Frames)] /\ pte' \in [UserTasks -> [Window -> Entries]]
         /\ heapBase' \in [UserTasks -> Int] /\ brk' \in [UserTasks -> Int]
         /\ WindowInv'
    BY <1>3, <2>1, <2>4, <2>10, <2>11, ImageLoaded DEF n
  <2>13. \A f \in Frames : writers'[f] = IF f \in Range(got) THEN {} ELSE writers[f]
    BY <2>1 DEF Zeroed
  <2>14. MemTypes'
    <3>1. writers' \in [Frames -> SUBSET (UserTasks \cup {Gone})]
      BY <1>2, <2>1 DEF Zeroed, MemTypes
    <3>2. QED
      BY <1>2, <2>1, <2>6, <2>12, <3>1 DEF MemTypes
  <2>15. SlotsInv'
    BY <1>2, <1>3, <2>1, <2>12 DEF MemTypes, SlotsInv, TreeFrames
  <2>16. TlbInv' /\ NoBadStop'
    <3>1. pte'[current] = Mapped(Unmapped(current), img, got)
      BY <1>2, <1>3, <2>1 DEF MemTypes
    <3>2. QED
      BY <1>1, <2>1, <3>1 DEF MemInv, TlbInv, Loaded, NoBadStop
  <2>17. WritersInv'
    <3>1. ASSUME NEW t \in Occupied
          PROVE  /\ \A f \in Range(pages'[t]) : writers'[f] \subseteq {t}
                 /\ \A f \in Range(TreeFrames(tree[t])) : writers'[f] = {}
      <4>1. t \in UserTasks /\ state[t] # "empty"
        BY <3>1 DEF Occupied
      <4>2. Range(pages[t]) \subseteq Frames /\ Range(TreeFrames(tree[t])) \subseteq Frames
        BY <1>2, <4>1, OwnedFacts, SeqFacts
      <4>3. /\ \A f \in Range(pages[t]) : writers[f] \subseteq {t}
            /\ \A f \in Range(TreeFrames(tree[t])) : writers[f] = {}
        BY <3>1 DEF MemInv, WritersInv
      <4>4. Range(got) \subseteq Frames
        BY <2>4, SeqFacts
      <4>5. \A f \in Range(TreeFrames(tree[t])) : writers'[f] = {}
        BY <2>13, <4>2, <4>3
      <4>6. \A f \in Range(pages'[t]) : writers'[f] \subseteq {t}
        <5>1. CASE t = current
          <6>1. pages'[t] = got
            BY <1>2, <1>3, <2>1, <5>1 DEF MemTypes
          <6>2. QED
            BY <2>13, <4>4, <6>1
        <5>2. CASE t # current
          <6>1. pages'[t] = pages[t]
            BY <1>2, <2>1, <4>1, <5>2 DEF MemTypes
          <6>2. QED
            BY <2>13, <4>2, <4>3, <6>1
        <5>3. QED
          BY <5>1, <5>2
      <4>7. QED
        BY <4>5, <4>6
    <3>2. QED
      BY <2>1, <2>10, <3>1 DEF WritersInv, TreeFrames
  <2>18. QED
    BY <2>9, <2>12, <2>14, <2>15, <2>16, <2>17 DEF MemInv
<1>7. QED
  BY <1>5, <1>6

\* A slice of a sequence without repetition has the elements at its positions.
LEMMA Slice ==
  ASSUME NEW S, NEW s \in Seq(S), IsInjective(s),
         NEW i \in Nat, i >= 1, NEW j \in Nat, i - 1 <= j, j <= Len(s)
  PROVE  /\ SubSeq(s, i, j) \in Seq(S) /\ Len(SubSeq(s, i, j)) = (j - i) + 1
         /\ Range(SubSeq(s, i, j)) = {s[k] : k \in i .. j}
         /\ IsInjective(SubSeq(s, i, j))
<1> DEFINE u == SubSeq(s, i, j)
<1>1. /\ u \in Seq(S) /\ Len(u) = (j - i) + 1 /\ Len(u) \in Nat
      /\ \A k \in 1 .. (j - i) + 1 : u[k] = s[(i + k) - 1]
  OBVIOUS
<1> HIDE DEF u
<1>2. \A k \in 1 .. Len(u) : \E m \in i .. j : m = (i + k) - 1 /\ u[k] = s[m]
  BY <1>1
<1>3. \A m \in i .. j : \E k \in 1 .. Len(u) : m = (i + k) - 1 /\ u[k] = s[m]
  <2>1. ASSUME NEW m \in i .. j PROVE \E k \in 1 .. Len(u) : m = (i + k) - 1 /\ u[k] = s[m]
    <3>1. (m - i) + 1 \in 1 .. Len(u) /\ m = (i + ((m - i) + 1)) - 1
      BY <1>1
    <3>2. QED
      BY <1>1, <3>1
  <2>2. QED
    BY <2>1
<1>4. Range(u) = {u[k] : k \in 1 .. Len(u)}
  BY <1>1, SeqFacts
<1>5. Range(u) = {s[k] : k \in i .. j}
  <2>1. Range(u) \subseteq {s[k] : k \in i .. j}
    BY <1>2, <1>4
  <2>2. {s[k] : k \in i .. j} \subseteq Range(u)
    BY <1>3, <1>4
  <2>3. QED
    BY <2>1, <2>2
<1>6. IsInjective(u)
  <2>1. \A a, b \in 1 .. Len(s) : s[a] = s[b] => a = b
    BY SeqFacts
  <2>2. ASSUME NEW a \in 1 .. Len(u), NEW b \in 1 .. Len(u), u[a] = u[b] PROVE a = b
    <3>1. PICK m \in i .. j : m = (i + a) - 1 /\ u[a] = s[m]
      BY <1>2
    <3>2. PICK p \in i .. j : p = (i + b) - 1 /\ u[b] = s[p]
      BY <1>2
    <3>3. m \in 1 .. Len(s) /\ p \in 1 .. Len(s)
      OBVIOUS
    <3>4. m = p
      BY <2>1, <2>2, <3>1, <3>2, <3>3
    <3>5. QED
      BY <3>1, <3>2, <3>4
  <2>3. QED
    BY <1>1, <2>2, SeqFacts
<1>7. QED
  BY <1>1, <1>5, <1>6 DEF u

\* The tree that Spawn builds from the first frames of the allocator, with n
\* pages between its tables.
SpawnTree(n) ==
  [p4 |-> Taken(RootFrames)[1], p3 |-> Taken(RootFrames)[2],
   p2 |-> SubSeq(Taken(RootFrames), 3, RootFrames), pt |-> free[RootFrames + n + 1]]
SpawnPages(n) == SubSeq(free, RootFrames + 1, RootFrames + n)

\* What Spawn takes from the allocator: the tree and the pages of the new task
\* are the first frames, in another order.
LEMMA SpawnFrames ==
  ASSUME MemInv, NEW n \in Nat, NEW need \in Nat, need = RootFrames + n + 1, ~(Len(free) < need)
  PROVE  /\ SpawnTree(n) \in Trees /\ TreeFrames(SpawnTree(n)) \in Seq(Frames)
         /\ SpawnPages(n) \in Seq(Frames) /\ Len(SpawnPages(n)) = n
         /\ IsInjective(SpawnPages(n) \o TreeFrames(SpawnTree(n)))
         /\ Range(SpawnPages(n) \o TreeFrames(SpawnTree(n))) = Range(Taken(need))
         /\ Range(SpawnPages(n)) \subseteq Range(Taken(need))
         /\ Range(TreeFrames(SpawnTree(n))) \subseteq Range(Taken(need))
         /\ Left(need) \in Seq(Frames) /\ IsInjective(Left(need))
         /\ Range(Taken(need)) \cap Range(Left(need)) = {}
         /\ Range(free) = Range(Taken(need)) \cup Range(Left(need))
         /\ Range(Taken(need)) \subseteq Frames
<1>0. RootFrames \in Nat /\ RootFrames >= 3
  BY MemoryAssumption DEF RootFrames
<1>1. /\ free \in Seq(Frames) /\ IsInjective(free) /\ Len(free) \in Nat /\ need <= Len(free)
  <2>1. free \in Seq(Frames) /\ IsInjective(free)
    BY DEF MemInv, MemTypes, FramesPartitioned
  <2>2. QED
    BY <2>1
<1> DEFINE root == Taken(RootFrames)
           got == SpawnPages(n)
           r == SpawnTree(n)
<1>2. /\ \A i, j \in 1 .. Len(free) : free[i] = free[j] => i = j
      /\ \A i \in 1 .. Len(free) : free[i] \in Frames
  BY <1>1, SeqFacts
<1>3. /\ Left(need) \in Seq(Frames) /\ IsInjective(Left(need))
      /\ Range(Taken(need)) \cap Range(Left(need)) = {}
      /\ Range(free) = Range(Taken(need)) \cup Range(Left(need))
  <2>1. need \in 0 .. Len(free)
    BY <1>1
  <2>2. QED
    BY <1>1, <2>1, InjectiveSplit DEF Taken, Left
<1>4. Range(Taken(need)) = {free[k] : k \in 1 .. need}
  <2>1. 1 - 1 <= need
    OBVIOUS
  <2>2. QED
    BY <1>1, <2>1, Slice DEF Taken
<1>5. /\ got \in Seq(Frames) /\ Len(got) = n /\ IsInjective(got)
      /\ Range(got) = {free[k] : k \in RootFrames + 1 .. RootFrames + n}
  <2>1. /\ RootFrames + 1 \in Nat /\ RootFrames + 1 >= 1 /\ RootFrames + n \in Nat
        /\ (RootFrames + 1) - 1 <= RootFrames + n /\ RootFrames + n <= Len(free)
        /\ ((RootFrames + n) - (RootFrames + 1)) + 1 = n
    BY <1>0, <1>1
  <2>2. QED
    BY <1>1, <2>1, Slice DEF SpawnPages
<1> HIDE DEF got
<1>6. /\ root \in Seq(Frames) /\ Len(root) = RootFrames
      /\ \A k \in 1 .. RootFrames : root[k] = free[k]
  BY <1>0, <1>1 DEF Taken
<1> DEFINE p2 == SubSeq(root, 3, RootFrames)
<1>7. /\ p2 \in Seq(Frames) /\ IsInjective(p2)
      /\ Range(p2) = {free[k] : k \in 3 .. RootFrames}
  <2>1. IsInjective(root)
    <3>1. 1 - 1 <= RootFrames /\ RootFrames <= Len(free)
      BY <1>0, <1>1
    <3>2. QED
      BY <1>0, <1>1, <3>1, Slice DEF Taken
  <2> HIDE DEF root
  <2>2. p2 \in Seq(Frames) /\ IsInjective(p2) /\ Range(p2) = {root[k] : k \in 3 .. RootFrames}
    <3>1. 3 - 1 <= RootFrames /\ RootFrames <= Len(root)
      BY <1>0, <1>6
    <3>2. QED
      BY <1>0, <1>6, <2>1, <3>1, Slice
  <2>3. \A k \in 3 .. RootFrames : root[k] = free[k]
    BY <1>0, <1>6
  <2> HIDE DEF p2
  <2>4. QED
    BY <2>2, <2>3
<1> DEFINE p4 == free[1]
           p3 == free[2]
           pt == free[need]
<1>8. r = [p4 |-> p4, p3 |-> p3, p2 |-> p2, pt |-> pt]
  <2>1. root[1] = p4 /\ root[2] = p3
    BY <1>0, <1>6
  <2>2. QED
    BY <2>1 DEF SpawnTree
<1> HIDE DEF p2, r, root
<1>9. /\ p4 \in Frames /\ p3 \in Frames /\ pt \in Frames /\ p4 # p3
      /\ \A k \in 3 .. RootFrames + n : free[k] # p4 /\ free[k] # p3 /\ free[k] # pt
      /\ pt # p3 /\ pt # p4
  <2>1. /\ 1 \in 1 .. Len(free) /\ 2 \in 1 .. Len(free) /\ need \in 1 .. Len(free)
        /\ need # 1 /\ need # 2
        /\ \A k \in 3 .. RootFrames + n : k \in 1 .. Len(free) /\ k # 1 /\ k # 2 /\ k # need
    BY <1>0, <1>1
  <2>2. QED
    BY <1>2, <2>1
<1>10. \A k \in RootFrames + 1 .. RootFrames + n, m \in 3 .. RootFrames : free[k] # free[m]
  <2>1. \A k \in RootFrames + 1 .. RootFrames + n, m \in 3 .. RootFrames :
          k \in 1 .. Len(free) /\ m \in 1 .. Len(free) /\ k # m
    BY <1>0, <1>1
  <2>2. QED
    BY <1>2, <2>1
<1> HIDE DEF p4, p3, pt
<1>11. r \in Trees
  <2>1. Frames \subseteq Nat
    BY MemoryAssumption DEF Frames
  <2>2. p2 \in Seq(Nat)
    BY <1>7, <2>1, SeqMonotonic
  <2>3. QED
    BY <1>8, <1>9, <2>1, <2>2 DEF Trees
<1> DEFINE a == <<pt>>
           z == <<p3, p4>>
<1>12. TreeFrames(r) = (a \o p2) \o z
  <2>1. r.pt = pt /\ r.p2 = p2 /\ r.p3 = p3 /\ r.p4 = p4
    BY <1>8
  <2>2. QED
    BY <2>1 DEF TreeFrames
<1>13. /\ a \in Seq(Frames) /\ Range(a) = {pt} /\ IsInjective(a)
       /\ z \in Seq(Frames) /\ Range(z) = {p3, p4} /\ IsInjective(z)
  <2>1. a \in Seq(Frames) /\ z \in Seq(Frames)
    BY <1>9
  <2>2. /\ Range(a) = {pt} /\ IsInjective(a)
    <3>1. DOMAIN a = {1}
      OBVIOUS
    <3>2. QED
      BY <3>1 DEF Range, IsInjective
  <2>3. Range(z) = {p3, p4} /\ IsInjective(z)
    BY <1>9 DEF Range, IsInjective
  <2>4. QED
    BY <2>1, <2>2, <2>3
<1> HIDE DEF a, z
<1>14. pt \notin Range(p2) /\ p3 \notin Range(p2) /\ p4 \notin Range(p2)
  <2>1. \A k \in 3 .. RootFrames : k \in 3 .. RootFrames + n
    BY <1>0
  <2>2. QED
    BY <1>7, <1>9, <2>1
<1>15. /\ a \o p2 \in Seq(Frames) /\ Range(a \o p2) = {pt} \cup Range(p2)
       /\ IsInjective(a \o p2)
  <2>1. Range(a) \cap Range(p2) = {}
    BY <1>13, <1>14
  <2>2. QED
    BY <1>7, <1>13, <2>1, InjectiveConcat
<1>16. /\ TreeFrames(r) \in Seq(Frames)
       /\ Range(TreeFrames(r)) = {pt, p3, p4} \cup Range(p2) /\ IsInjective(TreeFrames(r))
  <2>1. ({pt} \cup Range(p2)) \cap {p3, p4} = {}
    BY <1>9, <1>14
  <2> DEFINE ap == a \o p2
  <2> HIDE DEF ap
  <2>2. /\ TreeFrames(r) \in Seq(Frames) /\ IsInjective(TreeFrames(r))
        /\ Range(TreeFrames(r)) = ({pt} \cup Range(p2)) \cup {p3, p4}
    <3>1. /\ ap \in Seq(Frames) /\ Range(ap) \cap Range(z) = {} /\ IsInjective(ap)
          /\ Range(ap) = {pt} \cup Range(p2) /\ TreeFrames(r) = ap \o z
      <4>1. TreeFrames(r) = ap \o z
        BY <1>12 DEF ap
      <4>2. ap \in Seq(Frames) /\ Range(ap) = {pt} \cup Range(p2) /\ IsInjective(ap)
        BY <1>15 DEF ap
      <4>3. QED
        BY <1>13, <2>1, <4>1, <4>2
    <3>2. z \in Seq(Frames) /\ IsInjective(z) /\ Range(z) = {p3, p4}
      BY <1>13
    <3>3. /\ ap \o z \in Seq(Frames) /\ IsInjective(ap \o z)
          /\ Range(ap \o z) = Range(ap) \cup Range(z)
      BY <3>1, <3>2, InjectiveConcat
    <3>4. QED
      BY <3>1, <3>2, <3>3
  <2>3. QED
    BY <2>2
<1>17. Range(got) \cap Range(TreeFrames(r)) = {}
  <2>1. Range(got) \cap Range(p2) = {}
    BY <1>5, <1>7, <1>10
  <2>2. pt \notin Range(got) /\ p3 \notin Range(got) /\ p4 \notin Range(got)
    <3>1. \A k \in RootFrames + 1 .. RootFrames + n : k \in 3 .. RootFrames + n
      BY <1>0
    <3>2. QED
      BY <1>5, <1>9, <3>1
  <2>3. QED
    BY <1>16, <2>1, <2>2
<1>18. Range(got) \cup Range(TreeFrames(r)) = {free[k] : k \in 1 .. need}
  <2>1. Range(got) \subseteq {free[k] : k \in 1 .. need}
    BY <1>0, <1>5
  <2>2. Range(p2) \subseteq {free[k] : k \in 1 .. need}
    BY <1>0, <1>7
  <2>3. {pt, p3, p4} \subseteq {free[k] : k \in 1 .. need}
    BY <1>0 DEF pt, p3, p4
  <2>4. ASSUME NEW k \in 1 .. need PROVE free[k] \in Range(got) \cup ({pt, p3, p4} \cup Range(p2))
    <3>1. k = 1 \/ k = 2 \/ k = need \/ k \in 3 .. RootFrames \/ k \in RootFrames + 1 .. RootFrames + n
      BY <1>0
    <3>2. QED
      BY <1>5, <1>7, <3>1 DEF pt, p3, p4
  <2>5. QED
    BY <1>16, <2>1, <2>2, <2>3, <2>4
<1>19. /\ IsInjective(got \o TreeFrames(r))
       /\ Range(got \o TreeFrames(r)) = Range(got) \cup Range(TreeFrames(r))
  BY <1>5, <1>16, <1>17, InjectiveConcat
<1>20. Range(Taken(need)) \subseteq Frames
  BY <1>1, <1>2, <1>4
<1>21. QED
  BY <1>3, <1>4, <1>5, <1>11, <1>16, <1>18, <1>19, <1>20 DEF got, r

\* A spawn takes the frames of pages and tables, or gives all back it took.
LEMMA SpawnMem == \A c \in UserTasks, img \in Images : MemInv /\ Spawn(c, img) => MemInv'
<1> SUFFICES ASSUME NEW c \in UserTasks, NEW img \in Images, MemInv, Spawn(c, img) PROVE MemInv'
  OBVIOUS
<1> DEFINE n == PageCount(img)
           need == RootFrames + n + 1
           got == SpawnPages(n)
           r == SpawnTree(n)
<1>1. MemTypes /\ SlotsInv /\ FramesPartitioned /\ state[c] = "empty"
  BY DEF MemInv, Spawn
<1>2. n \in Nat /\ need \in Nat
  BY ImageFacts, MemoryAssumption DEF RootFrames
<1>3. CASE Len(free) < need
  BY <1>3, PanicMem DEF Spawn
<1>4. CASE ~(Len(free) < need)
  <2>1. /\ free' = Left(need)
        /\ tree' = [tree EXCEPT ![c] = r]
        /\ writers' = Zeroed(Taken(need))
        /\ pages' = [pages EXCEPT ![c] = got]
        /\ pte' = [pte EXCEPT ![c] = Mapped(IdentityWindow, img, got)]
        /\ heapBase' = [heapBase EXCEPT ![c] = PageAddr(img.pages)]
        /\ brk' = [brk EXCEPT ![c] = PageAddr(img.pages)]
        /\ state' = [state EXCEPT ![c] = "live"]
        /\ UNCHANGED <<current, tlb, halted>>
    BY <1>4 DEF Spawn, SpawnTree, SpawnPages
  <2>2. /\ r \in Trees /\ TreeFrames(r) \in Seq(Frames)
        /\ got \in Seq(Frames) /\ Len(got) = n
        /\ IsInjective(got \o TreeFrames(r))
        /\ Range(got \o TreeFrames(r)) = Range(Taken(need))
        /\ Range(got) \subseteq Range(Taken(need))
        /\ Range(TreeFrames(r)) \subseteq Range(Taken(need))
        /\ Left(need) \in Seq(Frames) /\ IsInjective(Left(need))
        /\ Range(Taken(need)) \cap Range(Left(need)) = {}
        /\ Range(free) = Range(Taken(need)) \cup Range(Left(need))
        /\ Range(Taken(need)) \subseteq Frames
    BY <1>2, <1>4, SpawnFrames
  <2> HIDE DEF n, need, got, r
  <2>3. FramesPartitioned'
    <3>1. \A t \in UserTasks : t # c => Owned(t)' = Owned(t)
      BY <1>1, <2>1 DEF Owned, MemTypes, TreeFrames
    <3>2. Owned(c)' = got \o TreeFrames(r)
      BY <1>1, <2>1 DEF Owned, MemTypes, TreeFrames
    <3>3. Range(Owned(c)) = {}
      BY <1>1, OwnedFacts
    <3>4. QED
      BY <1>1, <2>1, <2>2, <3>1, <3>2, <3>3, Transfer
  <2>4. Occupied' = Occupied \cup {c} /\ c \notin Occupied
    BY <1>1, <2>1 DEF Occupied, MemTypes
  <2>5. IdentityWindow \in [Window -> Entries] /\ \A w \in Window : ~IdentityWindow[w].user
    BY MemoryAssumption DEF IdentityWindow, Entries, Window
  <2>6. /\ pages' \in [UserTasks -> Seq(Frames)] /\ pte' \in [UserTasks -> [Window -> Entries]]
        /\ heapBase' \in [UserTasks -> Int] /\ brk' \in [UserTasks -> Int]
        /\ WindowInv'
    BY <2>1, <2>2, <2>4, <2>5, ImageLoaded DEF n
  <2>7. \A f \in Frames : writers'[f] = IF f \in Range(Taken(need)) THEN {} ELSE writers[f]
    BY <2>1 DEF Zeroed
  <2>8. MemTypes'
    <3>1. writers' \in [Frames -> SUBSET (UserTasks \cup {Gone})]
      BY <1>1, <2>1 DEF Zeroed, MemTypes
    <3>2. tree' \in [UserTasks -> Trees]
      BY <1>1, <2>1, <2>2 DEF MemTypes
    <3>3. state' \in [UserTasks -> {"empty", "live", "exited"}]
      BY <1>1, <2>1 DEF MemTypes
    <3>4. QED
      BY <1>1, <2>1, <2>2, <2>6, <3>1, <3>2, <3>3 DEF MemTypes
  <2>9. SlotsInv'
    <3>1. \A t \in UserTasks : IF state'[t] = "empty" THEN pages'[t] = <<>>
                               ELSE TreeFrames(tree'[t]) \in Seq(Frames)
      BY <1>1, <2>1, <2>2 DEF MemTypes, SlotsInv
    <3>2. current' # Kernel => state'[current'] = "live"
      BY <1>1, <2>1 DEF MemTypes, SlotsInv
    <3>3. QED
      BY <3>1, <3>2 DEF SlotsInv, TreeFrames
  <2>10. TlbInv' /\ NoBadStop'
    <3>1. current # c /\ (current # Kernel => current \in UserTasks)
      BY <1>1, MemoryAssumption DEF SlotsInv, MemTypes
    <3>2. current = Kernel \/ pte'[current] = pte[current]
      BY <1>1, <2>1, <3>1 DEF MemTypes
    <3>3. QED
      BY <2>1, <3>2 DEF MemInv, TlbInv, Loaded, NoBadStop
  <2>11. WritersInv'
    <3>1. ASSUME NEW t \in Occupied'
          PROVE  /\ \A f \in Range(pages'[t]) : writers'[f] \subseteq {t}
                 /\ \A f \in Range(TreeFrames(tree'[t])) : writers'[f] = {}
      <4>1. CASE t = c
        <5>1. pages'[t] = got /\ tree'[t] = r
          BY <1>1, <2>1, <4>1 DEF MemTypes
        <5>2. QED
          BY <2>2, <2>7, <5>1
      <4>2. CASE t # c
        <5>1. t \in UserTasks /\ state[t] # "empty" /\ t \in Occupied
          BY <2>4, <3>1, <4>2 DEF Occupied
        <5>2. pages'[t] = pages[t] /\ tree'[t] = tree[t]
          BY <1>1, <2>1, <4>2, <5>1 DEF MemTypes
        <5>3. Range(pages[t]) \subseteq Frames /\ Range(TreeFrames(tree[t])) \subseteq Frames
          BY <1>1, <5>1, OwnedFacts, SeqFacts
        <5>4. /\ \A f \in Range(pages[t]) : writers[f] \subseteq {t}
              /\ \A f \in Range(TreeFrames(tree[t])) : writers[f] = {}
          BY <5>1 DEF MemInv, WritersInv
        <5>5. QED
          BY <2>7, <5>2, <5>3, <5>4
      <4>3. QED
        BY <4>1, <4>2
    <3>2. QED
      BY <3>1 DEF WritersInv, TreeFrames
  <2>12. QED
    BY <2>3, <2>6, <2>8, <2>9, <2>10, <2>11 DEF MemInv
<1>5. QED
  BY <1>3, <1>4

-----------------------------------------------------------------------------
(***************************************************************************)
(* The theorems.                                                           *)
(***************************************************************************)

\* Nothing changes.
LEMMA StutterMem == MemInv /\ UNCHANGED vars => MemInv'
<1> SUFFICES ASSUME MemInv, UNCHANGED vars PROVE MemInv'
  OBVIOUS
<1>1. UNCHANGED <<free, state, tree, pte, pages, heapBase, brk, current, tlb, writers, halted>>
  BY DEF vars
<1>2. MemTypes' /\ SlotsInv'
  BY <1>1 DEF MemInv, MemTypes, SlotsInv, TreeFrames
<1>3. FramesPartitioned' /\ WindowInv' /\ WritersInv'
  BY <1>1, FramesStay
<1>4. TlbInv' /\ NoBadStop'
  BY <1>1 DEF MemInv, TlbInv, Loaded, NoBadStop
<1>5. QED
  BY <1>2, <1>3, <1>4 DEF MemInv

\* The inductive invariant of program memory.
THEOREM MemInvariance == Spec => []MemInv
<1>1. MemInv /\ [Next]_vars => MemInv'
  <2> SUFFICES ASSUME MemInv, [Next]_vars PROVE MemInv'
    OBVIOUS
  <2>1. CASE \E img \in Images : Exec(img)
    BY <2>1, ExecMem
  <2>2. CASE \E img \in Images : \E c \in UserTasks : Spawn(c, img)
    BY <2>2, SpawnMem
  <2>3. CASE \E u \in UserTasks \cup {Kernel} : Switch(u) \/ Exit(u)
    BY <2>3, SwitchMem
  <2>4. CASE \E c \in UserTasks : Collect(c)
    BY <2>4, CollectMem
  <2>5. CASE \E a \in MachineInts : Brk(a)
    BY <2>5, BrkMem
  <2>6. CASE ProgramWrites
    BY <2>6, ProgramWritesMem
  <2>7. CASE \E ptr \in MachineInts, length \in Lengths : CopyStops(ptr, length)
    BY <2>7, CopyStopsMem
  <2>8. CASE Stay \/ UNCHANGED vars
    BY <2>8, StutterMem DEF Stay
  <2>9. QED
    BY <2>1, <2>2, <2>3, <2>4, <2>5, <2>6, <2>7, <2>8 DEF Next
<1>2. QED
  BY <1>1, InitMem, PTL DEF Spec

\* No frame is freed twice, used after it was freed, or lost: spawn, exec, exit
\* and collection keep the partition of memory, for any number of tasks.
THEOREM FramesStayPartitioned == Spec => []FramesPartitioned
BY MemInvariance, PTL DEF MemInv

\* The window is exact because it was written for one image.
LEMMA WindowFromInv == MemInv => WindowExact
<1> SUFFICES ASSUME MemInv PROVE WindowExact
  OBVIOUS
<1>1. ASSUME NEW t \in Occupied
      PROVE  /\ \A w \in Window :
                  IF w < Len(pages[t])
                    THEN /\ pte[t][w].user /\ pte[t][w].frame = pages[t][w + 1]
                         /\ PageAddr(w) >= heapBase[t] => pte[t][w].write
                    ELSE ~pte[t][w].user
             /\ Base < heapBase[t] /\ brk[t] \in heapBase[t] .. HeapLimit(t)
  <2>1. PICK img \in Images : WindowOf(t, img)
    BY <1>1 DEF MemInv, WindowInv
  <2>2. heapBase[t] = PageAddr(img.pages) /\ img.pages \in Nat /\ img.pages > 0
    BY <2>1, ImageFacts DEF WindowOf
  <2>3. ASSUME NEW w \in Window, w < Len(pages[t])
        PROVE  /\ pte[t][w].user /\ pte[t][w].frame = pages[t][w + 1]
               /\ PageAddr(w) >= heapBase[t] => pte[t][w].write
    <3>1. PICK b \in BOOLEAN : b = PageWritable(img, w)
      BY ImageFacts
    <3>2. pte[t][w] = Entry(pages[t][w + 1], b)
      BY <2>1, <2>3, <3>1 DEF WindowOf
    <3>3. pte[t][w].user /\ pte[t][w].frame = pages[t][w + 1] /\ pte[t][w].write = b
      BY <3>2 DEF Entry
    <3>4. w \in Int
      BY MemoryAssumption DEF Window
    <3>5. PageAddr(w) >= heapBase[t] => w >= img.pages
      <4>1. /\ PageAddr(w) \in Int /\ PageAddr(img.pages) \in Int
            /\ (PageAddr(w) < PageAddr(img.pages) <=> w < img.pages)
        BY <2>2, <3>4, PageOrder
      <4>2. QED
        BY <2>2, <3>4, <4>1
    <3>6. w >= img.pages => b
      BY <3>1 DEF PageWritable
    <3>7. QED
      BY <3>3, <3>5, <3>6, Zenon
  <2>4. \A w \in Window : ~(w < Len(pages[t])) => ~pte[t][w].user
    BY <2>1 DEF WindowOf
  <2>5. Base < heapBase[t]
    <3>1. PageAddr(0) = Base
      BY MemoryAssumption DEF PageAddr
    <3>2. QED
      BY <2>2, <3>1, PageOrder
  <2>6. brk[t] \in heapBase[t] .. HeapLimit(t)
    BY <1>1 DEF MemInv, WindowInv
  <2>7. QED
    BY <2>3, <2>4, <2>5, <2>6
<1>2. halted \notin {"unmap", "outside"}
  BY DEF MemInv, NoBadStop
<1>3. QED
  BY <1>1, <1>2 DEF WindowExact

\* A program sees its pages and nothing else, exec's unmapping never panics, a
\* checked buffer never leads out of the program, whatever sizes are chosen.
THEOREM WindowIsExact == Spec => []WindowExact
BY MemInvariance, WindowFromInv, PTL

\* Programs are isolated because the CPU caches only what the window allows.
LEMMA IsolationFromInv == MemInv => Isolation
<1> SUFFICES ASSUME MemInv PROVE Isolation
  OBVIOUS
<1>1. \A x \in tlb : x[2].user => current # Kernel /\ x[2].frame \in Range(pages[current])
  BY CachedIsOwn
<1>2. QED
  BY <1>1 DEF MemInv, WritersInv, Isolation

\* No program ever reads or changes what another one stored, and none writes to
\* a page table.
THEOREM ProgramsAreIsolated == Spec => []Isolation
BY MemInvariance, IsolationFromInv, PTL
=============================================================================
