----------------------------- MODULE VfsProofs -----------------------------
(***************************************************************************)
(* Proofs about Vfs.tla and Paths.tla, for every archive, every path that  *)
(* programs open, and any size of the tables and of files.                 *)
(***************************************************************************)
EXTENDS Vfs, SequenceTheorems, WellFoundedInduction, TLAPS

-----------------------------------------------------------------------------
(***************************************************************************)
(* Paths. What the loop of vfs_normalize_path computes is shown by taking  *)
(* the first turn of the loop at which it would fail.                      *)
(***************************************************************************)

\* A set of natural numbers that is not empty has a least element.
LEMMA LeastNatural ==
  ASSUME NEW S \in SUBSET Nat, S # {}
  PROVE  \E m \in S : \A n \in S : m <= n
<1> DEFINE L == {p \in Nat \X Nat : p[1] < p[2]}
<1>1. IsWellFoundedOn(L, Nat)
  BY NatLessThanWellFounded DEF OpToRel
<1>2. \E m \in S : \A n \in S : <<n, m>> \notin L
  <2> HIDE DEF L
  <2>1. QED
    BY <1>1, WFMin
<1>3. \A m, n \in Nat : n < m => <<n, m>> \in L
  OBVIOUS
<1>4. PICK m \in S : \A n \in S : <<n, m>> \notin L
  BY <1>2
<1>5. \A n \in S : n \in Nat /\ m \in Nat /\ ~(n < m)
  BY <1>3, <1>4
<1>6. QED
  BY <1>4, <1>5

\* The root is a path.
LEMMA EmptyPath == <<>> \in Seq(Components)
  OBVIOUS

\* A path without its last component is a path.
LEMMA FrontType ==
  ASSUME NEW q \in Seq(Components), q # <<>>
  PROVE  Front(q) \in Seq(Components)
  BY DEF Front

\* A path with one more component is a path.
LEMMA AppendType ==
  ASSUME NEW q \in Seq(Components), NEW c \in Components
  PROVE  Append(q, c) \in Seq(Components)
  OBVIOUS

\* Cutting back to the last slash leaves a path.
LEMMA BackToSlashType ==
  ASSUME NEW q \in Seq(Components)
  PROVE  BackToSlash(q) \in Seq(Components)
<1>1. CASE q = <<>> \/ q[Len(q)] = ""
  BY <1>1 DEF BackToSlash
<1>2. CASE ~(q = <<>> \/ q[Len(q)] = "")
  <2> DEFINE front == Front(q)
             slashed == Append(front, "")
  <2>1. front \in Seq(Components)
    BY <1>2, FrontType
  <2>2. BackToSlash(q) = IF Len(q) = 1 THEN <<>> ELSE slashed
    BY <1>2 DEF BackToSlash
  <2>3. PICK e \in Components : e = ""
    BY PathsAssumption
  <2> HIDE DEF front
  <2>4. Append(front, e) \in Seq(Components)
    BY <2>1, AppendType
  <2>5. slashed \in Seq(Components)
    BY <2>3, <2>4
  <2> HIDE DEF slashed
  <2>6. QED
    BY <2>2, <2>5, EmptyPath
<1>3. QED
  BY <1>1, <1>2

\* One turn of the loop makes a sequence of components from one.
LEMMA StepType ==
  ASSUME NEW q \in Seq(Components), NEW c \in Components
  PROVE  NormalizeStep(q, c) \in Seq(Components)
<1>1. DotDot(q) \in Seq(Components)
  BY FrontType, BackToSlashType DEF DotDot
<1>2. Append(q, c) \in Seq(Components)
  BY AppendType
<1>3. QED
  BY <1>1, <1>2 DEF NormalizeStep

\* The loop defines its output after every turn.
LEMMA LoopDefined ==
  ASSUME NEW p \in Seq(Components)
  PROVE  \E f : f = [k \in 0 .. Len(p) |-> IF k = 0 THEN <<>> ELSE NormalizeStep(f[k - 1], p[k])]
<1> DEFINE Good(m) == \E f : f = [k \in 0 .. m |-> IF k = 0 THEN <<>>
                                                   ELSE NormalizeStep(f[k - 1], p[k])]
           Bad == {m \in 0 .. Len(p) : ~Good(m)}
<1>1. SUFFICES ASSUME Bad # {} PROVE FALSE
  <2>1. Len(p) \in 0 .. Len(p)
    OBVIOUS
  <2>2. QED
    BY <1>1, <2>1
<1>2. PICK m \in Bad : \A n \in Bad : m <= n
  <2>1. Bad \in SUBSET Nat
    OBVIOUS
  <2> HIDE DEF Bad
  <2>2. QED
    BY <1>1, <2>1, LeastNatural
<1>3. m \in 0 .. Len(p) /\ ~Good(m)
  BY <1>2
<1>4. CASE m = 0
  <2> DEFINE g == [k \in 0 .. 0 |-> <<>>]
  <2>1. g = [k \in 0 .. 0 |-> IF k = 0 THEN <<>> ELSE NormalizeStep(g[k - 1], p[k])]
    OBVIOUS
  <2>2. Good(0)
    BY <2>1
  <2>3. QED
    BY <1>3, <1>4, <2>2
<1>5. CASE m # 0
  <2>1. m - 1 \in 0 .. Len(p) /\ ~(m <= m - 1) /\ m \in Nat
    BY <1>3, <1>5
  <2>2. Good(m - 1)
    BY <1>2, <2>1
  <2>3. PICK g : g = [k \in 0 .. m - 1 |-> IF k = 0 THEN <<>> ELSE NormalizeStep(g[k - 1], p[k])]
    BY <2>2
  <2> DEFINE h == [k \in 0 .. m |-> IF k = m THEN NormalizeStep(g[m - 1], p[m]) ELSE g[k]]
  <2>4. ASSUME NEW k \in 0 .. m
        PROVE  h[k] = IF k = 0 THEN <<>> ELSE NormalizeStep(h[k - 1], p[k])
    <3>1. CASE k = m
      <4>1. h[k - 1] = g[m - 1] /\ k # 0
        BY <1>5, <2>1, <3>1
      <4>2. QED
        BY <3>1, <4>1
    <3>2. CASE k # m /\ k = 0
      <4>1. 0 \in 0 .. m - 1
        BY <1>5, <2>1
      <4>2. g[0] = <<>>
        BY <2>3, <4>1
      <4>3. QED
        BY <3>2, <4>2
    <3>3. CASE k # m /\ k # 0
      <4>1. k \in 0 .. m - 1 /\ k - 1 \in 0 .. m /\ k - 1 # m
        BY <2>1, <3>3
      <4>2. g[k] = NormalizeStep(g[k - 1], p[k])
        BY <2>3, <3>3, <4>1
      <4>3. h[k] = g[k] /\ h[k - 1] = g[k - 1]
        BY <3>3, <4>1
      <4>4. QED
        BY <3>3, <4>2, <4>3
    <3>4. QED
      BY <3>1, <3>2, <3>3
  <2>5. h = [k \in 0 .. m |-> IF k = 0 THEN <<>> ELSE NormalizeStep(h[k - 1], p[k])]
    <3>1. h = [k \in 0 .. m |-> h[k]]
      OBVIOUS
    <3> HIDE DEF h
    <3>2. QED
      BY <2>4, <3>1
  <2>6. Good(m)
    BY <2>5
  <2>7. QED
    BY <1>3, <2>6
<1>6. QED
  BY <1>4, <1>5

\* vfs_normalize_path turn by turn.
LEMMA NormalizeRuns ==
  ASSUME NEW p \in Seq(Components)
  PROVE  \E f \in [0 .. Len(p) -> Seq(Components)] :
           /\ f[0] = <<>> /\ \A k \in 1 .. Len(p) : f[k] = NormalizeStep(f[k - 1], p[k])
           /\ Normalize(p) = f[Len(p)]
<1> DEFINE f == CHOOSE g : g = [k \in 0 .. Len(p) |->
                                  IF k = 0 THEN <<>> ELSE NormalizeStep(g[k - 1], p[k])]
<1>1. Normalize(p) = f[Len(p)]
  BY DEF Normalize
<1>2. f = [k \in 0 .. Len(p) |-> IF k = 0 THEN <<>> ELSE NormalizeStep(f[k - 1], p[k])]
  BY LoopDefined
<1> HIDE DEF f
<1>3. Len(p) \in Nat /\ 0 \in 0 .. Len(p)
  OBVIOUS
<1>4. f[0] = <<>>
  BY <1>2, <1>3
<1>5. \A k \in 1 .. Len(p) : f[k] = NormalizeStep(f[k - 1], p[k])
  BY <1>2
<1>6. \A k \in 0 .. Len(p) : f[k] \in Seq(Components)
  <2> DEFINE Bad == {k \in 0 .. Len(p) : f[k] \notin Seq(Components)}
  <2>1. SUFFICES ASSUME Bad # {} PROVE FALSE
    OBVIOUS
  <2>2. PICK m \in Bad : \A n \in Bad : m <= n
    <3>1. Bad \in SUBSET Nat
      OBVIOUS
    <3> HIDE DEF Bad
    <3>2. QED
      BY <2>1, <3>1, LeastNatural
  <2>3. m # 0
    BY <1>4, <2>2, EmptyPath
  <2>4. m - 1 \in 0 .. Len(p) /\ ~(m <= m - 1) /\ m \in 1 .. Len(p)
    BY <2>2, <2>3
  <2>5. f[m - 1] \in Seq(Components)
    BY <2>2, <2>4
  <2>6. p[m] \in Components
    BY <2>4
  <2>7. f[m] \in Seq(Components)
    BY <1>5, <2>4, <2>5, <2>6, StepType
  <2>8. QED
    BY <2>2, <2>7
<1>7. f \in [0 .. Len(p) -> Seq(Components)]
  BY <1>2, <1>6
<1>8. QED
  BY <1>1, <1>4, <1>5, <1>7

\* Every path a program names is a sequence of components after the loop too.
LEMMA NormalizeType ==
  ASSUME NEW p \in OpenedPaths
  PROVE  Normalize(p) \in Seq(Components) /\ Normalize(p) \in Names
<1>1. p \in Seq(Components)
  BY PathsAssumption
<1>2. Len(p) \in 0 .. Len(p)
  BY <1>1
<1>3. Normalize(p) \in Seq(Components)
  BY <1>1, <1>2, NormalizeRuns
<1>4. QED
  BY <1>3 DEF Names

-----------------------------------------------------------------------------
(***************************************************************************)
(* The inductive invariant.                                                *)
(***************************************************************************)
NodeRecs ==
  [name : Seq(Components), kind : {"file", "directory"}, writable : BOOLEAN,
   data : Seq(Nat), len : Nat]

DescRecs ==
  [kind : {"closed", "file", "directory", "console"}, node : Nat, offset : Nat,
   path : Seq(Components)]

\* Shape of one node: the archive comes first and stays read-only, then /tmp,
\* the only directory that has a node, then the files right below it.
NodeFits(n) ==
  /\ nodes[n].len <= Len(nodes[n].data)
  /\ n <= Len(Initramfs) =>
       /\ nodes[n].name = Initramfs[n].name
       /\ nodes[n].kind = "file" /\ ~nodes[n].writable
  /\ n = Len(Initramfs) + 1 => nodes[n].name = Tmp /\ nodes[n].kind = "directory"
  /\ n > Len(Initramfs) + 1 =>
       /\ nodes[n].kind = "file" /\ nodes[n].name \in Names
       /\ Len(nodes[n].name) = 2 /\ nodes[n].name[1] = "tmp"

\* The node table.
Layout ==
  /\ nodes \in Seq(NodeRecs)
  /\ Len(Initramfs) + 2 <= Len(nodes) /\ Len(nodes) <= MaxNodes
  /\ \A n \in NodeIds : NodeFits(n)
  /\ \A m, n \in NodeIds : nodes[m].name = nodes[n].name => m = n

\* One descriptor, seen from the node table.
GoodDesc(r) ==
  /\ r \in DescRecs
  /\ r.kind = "file" => r.node \in NodeIds /\ nodes[r.node].kind = "file"
  /\ r.kind = "directory" => DirectoryExists(r.path) /\ r.offset <= Len(nodes)

\* What a directory descriptor has returned.
GoodListing(r, l) ==
  /\ l \in Seq(Components)
  /\ r.kind = "directory" =>
       /\ \A n \in 1 .. r.offset :
            Below(n, r.path) /\ Child(n, r.path) # "" =>
              \E k \in 1 .. Len(l) : l[k] = Child(n, r.path)
       /\ \A j, k \in 1 .. Len(l) : l[j] = l[k] => j = k
       /\ \A k \in 1 .. Len(l) :
            \E n \in 1 .. r.offset : Below(n, r.path) /\ Child(n, r.path) = l[k]

Tables ==
  /\ desc \in [Descs -> DescRecs]
  /\ listed \in [Descs -> Seq(Components)]
  /\ \A d \in Descs : GoodDesc(desc[d]) /\ GoodListing(desc[d], listed[d])

VInv == Layout /\ Tables /\ halted \in BOOLEAN

\* The archive, entry by entry.
LEMMA ArchiveFacts ==
  /\ Len(Initramfs) \in Nat \ {0}
  /\ \A i \in 1 .. Len(Initramfs) :
       /\ Initramfs[i].name \in Seq(Components) /\ Initramfs[i].data \in Seq(Nat)
       /\ Len(Initramfs[i].name) > 0 /\ Initramfs[i].name[1] # "tmp"
       /\ Initramfs[i].name \in Names
       /\ \A j \in 1 .. Len(Initramfs) :
            Len(Initramfs[j].name) >= Len(Initramfs[i].name)
              /\ SubSeq(Initramfs[j].name, 1, Len(Initramfs[i].name)) = Initramfs[i].name
              => j = i
<1>1. Initramfs \in Seq([name : Seq(Components), data : Seq(Nat)]) /\ Initramfs # <<>>
  BY ArchiveAssumption
<1>2. Len(Initramfs) \in Nat \ {0}
  BY <1>1
<1>3. ASSUME NEW i \in 1 .. Len(Initramfs)
      PROVE  /\ Initramfs[i].name \in Seq(Components) /\ Initramfs[i].data \in Seq(Nat)
             /\ Initramfs[i].name \in Names
  <2>1. Initramfs[i] \in [name : Seq(Components), data : Seq(Nat)]
    BY <1>1, ElementOfSeq
  <2>2. Initramfs[i].name \in Names
    BY DEF Names
  <2>3. QED
    BY <2>1, <2>2
<1>4. QED
  BY <1>2, <1>3, ArchiveAssumption

\* The names the kernel itself gives.
LEMMA KernelNames ==
  /\ Tmp \in Seq(Components) /\ Len(Tmp) = 1 /\ Tmp[1] = "tmp" /\ Tmp \in Names
  /\ SelfTestFile \in Seq(Components) /\ Len(SelfTestFile) = 2
  /\ SelfTestFile[1] = "tmp" /\ SelfTestFile \in Names
<1>1. PICK t \in Components : t = "tmp"
  BY PathsAssumption
<1>2. PICK l \in Components : l = "log.txt"
  BY PathsAssumption
<1>3. <<t>> \in Seq(Components) /\ <<t, l>> \in Seq(Components)
  OBVIOUS
<1>4. Tmp \in Seq(Components) /\ SelfTestFile \in Seq(Components)
  BY <1>1, <1>2, <1>3 DEF Tmp, SelfTestFile
<1>5. Tmp \in Names /\ SelfTestFile \in Names
  BY DEF Names
<1>6. QED
  BY <1>4, <1>5 DEF Tmp, SelfTestFile

\* A buffer starts with what was copied to it.
LEMMA BufferFacts ==
  ASSUME NEW s \in Seq(Nat), NEW n \in Nat
  PROVE  /\ Buffer(s, n) \in Seq(Nat) /\ Len(Buffer(s, n)) = n
         /\ \A k \in 1 .. n : k <= Len(s) => Buffer(s, n)[k] = s[k]
         /\ \A k \in 1 .. n : ~(k <= Len(s)) => Buffer(s, n)[k] = 0
<1> DEFINE b == [k \in 1 .. n |-> IF k <= Len(s) THEN s[k] ELSE 0]
<1>1. \A k \in 1 .. n : b[k] \in Nat
  OBVIOUS
<1>2. b \in [1 .. n -> Nat]
  BY <1>1
<1>3. b \in Seq(Nat) /\ Len(b) = n
  <2> HIDE DEF b
  <2>1. QED
    BY <1>2, SeqDef
<1>4. QED
  BY <1>3 DEF Buffer

\* The elements of two sequences, one behind the other.
LEMMA ConcatFacts ==
  ASSUME NEW S, NEW a \in Seq(S), NEW b \in Seq(S)
  PROVE  /\ a \o b \in Seq(S) /\ Len(a \o b) = Len(a) + Len(b)
         /\ Len(a) \in Nat /\ Len(b) \in Nat
         /\ \A i \in 1 .. Len(a) : (a \o b)[i] = a[i]
         /\ \A i \in 1 .. Len(b) : (a \o b)[Len(a) + i] = b[i]
  BY ConcatProperties

\* The invariant holds when vfs_self_test is over.
LEMMA InitVfs == Init => VInv
<1> DEFINE Archived(i) == [name |-> Initramfs[i].name, kind |-> "file", writable |-> FALSE,
                           data |-> Initramfs[i].data, len |-> Len(Initramfs[i].data)]
           TmpNode == [name |-> Tmp, kind |-> "directory", writable |-> TRUE,
                       data |-> <<>>, len |-> 0]
           LogNode == [name |-> SelfTestFile, kind |-> "file", writable |-> TRUE,
                       data |-> Buffer(<<1>>, MinCap), len |-> 1]
           a == [i \in 1 .. Len(Initramfs) |-> Archived(i)]
           b == <<TmpNode, LogNode>>
<1> SUFFICES ASSUME Init PROVE VInv
  OBVIOUS
<1>1. nodes = a \o b
  BY DEF Init
<1>2. Len(Initramfs) \in Nat \ {0} /\ MinCap \in Nat \ {0}
  BY ArchiveFacts, SizesAssumption
<1>3. \A i \in 1 .. Len(Initramfs) : Archived(i) \in NodeRecs
  <2> TAKE i \in 1 .. Len(Initramfs)
  <2>1. Initramfs[i].name \in Seq(Components) /\ Initramfs[i].data \in Seq(Nat)
    BY ArchiveFacts
  <2>2. Len(Initramfs[i].data) \in Nat
    BY <2>1
  <2>3. QED
    BY <2>1, <2>2 DEF NodeRecs
<1>4. TmpNode \in NodeRecs
  <2>1. <<>> \in Seq(Nat)
    OBVIOUS
  <2>2. QED
    BY <2>1, KernelNames DEF NodeRecs
<1>5. LogNode \in NodeRecs /\ Len(LogNode.data) = MinCap
  <2>1. <<1>> \in Seq(Nat)
    OBVIOUS
  <2>2. Buffer(<<1>>, MinCap) \in Seq(Nat) /\ Len(Buffer(<<1>>, MinCap)) = MinCap
    BY <1>2, <2>1, BufferFacts
  <2>3. QED
    BY <2>2, KernelNames DEF NodeRecs
<1>6. a \in Seq(NodeRecs) /\ Len(a) = Len(Initramfs)
  <2>1. a \in [1 .. Len(Initramfs) -> NodeRecs]
    BY <1>3
  <2> HIDE DEF a
  <2>2. QED
    BY <1>2, <2>1, SeqDef
<1>7. b \in Seq(NodeRecs) /\ Len(b) = 2 /\ b[1] = TmpNode /\ b[2] = LogNode
  <2> HIDE DEF TmpNode, LogNode
  <2>1. QED
    BY <1>4, <1>5
<1>8. \A i \in 1 .. Len(Initramfs) : a[i] = Archived(i)
  OBVIOUS
<1>9. /\ \A i \in 1 .. Len(Initramfs) :
            /\ Archived(i).name = Initramfs[i].name /\ Archived(i).kind = "file"
            /\ ~Archived(i).writable /\ Archived(i).data = Initramfs[i].data
            /\ Archived(i).len = Len(Initramfs[i].data)
      /\ TmpNode.name = Tmp /\ TmpNode.kind = "directory"
      /\ TmpNode.len = 0 /\ Len(TmpNode.data) = 0
      /\ LogNode.name = SelfTestFile /\ LogNode.kind = "file"
      /\ LogNode.len = 1 /\ Len(LogNode.data) = MinCap
  BY <1>5
<1> HIDE DEF Archived, TmpNode, LogNode, a, b
<1>10. /\ nodes \in Seq(NodeRecs) /\ Len(nodes) = Len(a) + Len(b)
       /\ \A i \in 1 .. Len(a) : nodes[i] = a[i]
       /\ \A i \in 1 .. Len(b) : nodes[Len(a) + i] = b[i]
  <2>1. /\ a \o b \in Seq(NodeRecs) /\ Len(a \o b) = Len(a) + Len(b)
        /\ \A i \in 1 .. Len(a) : (a \o b)[i] = a[i]
        /\ \A i \in 1 .. Len(b) : (a \o b)[Len(a) + i] = b[i]
    BY <1>6, <1>7, ConcatFacts
  <2>2. QED
    BY <1>1, <2>1
<1>11. Len(nodes) = Len(Initramfs) + 2
  BY <1>6, <1>7, <1>10
<1>12. \A i \in 1 .. Len(Initramfs) : nodes[i] = Archived(i)
  BY <1>6, <1>8, <1>10
<1>13. nodes[Len(Initramfs) + 1] = TmpNode /\ nodes[Len(Initramfs) + 2] = LogNode
  <2>1. 1 \in 1 .. Len(b) /\ 2 \in 1 .. Len(b)
    BY <1>7
  <2>2. QED
    BY <1>6, <1>7, <1>10, <2>1
<1>14. /\ \A i \in 1 .. Len(Initramfs) : nodes[i].name = Initramfs[i].name
       /\ nodes[Len(Initramfs) + 1].name = Tmp
       /\ nodes[Len(Initramfs) + 2].name = SelfTestFile
  <2>1. \A i \in 1 .. Len(Initramfs) : nodes[i].name = Initramfs[i].name
    BY <1>9, <1>12
  <2>2. nodes[Len(Initramfs) + 1].name = Tmp
    BY <1>9, <1>13
  <2>3. nodes[Len(Initramfs) + 2].name = SelfTestFile
    BY <1>9, <1>13
  <2>4. QED
    BY <2>1, <2>2, <2>3
<1>15. Layout
  <2>1. \A n \in NodeIds : NodeFits(n)
    <3> TAKE n \in NodeIds
    <3>1. n \in 1 .. Len(Initramfs) \/ n = Len(Initramfs) + 1 \/ n = Len(Initramfs) + 2
      BY <1>2, <1>11 DEF NodeIds
    <3>2. CASE n \in 1 .. Len(Initramfs)
      <4>1. nodes[n] = Archived(n) /\ Len(Initramfs[n].data) \in Nat
        BY <1>12, <3>2, ArchiveFacts
      <4>2. QED
        BY <1>2, <1>9, <3>2, <4>1 DEF NodeFits
    <3>3. CASE n = Len(Initramfs) + 1
      <4>1. nodes[n] = TmpNode
        BY <1>13, <3>3
      <4>2. QED
        BY <1>2, <1>9, <3>3, <4>1 DEF NodeFits
    <3>4. CASE n = Len(Initramfs) + 2
      <4>1. nodes[n] = LogNode
        BY <1>13, <3>4
      <4>2. QED
        BY <1>2, <1>9, <3>4, <4>1, KernelNames DEF NodeFits
    <3>5. QED
      BY <3>1, <3>2, <3>3, <3>4
  <2>2. ASSUME NEW m \in NodeIds, NEW n \in NodeIds, nodes[m].name = nodes[n].name, m <= n
        PROVE  m = n
    <3>1. CASE n \in 1 .. Len(Initramfs)
      <4>1. m \in 1 .. Len(Initramfs)
        BY <1>2, <1>11, <2>2, <3>1 DEF NodeIds
      <4>2. Initramfs[m].name = Initramfs[n].name
        BY <1>14, <2>2, <3>1, <4>1
      <4>3. SubSeq(Initramfs[m].name, 1, Len(Initramfs[m].name)) = Initramfs[m].name
        BY <4>1, ArchiveFacts
      <4>4. Len(Initramfs[m].name) \in Nat
        BY <4>1, ArchiveFacts
      <4>5. QED
        BY <3>1, <4>1, <4>2, <4>3, <4>4, ArchiveFacts
    <3>2. CASE n = Len(Initramfs) + 1 /\ m # n
      <4>1. m \in 1 .. Len(Initramfs)
        BY <1>2, <1>11, <2>2, <3>2 DEF NodeIds
      <4>2. Initramfs[m].name = Tmp
        BY <1>14, <2>2, <3>2, <4>1
      <4>3. QED
        BY <4>1, <4>2, ArchiveFacts, KernelNames
    <3>3. CASE n = Len(Initramfs) + 2 /\ m # n
      <4>1. nodes[n].name = SelfTestFile
        BY <1>14, <3>3
      <4>2. CASE m \in 1 .. Len(Initramfs)
        <5>1. Initramfs[m].name = SelfTestFile
          BY <1>14, <2>2, <4>1, <4>2
        <5>2. QED
          BY <4>2, <5>1, ArchiveFacts, KernelNames
      <4>3. CASE m = Len(Initramfs) + 1
        <5>1. Tmp = SelfTestFile
          BY <1>14, <2>2, <4>1, <4>3
        <5>2. QED
          BY <5>1 DEF Tmp, SelfTestFile
      <4>4. QED
        BY <1>2, <1>11, <2>2, <3>3, <4>2, <4>3 DEF NodeIds
    <3>4. QED
      BY <1>2, <1>11, <3>1, <3>2, <3>3 DEF NodeIds
  <2>3. \A m, n \in NodeIds : nodes[m].name = nodes[n].name => m = n
    <3> SUFFICES ASSUME NEW m \in NodeIds, NEW n \in NodeIds, nodes[m].name = nodes[n].name
                 PROVE  m = n
      OBVIOUS
    <3>1. m <= n \/ n <= m
      BY <1>2, <1>11 DEF NodeIds
    <3>2. QED
      BY <2>2, <3>1
  <2>4. Len(nodes) <= MaxNodes
    BY <1>11, SizesAssumption
  <2>5. QED
    BY <1>2, <1>10, <1>11, <2>1, <2>3, <2>4 DEF Layout
<1>16. Tables
  <2>1. FileDesc(1) \in DescRecs /\ Closed \in DescRecs
    BY EmptyPath DEF FileDesc, Closed, DescRecs
  <2>2. 1 \in NodeIds /\ nodes[1].kind = "file"
    <3>1. 1 \in 1 .. Len(Initramfs) /\ 1 \in NodeIds
      BY <1>2, <1>11 DEF NodeIds
    <3>2. QED
      BY <1>9, <1>12, <3>1
  <2>3. GoodDesc(FileDesc(1)) /\ GoodDesc(Closed)
    BY <2>1, <2>2 DEF GoodDesc, FileDesc, Closed
  <2>4. GoodListing(FileDesc(1), <<>>) /\ GoodListing(Closed, <<>>)
    BY EmptyPath DEF GoodListing, FileDesc, Closed
  <2>5. \A d \in Descs : desc[d] \in {FileDesc(1), Closed} /\ listed[d] = <<>>
    BY DEF Init
  <2>6. desc \in [Descs -> DescRecs] /\ listed \in [Descs -> Seq(Components)]
    BY <2>1, EmptyPath DEF Init
  <2>7. QED
    BY <2>3, <2>4, <2>5, <2>6 DEF Tables
<1>17. QED
  BY <1>15, <1>16 DEF VInv, Init

-----------------------------------------------------------------------------
(***************************************************************************)
(* Steps. No call renames a node, changes its kind or removes it, so what  *)
(* holds of a descriptor that a call leaves alone goes on holding.         *)
(***************************************************************************)
NamesStay ==
  /\ Len(nodes) <= Len(nodes')
  /\ \A n \in NodeIds : nodes'[n].name = nodes[n].name /\ nodes'[n].kind = nodes[n].kind

\* What the layout says of each node.
LEMMA NodeFacts ==
  ASSUME Layout
  PROVE  /\ Len(nodes) \in Nat /\ nodes \in Seq(NodeRecs)
         /\ \A n \in NodeIds :
              /\ nodes[n] \in NodeRecs /\ n \in Nat /\ n > 0
              /\ nodes[n].name \in Seq(Components) /\ nodes[n].data \in Seq(Nat)
              /\ Len(nodes[n].name) \in Nat /\ Len(nodes[n].data) \in Nat
              /\ nodes[n].len \in Nat /\ nodes[n].kind \in {"file", "directory"}
              /\ nodes[n].writable \in BOOLEAN
              /\ NodeFits(n)
<1>1. nodes \in Seq(NodeRecs)
  BY DEF Layout
<1>2. Len(nodes) \in Nat
  BY <1>1, LenProperties
<1>3. ASSUME NEW n \in NodeIds
      PROVE  /\ nodes[n] \in NodeRecs /\ n \in Nat /\ n > 0
             /\ nodes[n].name \in Seq(Components) /\ nodes[n].data \in Seq(Nat)
             /\ Len(nodes[n].name) \in Nat /\ Len(nodes[n].data) \in Nat
             /\ nodes[n].len \in Nat /\ nodes[n].kind \in {"file", "directory"}
             /\ nodes[n].writable \in BOOLEAN
             /\ NodeFits(n)
  <2>1. n \in 1 .. Len(nodes) /\ n \in Nat /\ n > 0
    BY <1>2 DEF NodeIds
  <2>2. nodes[n] \in NodeRecs
    BY <1>1, <2>1, ElementOfSeq
  <2>3. nodes[n].name \in Seq(Components) /\ nodes[n].data \in Seq(Nat)
    BY <2>2 DEF NodeRecs
  <2>4. /\ nodes[n].len \in Nat /\ nodes[n].kind \in {"file", "directory"}
        /\ nodes[n].writable \in BOOLEAN
    BY <2>2 DEF NodeRecs
  <2>5. Len(nodes[n].name) \in Nat /\ Len(nodes[n].data) \in Nat
    BY <2>3
  <2>6. NodeFits(n)
    BY DEF Layout
  <2>7. QED
    BY <2>1, <2>2, <2>3, <2>4, <2>5, <2>6
<1>4. QED
  BY <1>1, <1>2, <1>3

\* A descriptor and what it has listed stay good while nodes keep their names:
\* a new node is behind all that a cursor has passed.
LEMMA StaysGood ==
  ASSUME Layout, Layout', NamesStay, NEW r, NEW l, GoodDesc(r), GoodListing(r, l)
  PROVE  GoodDesc(r)' /\ GoodListing(r, l)'
<1>1. Len(nodes) \in Nat /\ Len(nodes') \in Nat /\ Len(nodes) <= Len(nodes')
  <2>1. nodes \in Seq(NodeRecs) /\ nodes' \in Seq(NodeRecs)
    BY DEF Layout, NodeRecs
  <2>2. QED
    BY <2>1, LenProperties DEF NamesStay
<1>2. \A n \in NodeIds : n \in NodeIds' /\ nodes'[n].name = nodes[n].name
                         /\ nodes'[n].kind = nodes[n].kind
  BY <1>1 DEF NamesStay, NodeIds
<1>3. \A n \in NodeIds : (Below(n, r.path) <=> Below(n, r.path)')
                         /\ Child(n, r.path)' = Child(n, r.path)
  BY <1>2 DEF Below, Child
<1>4. r \in DescRecs /\ r.offset \in Nat
  BY DEF GoodDesc, DescRecs
<1>5. DirectoryExists(r.path) => DirectoryExists(r.path)'
  BY <1>2, <1>3 DEF DirectoryExists
<1>6. GoodDesc(r)'
  BY <1>1, <1>2, <1>4, <1>5 DEF GoodDesc
<1>7. GoodListing(r, l)'
  <2>1. l \in Seq(Components)
    BY DEF GoodListing
  <2>2. CASE r.kind = "directory"
    <3>1. r.offset <= Len(nodes)
      BY <2>2 DEF GoodDesc
    <3>2. 1 .. r.offset \subseteq NodeIds
      BY <1>1, <1>4, <3>1 DEF NodeIds
    <3>3. \A n \in 1 .. r.offset : (Below(n, r.path) <=> Below(n, r.path)')
                                   /\ Child(n, r.path)' = Child(n, r.path)
      BY <1>3, <3>2
    <3>4. QED
      BY <2>1, <2>2, <3>3 DEF GoodListing
  <2>3. QED
    BY <2>1, <2>2 DEF GoodListing
<1>8. QED
  BY <1>6, <1>7

\* The facts about a descriptor, told of the entry that holds it.
LEMMA EntryHolds ==
  ASSUME NEW e, NEW r, NEW l, desc'[e] = r, listed'[e] = l, GoodDesc(r)', GoodListing(r, l)'
  PROVE  GoodDesc(desc[e])' /\ GoodListing(desc[e], listed[e])'
<1>1. GoodDesc(desc[e])'
  BY DEF GoodDesc, DirectoryExists, Below, NodeIds
<1>2. GoodListing(desc[e], listed[e])'
  BY DEF GoodListing, Child, Below, NodeIds
<1>3. QED
  BY <1>1, <1>2

\* A call that changes one descriptor and its listing.
LEMMA OneChanges ==
  ASSUME VInv, Layout', NamesStay, NEW d \in Descs, NEW r, NEW l,
         desc' = [desc EXCEPT ![d] = r], listed' = [listed EXCEPT ![d] = l],
         GoodDesc(r)', GoodListing(r, l)'
  PROVE  Tables'
<1>1. desc \in [Descs -> DescRecs] /\ listed \in [Descs -> Seq(Components)] /\ Layout
  BY DEF VInv, Tables
<1>2. r \in DescRecs /\ l \in Seq(Components)
  BY DEF GoodDesc, GoodListing
<1>3. desc' \in [Descs -> DescRecs] /\ listed' \in [Descs -> Seq(Components)]
  BY <1>1, <1>2
<1>4. ASSUME NEW e \in Descs
      PROVE  GoodDesc(desc[e])' /\ GoodListing(desc[e], listed[e])'
  <2>1. CASE e = d
    <3>1. desc'[e] = r /\ listed'[e] = l
      BY <1>1, <2>1
    <3>2. QED
      BY <3>1, EntryHolds
  <2>2. CASE e # d
    <3>1. PICK q : q = desc[e]
      OBVIOUS
    <3>2. PICK k : k = listed[e]
      OBVIOUS
    <3>3. desc'[e] = q /\ listed'[e] = k
      BY <1>1, <2>2, <3>1, <3>2
    <3>4. GoodDesc(q) /\ GoodListing(q, k)
      BY <3>1, <3>2 DEF VInv, Tables
    <3>5. GoodDesc(q)' /\ GoodListing(q, k)'
      BY <1>1, <3>4, StaysGood
    <3>6. QED
      BY <3>3, <3>5, EntryHolds
  <2>3. QED
    BY <2>1, <2>2
<1>5. QED
  BY <1>3, <1>4 DEF Tables

\* A call that changes no descriptor.
LEMMA NoneChanges ==
  ASSUME VInv, Layout', NamesStay, desc' = desc, listed' = listed
  PROVE  Tables'
<1>1. ASSUME NEW e \in Descs
      PROVE  GoodDesc(desc[e])' /\ GoodListing(desc[e], listed[e])'
  <2>1. PICK q : q = desc[e]
    OBVIOUS
  <2>2. PICK k : k = listed[e]
    OBVIOUS
  <2>3. GoodDesc(q) /\ GoodListing(q, k) /\ Layout
    BY <2>1, <2>2 DEF VInv, Tables
  <2>4. GoodDesc(q)' /\ GoodListing(q, k)'
    BY <2>3, StaysGood
  <2>5. desc'[e] = q /\ listed'[e] = k
    BY <2>1, <2>2
  <2>6. QED
    BY <2>4, <2>5, EntryHolds
<1>2. QED
  BY <1>1 DEF Tables, VInv

\* vfs_alloc_descriptor; a descriptor at its start has returned nothing.
LEMMA AllocTables ==
  ASSUME VInv, Layout', NamesStay, NEW r, r.offset = 0, GoodDesc(r)', AllocDescriptor(r)
  PROVE  Tables'
<1>1. CASE UNCHANGED <<desc, listed>>
  BY <1>1, NoneChanges
<1>2. ASSUME NEW d \in Descs, desc' = [desc EXCEPT ![d] = r],
             listed' = [listed EXCEPT ![d] = <<>>]
      PROVE  Tables'
  <2>1. GoodListing(r, <<>>)'
    <3>1. \A n \in 1 .. r.offset : FALSE
      OBVIOUS
    <3>2. \A n \in 1 .. Len(<<>>) : FALSE
      OBVIOUS
    <3>3. QED
      BY <3>1, <3>2, EmptyPath DEF GoodListing
  <2>2. PICK l : l = <<>>
    OBVIOUS
  <2>3. GoodListing(r, l)' /\ listed' = [listed EXCEPT ![d] = l]
    BY <1>2, <2>1, <2>2
  <2>4. QED
    BY <1>2, <2>3, OneChanges
<1>3. QED
  BY <1>1, <1>2 DEF AllocDescriptor

\* The bodies of InitramfsKept and OnlyWritesChange.
ArchiveStays == \A n \in 1 .. Len(Initramfs) : nodes'[n] = nodes[n]

Written(n, k) ==
  \E d \in Descs : /\ desc[d].kind = "file" /\ desc[d].node = n
                   /\ desc[d].offset < k /\ k <= desc'[d].offset

BytesStay ==
  \A n \in NodeIds : \A k \in 1 .. Len(nodes'[n].data) :
    \/ k <= Len(nodes[n].data) /\ nodes'[n].data[k] = nodes[n].data[k]
    \/ k > nodes[n].len /\ nodes'[n].data[k] = 0
    \/ Written(n, k)

\* What every step keeps.
StepKeeps == VInv' /\ ArchiveStays /\ BytesStay

\* A call that leaves the buffers alone.
LEMMA SameBytes ==
  ASSUME Layout, \A n \in NodeIds : nodes'[n].data = nodes[n].data
  PROVE  BytesStay
<1>1. \A n \in NodeIds : Len(nodes[n].data) \in Nat
  BY NodeFacts
<1>2. \A n \in NodeIds : \A k \in 1 .. Len(nodes[n].data) : k <= Len(nodes[n].data)
  BY <1>1
<1>3. QED
  BY <1>2 DEF BytesStay

\* A call that leaves the node table alone.
LEMMA SameNodes ==
  ASSUME Layout, nodes' = nodes
  PROVE  /\ Layout' /\ NamesStay /\ ArchiveStays /\ BytesStay
<1>1. Layout'
  BY DEF Layout, NodeIds, NodeFits, NodeRecs, Names, Normalize, Tmp, SelfTestFile
<1>2. NamesStay /\ ArchiveStays
  BY NodeFacts DEF NamesStay, ArchiveStays
<1>3. BytesStay
  BY SameBytes
<1>4. QED
  BY <1>1, <1>2, <1>3

\* A call that changes the bytes or the length of one writable file.
LEMMA OneNode ==
  ASSUME Layout, NEW n \in NodeIds, nodes[n].writable, nodes[n].kind = "file",
         NEW r \in NodeRecs, nodes' = [nodes EXCEPT ![n] = r],
         r.name = nodes[n].name, r.kind = nodes[n].kind, r.writable = nodes[n].writable,
         r.len <= Len(r.data)
  PROVE  /\ Layout' /\ NamesStay /\ ArchiveStays
         /\ nodes'[n] = r /\ \A m \in NodeIds : m # n => nodes'[m] = nodes[m]
<1>1. nodes \in Seq(NodeRecs) /\ Len(nodes) \in Nat /\ n \in 1 .. Len(nodes)
  BY NodeFacts DEF NodeIds
<1>2. nodes' \in Seq(NodeRecs) /\ Len(nodes') = Len(nodes)
  BY <1>1, ExceptSeq
<1>3. nodes'[n] = r /\ \A m \in NodeIds : m # n => nodes'[m] = nodes[m]
  BY <1>1, <1>2 DEF NodeIds
<1>4. NodeIds' = NodeIds
  BY <1>2 DEF NodeIds
<1>5. \A m \in NodeIds : /\ nodes'[m].name = nodes[m].name /\ nodes'[m].kind = nodes[m].kind
                         /\ nodes'[m].writable = nodes[m].writable
                         /\ nodes'[m].len <= Len(nodes'[m].data)
  <2> TAKE m \in NodeIds
  <2>1. nodes[m].len <= Len(nodes[m].data)
    BY NodeFacts DEF NodeFits
  <2>2. CASE m = n
    BY <1>3, <2>2
  <2>3. CASE m # n
    BY <1>3, <2>1, <2>3
  <2>4. QED
    BY <2>2, <2>3
<1>6. n > Len(Initramfs)
  <2>1. n \in Nat /\ NodeFits(n) /\ Len(Initramfs) \in Nat
    BY NodeFacts, ArchiveFacts
  <2>2. ~(n <= Len(Initramfs))
    BY <2>1 DEF NodeFits
  <2>3. QED
    BY <2>1, <2>2
<1>7. ASSUME NEW m \in NodeIds PROVE NodeFits(m)'
  <2>1. NodeFits(m)
    BY NodeFacts
  <2>2. QED
    BY <1>5, <2>1 DEF NodeFits, Names, Normalize, Tmp, SelfTestFile
<1>8. Layout'
  <2>1. \A m, k \in NodeIds : nodes'[m].name = nodes'[k].name => m = k
    BY <1>5 DEF Layout
  <2>2. Len(Initramfs) + 2 <= Len(nodes') /\ Len(nodes') <= MaxNodes
    BY <1>2 DEF Layout
  <2>3. QED
    BY <1>2, <1>4, <1>7, <2>1, <2>2 DEF Layout, NodeRecs
<1>9. NamesStay
  BY <1>1, <1>2, <1>5 DEF NamesStay
<1>10. ArchiveStays
  <2> SUFFICES ASSUME NEW m \in 1 .. Len(Initramfs) PROVE nodes'[m] = nodes[m]
    BY DEF ArchiveStays
  <2>1. m \in NodeIds /\ m # n
    BY <1>1, <1>6, ArchiveFacts DEF NodeIds, Layout
  <2>2. QED
    BY <1>3, <2>1
<1>11. QED
  BY <1>3, <1>8, <1>9, <1>10

\* vfs_create_tmpfs_file: the only directory node is /tmp, so the new file is
\* right below it.
LEMMA CreatedBelowTmp ==
  ASSUME Layout, NEW p \in Seq(Components), MayCreate(p)
  PROVE  Len(p) = 2 /\ p[1] = "tmp"
<1>1. PICK n \in NodeIds : nodes[n].name = Front(p) /\ nodes[n].kind = "directory"
  BY DEF MayCreate, Lookup, ParentPath
<1>2. NodeFits(n) /\ n \in Nat /\ Len(Initramfs) \in Nat
  BY NodeFacts, ArchiveFacts
<1>3. ~(n <= Len(Initramfs)) /\ ~(n > Len(Initramfs) + 1)
  BY <1>1, <1>2 DEF NodeFits
<1>4. nodes[n].name = Tmp
  BY <1>2, <1>3 DEF NodeFits
<1>5. Front(p) = Tmp /\ Len(p) \in Nat /\ Len(p) > 0
  BY <1>1, <1>4 DEF MayCreate
<1>6. SubSeq(p, 1, Len(p) - 1) \in Seq(Components) /\ Len(SubSeq(p, 1, Len(p) - 1)) = Len(p) - 1
  <2>1. Len(p) - 1 \in Nat /\ Len(p) - 1 <= Len(p) /\ 1 + (Len(p) - 1) = Len(p)
    BY <1>5
  <2>2. QED
    BY <1>5, <2>1, SubSeqProperties
<1>7. Len(p) - 1 = 1
  BY <1>5, <1>6, KernelNames DEF Front
<1>8. Len(p) = 2
  BY <1>5, <1>7
<1>9. SubSeq(p, 1, 1)[1] = p[1]
  BY <1>8
<1>10. QED
  BY <1>5, <1>7, <1>8, <1>9, KernelNames DEF Front

\* Which names a node can have does not depend on the state.
LEMMA NamesConstant == Names' = Names
  BY DEF Names, Normalize, Tmp, SelfTestFile

\* A file is created directly below /tmp, behind all other nodes.
LEMMA NewNode ==
  ASSUME Layout, NEW r \in NodeRecs, Len(nodes) < MaxNodes, nodes' = Append(nodes, r),
         r.kind = "file", r.len <= Len(r.data), r.name \in Names,
         Len(r.name) = 2, r.name[1] = "tmp", Lookup(r.name) = {}
  PROVE  /\ Layout' /\ NamesStay /\ ArchiveStays
         /\ Len(nodes') = Len(nodes) + 1 /\ nodes'[Len(nodes) + 1] = r
         /\ \A m \in NodeIds : nodes'[m] = nodes[m]
<1>1. nodes \in Seq(NodeRecs) /\ Len(nodes) \in Nat
  BY NodeFacts
<1>2. nodes' \in Seq(NodeRecs) /\ Len(nodes') = Len(nodes) + 1
  BY <1>1
<1>3. nodes'[Len(nodes) + 1] = r
  BY <1>1
<1>4. \A m \in NodeIds : nodes'[m] = nodes[m]
  BY <1>1 DEF NodeIds
<1>5. NodeIds' = NodeIds \cup {Len(nodes) + 1}
  BY <1>1, <1>2 DEF NodeIds
<1>6. Len(Initramfs) \in Nat /\ Len(Initramfs) + 2 <= Len(nodes)
  BY ArchiveFacts DEF Layout
<1>7. ASSUME NEW m \in NodeIds' PROVE NodeFits(m)'
  <2>1. CASE m \in NodeIds
    <3>1. NodeFits(m) /\ nodes'[m] = nodes[m]
      BY <1>4, <2>1, NodeFacts
    <3>2. QED
      BY <3>1 DEF NodeFits, Names, Normalize, Tmp, SelfTestFile
  <2>2. CASE m = Len(nodes) + 1
    <3>1. nodes'[m] = r /\ m > Len(Initramfs) + 1
      BY <1>1, <1>3, <1>6, <2>2
    <3>2. QED
      <4>1. ~(m <= Len(Initramfs)) /\ m # Len(Initramfs) + 1
        BY <1>6, <2>2, <3>1, <1>1
      <4>2. /\ nodes'[m].len <= Len(nodes'[m].data) /\ nodes'[m].kind = "file"
            /\ nodes'[m].name \in Names'
            /\ Len(nodes'[m].name) = 2 /\ nodes'[m].name[1] = "tmp"
        BY <3>1, NamesConstant
      <4>3. QED
        BY <4>1, <4>2 DEF NodeFits
  <2>3. QED
    BY <1>5, <2>1, <2>2
<1>8. ASSUME NEW m \in NodeIds', NEW k \in NodeIds', nodes'[m].name = nodes'[k].name
      PROVE  m = k
  <2>1. \A i \in NodeIds : nodes[i].name # r.name
    BY DEF Lookup
  <2>2. CASE m \in NodeIds /\ k \in NodeIds
    BY <1>4, <1>8, <2>2 DEF Layout
  <2>3. CASE m \in NodeIds /\ k = Len(nodes) + 1
    BY <1>3, <1>4, <1>8, <2>1, <2>3
  <2>4. CASE m = Len(nodes) + 1 /\ k \in NodeIds
    BY <1>3, <1>4, <1>8, <2>1, <2>4
  <2>5. QED
    BY <1>5, <2>2, <2>3, <2>4
<1>9. Layout'
  <2>1. Len(Initramfs) + 2 <= Len(nodes') /\ Len(nodes') <= MaxNodes
    BY <1>1, <1>2, <1>6, SizesAssumption
  <2>2. QED
    BY <1>2, <1>7, <1>8, <2>1 DEF Layout, NodeRecs
<1>10. NamesStay
  <2>1. Len(nodes) <= Len(nodes')
    BY <1>1, <1>2
  <2>2. \A m \in NodeIds : nodes'[m].name = nodes[m].name /\ nodes'[m].kind = nodes[m].kind
    BY <1>4
  <2>3. QED
    BY <2>1, <2>2 DEF NamesStay
<1>11. ArchiveStays
  <2>1. \A m \in 1 .. Len(Initramfs) : m \in NodeIds
    BY <1>1, <1>6 DEF NodeIds
  <2>2. QED
    BY <1>4, <2>1 DEF ArchiveStays
<1>12. QED
  BY <1>2, <1>3, <1>4, <1>9, <1>10, <1>11

\* Opening a directory.
LEMMA OpenDirectoryStep ==
  ASSUME VInv, NEW p \in Seq(Components), NEW create, OpenDirectory(p, create)
  PROVE  StepKeeps
<1>1. nodes' = nodes /\ halted' = halted /\ Layout /\ halted \in BOOLEAN
  BY DEF OpenDirectory, VInv
<1>2. Layout' /\ NamesStay /\ ArchiveStays /\ BytesStay
  BY <1>1, SameNodes
<1>3. DirectoryExists(p)
  BY DEF OpenDirectory, DirectoryExists, Lookup
<1>4. PICK r : r = DirDesc(p)
  OBVIOUS
<1>5. r \in DescRecs /\ r.offset = 0 /\ r.kind = "directory" /\ r.path = p
  BY <1>4 DEF DirDesc, DescRecs
<1>6. GoodDesc(r)'
  <2>1. DirectoryExists(p)'
    BY <1>1, <1>3 DEF DirectoryExists, Below, NodeIds
  <2>2. 0 <= Len(nodes')
    BY <1>1, NodeFacts
  <2>3. DirectoryExists(r.path)'
    BY <1>5, <2>1 DEF DirectoryExists, Below, NodeIds
  <2>4. QED
    BY <1>5, <2>2, <2>3 DEF GoodDesc, DescRecs
<1>7. Tables'
  BY <1>2, <1>4, <1>5, <1>6, AllocTables DEF OpenDirectory
<1>8. QED
  BY <1>1, <1>2, <1>7 DEF StepKeeps, VInv

\* Opening the console.
LEMMA OpenConsoleStep ==
  ASSUME VInv, OpenConsole
  PROVE  StepKeeps
<1>1. nodes' = nodes /\ halted' = halted /\ Layout /\ halted \in BOOLEAN
  BY DEF OpenConsole, VInv
<1>2. Layout' /\ NamesStay /\ ArchiveStays /\ BytesStay
  BY <1>1, SameNodes
<1>3. PICK r : r = Console
  OBVIOUS
<1>4. r \in DescRecs /\ r.offset = 0 /\ r.kind = "console"
  BY <1>3, EmptyPath DEF Console, DescRecs
<1>5. GoodDesc(r)'
  BY <1>4 DEF GoodDesc, DescRecs
<1>6. Tables'
  BY <1>2, <1>3, <1>4, <1>5, AllocTables DEF OpenConsole
<1>7. QED
  BY <1>1, <1>2, <1>6 DEF StepKeeps, VInv

\* Closing a descriptor.
LEMMA CloseStep ==
  ASSUME VInv, NEW d \in Descs, Close(d)
  PROVE  StepKeeps
<1>1. nodes' = nodes /\ halted' = halted /\ Layout /\ halted \in BOOLEAN
  BY DEF Close, VInv
<1>2. Layout' /\ NamesStay /\ ArchiveStays /\ BytesStay
  BY <1>1, SameNodes
<1>3. PICK r : r = Closed
  OBVIOUS
<1>4. r \in DescRecs /\ r.kind = "closed"
  BY <1>3, EmptyPath DEF Closed, DescRecs
<1>5. PICK l : l = <<>>
  OBVIOUS
<1>6. GoodDesc(r)' /\ GoodListing(r, l)'
  BY <1>4, <1>5, EmptyPath DEF GoodDesc, GoodListing, DescRecs
<1>7. desc' = [desc EXCEPT ![d] = r] /\ listed' = [listed EXCEPT ![d] = l]
  BY <1>3, <1>5 DEF Close
<1>8. Tables'
  BY <1>2, <1>6, <1>7, OneChanges
<1>9. QED
  BY <1>1, <1>2, <1>8 DEF StepKeeps, VInv

\* A file descriptor whose cursor has moved.
LEMMA CursorMoves ==
  ASSUME VInv, Layout', NamesStay, NEW d \in Descs, NEW o \in Nat, desc[d].kind = "file",
         desc' = [desc EXCEPT ![d].offset = o], listed' = listed
  PROVE  Tables'
<1>1. /\ desc \in [Descs -> DescRecs] /\ listed \in [Descs -> Seq(Components)] /\ Layout
      /\ GoodDesc(desc[d])
  BY DEF VInv, Tables
<1>2. PICK r : r = [desc[d] EXCEPT !.offset = o]
  OBVIOUS
<1>3. r \in DescRecs /\ r.kind = "file" /\ r.node = desc[d].node
  BY <1>1, <1>2 DEF DescRecs
<1>4. PICK l : l = listed[d]
  OBVIOUS
<1>5. desc' = [desc EXCEPT ![d] = r] /\ listed' = [listed EXCEPT ![d] = l] /\ l \in Seq(Components)
  BY <1>1, <1>2, <1>4
<1>6. r.node \in NodeIds /\ nodes[r.node].kind = "file"
  BY <1>1, <1>3 DEF GoodDesc
<1>7. r.node \in NodeIds' /\ nodes'[r.node].kind = "file"
  <2>1. Len(nodes) \in Nat /\ Len(nodes') \in Nat /\ Len(nodes) <= Len(nodes')
    <3>1. nodes \in Seq(NodeRecs) /\ nodes' \in Seq(NodeRecs)
      BY <1>1 DEF Layout, NodeRecs
    <3>2. QED
      BY <3>1, LenProperties DEF NamesStay
  <2>2. QED
    BY <1>6, <2>1 DEF NamesStay, NodeIds
<1>8. GoodDesc(r)' /\ GoodListing(r, l)'
  BY <1>3, <1>5, <1>7 DEF GoodDesc, GoodListing, DescRecs
<1>9. QED
  BY <1>5, <1>8, OneChanges

\* Reading moves the cursor by no more than what is left of the file.
LEMMA ReadStep ==
  ASSUME VInv, NEW d \in Descs, NEW length \in Nat, Read(d, length)
  PROVE  StepKeeps
<1>1. nodes' = nodes /\ halted' = halted /\ Layout /\ halted \in BOOLEAN
  BY DEF Read, VInv
<1>2. Layout' /\ NamesStay /\ ArchiveStays /\ BytesStay
  BY <1>1, SameNodes
<1>3. /\ desc \in [Descs -> DescRecs] /\ GoodDesc(desc[d]) /\ desc[d].kind = "file"
      /\ desc' = [desc EXCEPT ![d].offset = @ + Readable(d, length)] /\ listed' = listed
  BY DEF Read, VInv, Tables
<1>4. desc[d].offset \in Nat /\ desc[d].node \in NodeIds
  BY <1>3 DEF GoodDesc, DescRecs
<1>5. nodes[desc[d].node].len \in Nat
  BY <1>1, <1>4, NodeFacts
<1>6. Readable(d, length) \in Nat
  BY <1>4, <1>5 DEF Readable
<1>7. PICK o \in Nat : o = desc[d].offset + Readable(d, length)
  BY <1>4, <1>6
<1>8. desc' = [desc EXCEPT ![d].offset = o]
  BY <1>3, <1>7
<1>9. Tables'
  BY <1>2, <1>3, <1>8, CursorMoves
<1>10. QED
  BY <1>1, <1>2, <1>9 DEF StepKeeps, VInv

\* vfs_open_path of a file: truncating changes the length of a writable file
\* and none of its bytes.
LEMMA OpenFileStep ==
  ASSUME VInv, NEW p \in Seq(Components), NEW trunc \in BOOLEAN, OpenFile(p, trunc)
  PROVE  StepKeeps
<1>1. halted' = halted /\ Layout /\ halted \in BOOLEAN
  BY DEF OpenFile, VInv
<1>2. PICK n \in Lookup(p) :
        /\ nodes[n].kind = "file"
        /\ nodes' = IF Truncates(n, trunc) THEN [nodes EXCEPT ![n].len = 0] ELSE nodes
        /\ AllocDescriptor(FileDesc(n))
  BY DEF OpenFile
<1>3. n \in NodeIds /\ n \in Nat
  BY <1>1, NodeFacts DEF Lookup
<1>4. Layout' /\ NamesStay /\ ArchiveStays /\ BytesStay
  <2>1. CASE ~Truncates(n, trunc)
    BY <1>1, <1>2, <2>1, SameNodes
  <2>2. CASE Truncates(n, trunc)
    <3>1. nodes[n].writable /\ nodes' = [nodes EXCEPT ![n].len = 0]
      BY <1>2, <2>2 DEF Truncates
    <3>2. /\ nodes[n] \in NodeRecs /\ nodes \in Seq(NodeRecs)
          /\ nodes[n].data \in Seq(Nat) /\ Len(nodes[n].data) \in Nat
      BY <1>1, <1>3, NodeFacts
    <3>3. PICK r : r = [nodes[n] EXCEPT !.len = 0]
      OBVIOUS
    <3>4. /\ r \in NodeRecs /\ r.name = nodes[n].name /\ r.kind = nodes[n].kind
          /\ r.writable = nodes[n].writable /\ r.data = nodes[n].data /\ r.len = 0
      BY <3>2, <3>3 DEF NodeRecs
    <3>5. nodes' = [nodes EXCEPT ![n] = r]
      BY <3>1, <3>3
    <3>6. r.len <= Len(r.data)
      BY <3>2, <3>4
    <3>7. /\ Layout' /\ NamesStay /\ ArchiveStays
          /\ nodes'[n] = r /\ \A m \in NodeIds : m # n => nodes'[m] = nodes[m]
      BY <1>1, <1>2, <1>3, <3>1, <3>4, <3>5, <3>6, OneNode
    <3>8. \A m \in NodeIds : nodes'[m].data = nodes[m].data
      BY <3>4, <3>7
    <3>9. BytesStay
      BY <1>1, <3>8, SameBytes
    <3>10. QED
      BY <3>7, <3>9
  <2>3. QED
    BY <2>1, <2>2
<1>5. PICK r : r = FileDesc(n)
  OBVIOUS
<1>6. r \in DescRecs /\ r.offset = 0 /\ r.kind = "file" /\ r.node = n
  BY <1>3, <1>5, EmptyPath DEF FileDesc, DescRecs
<1>7. GoodDesc(r)'
  <2>1. n \in NodeIds' /\ nodes'[n].kind = "file"
    <3>1. Len(nodes) \in Nat /\ Len(nodes') \in Nat /\ Len(nodes) <= Len(nodes')
      <4>1. nodes \in Seq(NodeRecs) /\ nodes' \in Seq(NodeRecs)
        BY <1>1, <1>4 DEF Layout, NodeRecs
      <4>2. QED
        BY <1>4, <4>1, LenProperties DEF NamesStay
    <3>2. QED
      BY <1>2, <1>3, <1>4, <3>1 DEF NamesStay, NodeIds
  <2>2. QED
    BY <1>6, <2>1 DEF GoodDesc, DescRecs
<1>8. Tables'
  BY <1>2, <1>4, <1>5, <1>6, <1>7, AllocTables
<1>9. QED
  BY <1>1, <1>4, <1>8 DEF StepKeeps, VInv

\* vfs_open_path with the create flag, also when the table is full.
LEMMA OpenCreateStep ==
  ASSUME VInv, NEW p \in Seq(Components), p \in Names, OpenCreate(p)
  PROVE  StepKeeps
<1>1. Layout /\ Lookup(p) = {} /\ MayCreate(p) /\ Len(nodes) \in Nat
  BY NodeFacts DEF OpenCreate, VInv
<1>2. CASE Len(nodes) >= MaxNodes
  <2>1. halted' = TRUE /\ nodes' = nodes /\ desc' = desc /\ listed' = listed
    BY <1>2 DEF OpenCreate
  <2>2. Layout' /\ NamesStay /\ ArchiveStays /\ BytesStay
    BY <1>1, <2>1, SameNodes
  <2>3. Tables'
    BY <2>1, <2>2, NoneChanges
  <2>4. QED
    BY <2>1, <2>2, <2>3 DEF StepKeeps, VInv
<1>3. CASE ~(Len(nodes) >= MaxNodes)
  <2>1. PICK r : r = [name |-> p, kind |-> "file", writable |-> TRUE, data |-> <<>>, len |-> 0]
    OBVIOUS
  <2>2. /\ nodes' = Append(nodes, r) /\ halted' = halted
        /\ AllocDescriptor(FileDesc(Len(nodes) + 1))
    BY <1>3, <2>1 DEF OpenCreate
  <2>3. /\ r \in NodeRecs /\ r.name = p /\ r.kind = "file" /\ r.len <= Len(r.data)
    <3>1. <<>> \in Seq(Nat)
      OBVIOUS
    <3>2. QED
      BY <2>1, <3>1 DEF NodeRecs
  <2>4. Len(p) = 2 /\ p[1] = "tmp"
    BY <1>1, CreatedBelowTmp
  <2>5. Len(nodes) < MaxNodes
    BY <1>1, <1>3, SizesAssumption
  <2>6. /\ Len(r.name) = 2 /\ r.name[1] = "tmp" /\ Lookup(r.name) = {} /\ r.name \in Names
    BY <1>1, <2>3, <2>4
  <2>7. /\ Layout' /\ NamesStay /\ ArchiveStays
        /\ Len(nodes') = Len(nodes) + 1 /\ nodes'[Len(nodes) + 1] = r
        /\ \A m \in NodeIds : nodes'[m] = nodes[m]
    BY <1>1, <2>2, <2>3, <2>5, <2>6, NewNode
  <2>8. BytesStay
    <3>1. \A m \in NodeIds : nodes'[m].data = nodes[m].data
      BY <2>7
    <3>2. QED
      BY <1>1, <3>1, SameBytes
  <2>9. PICK n : n = Len(nodes) + 1
    OBVIOUS
  <2>10. PICK f : f = FileDesc(n)
    OBVIOUS
  <2>11. n \in Nat /\ n \in NodeIds' /\ nodes'[n].kind = "file"
    <3>1. n \in Nat /\ n \in 1 .. Len(nodes')
      BY <1>1, <2>7, <2>9
    <3>2. nodes'[n] = r
      BY <2>7, <2>9
    <3>3. QED
      BY <2>3, <3>1, <3>2 DEF NodeIds
  <2>12. f \in DescRecs /\ f.offset = 0 /\ f.kind = "file" /\ f.node = n
    BY <2>10, <2>11, EmptyPath DEF FileDesc, DescRecs
  <2>13. GoodDesc(f)'
    BY <2>11, <2>12 DEF GoodDesc, DescRecs
  <2>14. AllocDescriptor(f)
    BY <2>2, <2>9, <2>10
  <2>15. Tables'
    BY <2>7, <2>12, <2>13, <2>14, AllocTables
  <2>16. halted' \in BOOLEAN
    BY <2>2 DEF VInv
  <2>17. QED
    BY <2>7, <2>8, <2>15, <2>16 DEF StepKeeps, VInv
<1>4. QED
  BY <1>2, <1>3

\* vfs_grow_node_data: the buffer is large enough, no smaller than before, and
\* keeps the bytes of the file; behind them it is the old buffer or zero.
LEMMA GrownFacts ==
  ASSUME Layout, NEW n \in NodeIds, NEW min \in Nat
  PROVE  /\ Grown(n, min) \in Seq(Nat) /\ Len(Grown(n, min)) \in Nat
         /\ min <= Len(Grown(n, min)) /\ Len(nodes[n].data) <= Len(Grown(n, min))
         /\ \A k \in 1 .. nodes[n].len : Grown(n, min)[k] = nodes[n].data[k]
         /\ \A k \in 1 .. Len(Grown(n, min)) :
              \/ k <= Len(nodes[n].data) /\ Grown(n, min)[k] = nodes[n].data[k]
              \/ k > nodes[n].len /\ Grown(n, min)[k] = 0
<1> DEFINE data == nodes[n].data
           len == nodes[n].len
           cap == NewCapacity(n, min)
<1>1. data \in Seq(Nat) /\ Len(data) \in Nat /\ len \in Nat /\ len <= Len(data)
  BY NodeFacts DEF NodeFits
<1>2. CASE min <= Len(data)
  <2>1. Grown(n, min) = data
    BY <1>2 DEF Grown
  <2> HIDE DEF data, len
  <2>2. QED
    BY <1>1, <1>2, <2>1 DEF data, len
<1>3. CASE ~(min <= Len(data))
  <2>1. Grown(n, min) = Buffer(SubSeq(data, 1, len), cap)
    BY <1>3 DEF Grown
  <2>2. cap \in Nat /\ min <= cap /\ Len(data) <= cap
    BY <1>1, SizesAssumption DEF NewCapacity, Larger
  <2>3. PICK kept \in Seq(Nat) :
          /\ kept = SubSeq(data, 1, len) /\ Len(kept) = len
          /\ \A k \in 1 .. len : kept[k] = data[k]
    <3> HIDE DEF data, len
    <3>1. /\ SubSeq(data, 1, len) \in Seq(Nat) /\ Len(SubSeq(data, 1, len)) = len
          /\ \A k \in 1 .. len : SubSeq(data, 1, len)[k] = data[k]
      BY <1>1
    <3>2. QED
      BY <3>1
  <2> HIDE DEF data, len, cap
  <2>4. /\ Buffer(kept, cap) \in Seq(Nat) /\ Len(Buffer(kept, cap)) = cap
        /\ \A k \in 1 .. cap : k <= Len(kept) => Buffer(kept, cap)[k] = kept[k]
        /\ \A k \in 1 .. cap : ~(k <= Len(kept)) => Buffer(kept, cap)[k] = 0
    BY <2>2, BufferFacts
  <2>5. \A k \in 1 .. len : k \in 1 .. cap /\ k <= Len(kept)
    BY <1>1, <2>2, <2>3
  <2>6. Grown(n, min) = Buffer(kept, cap)
    BY <2>1, <2>3
  <2>7. \A k \in 1 .. len : Grown(n, min)[k] = data[k]
    BY <2>3, <2>4, <2>5, <2>6
  <2>8. Grown(n, min) \in Seq(Nat) /\ Len(Grown(n, min)) = cap
    BY <2>4, <2>6
  <2>9. min <= Len(Grown(n, min)) /\ Len(data) <= Len(Grown(n, min))
        /\ Len(Grown(n, min)) \in Nat
    BY <2>2, <2>8
  <2>10. \A k \in 1 .. nodes[n].len : Grown(n, min)[k] = nodes[n].data[k]
    BY <2>7 DEF data, len
  <2>11. Len(nodes[n].data) <= Len(Grown(n, min))
    BY <2>9 DEF data
  <2>12. \A k \in 1 .. cap :
           \/ k <= Len(data) /\ Grown(n, min)[k] = data[k]
           \/ k > len /\ Grown(n, min)[k] = 0
    <3> TAKE k \in 1 .. cap
    <3>1. CASE k <= len
      <4>1. k \in 1 .. len /\ k <= Len(data)
        BY <1>1, <2>2, <3>1
      <4>2. QED
        BY <2>7, <4>1
    <3>2. CASE ~(k <= len)
      <4>1. Grown(n, min)[k] = 0
        BY <2>3, <2>4, <2>6, <3>2
      <4>2. k > len
        BY <1>1, <2>2, <3>2
      <4>3. QED
        BY <4>1, <4>2
    <3>3. QED
      BY <3>1, <3>2
  <2>13. \A k \in 1 .. Len(Grown(n, min)) :
           \/ k <= Len(nodes[n].data) /\ Grown(n, min)[k] = nodes[n].data[k]
           \/ k > nodes[n].len /\ Grown(n, min)[k] = 0
    BY <2>8, <2>12 DEF data, len
  <2>14. QED
    BY <2>8, <2>9, <2>10, <2>11, <2>13
<1>4. QED
  BY <1>2, <1>3

\* vfs_write_descriptor.
LEMMA WriteStep ==
  ASSUME VInv, NEW d \in Descs, NEW s \in Writes, Write(d, s)
  PROVE  StepKeeps
<1>1. Layout /\ desc \in [Descs -> DescRecs] /\ GoodDesc(desc[d]) /\ halted \in BOOLEAN
  BY DEF VInv, Tables
<1>2. s \in Seq(Nat) /\ Len(s) \in Nat /\ \A k \in 1 .. Len(s) : s[k] \in Nat
  <2>1. PICK m \in 0 .. MaxSize : s \in [1 .. m -> Bytes]
    BY DEF Writes
  <2>2. m \in Nat /\ s \in [1 .. m -> Nat]
    <3>1. m \in Nat /\ Bytes \subseteq Nat
      BY SizesAssumption
    <3>2. \A k \in 1 .. m : s[k] \in Nat
      BY <2>1, <3>1
    <3>3. QED
      BY <2>1, <3>1, <3>2
  <2>3. s \in Seq(Nat)
    BY <2>2, SeqDef
  <2>4. QED
    BY <2>3
<1> DEFINE off == desc[d].offset
           end == off + Len(s)
<1>3. PICK n : n = desc[d].node
  OBVIOUS
<1>4. n \in NodeIds /\ off \in Nat /\ end \in Nat /\ desc[d].kind = "file"
  BY <1>1, <1>2, <1>3 DEF Write, GoodDesc, DescRecs
<1>5. PICK buf : buf = Grown(n, end)
  OBVIOUS
<1> DEFINE data == [k \in 1 .. Len(buf) |-> IF off < k /\ k <= end THEN s[k - off] ELSE buf[k]]
           len == Larger(end, nodes[n].len)
<1>6. /\ nodes[n].writable
      /\ nodes' = [nodes EXCEPT ![n].data = data, ![n].len = len]
      /\ desc' = [desc EXCEPT ![d].offset = end]
      /\ halted' = halted /\ listed' = listed
  BY <1>3, <1>5 DEF Write
<1>7. /\ buf \in Seq(Nat) /\ Len(buf) \in Nat
      /\ end <= Len(buf) /\ Len(nodes[n].data) <= Len(buf)
      /\ \A k \in 1 .. Len(buf) :
           \/ k <= Len(nodes[n].data) /\ buf[k] = nodes[n].data[k]
           \/ k > nodes[n].len /\ buf[k] = 0
  BY <1>1, <1>4, <1>5, GrownFacts
<1>8. /\ nodes[n] \in NodeRecs /\ nodes[n].len \in Nat /\ Len(nodes[n].data) \in Nat
      /\ nodes[n].len <= Len(nodes[n].data) /\ nodes[n].kind = "file"
      /\ nodes \in Seq(NodeRecs)
  BY <1>1, <1>3, <1>4, NodeFacts DEF NodeFits, GoodDesc
<1>9. len \in Nat /\ len <= Len(buf) /\ nodes[n].len <= len
  BY <1>4, <1>7, <1>8 DEF Larger
<1>10. data \in Seq(Nat) /\ Len(data) = Len(buf)
  <2> HIDE DEF end, off
  <2>1. ASSUME NEW k \in 1 .. Len(buf)
        PROVE  (IF off < k /\ k <= end THEN s[k - off] ELSE buf[k]) \in Nat
    <3>1. CASE off < k /\ k <= end
      <4>1. k - off \in 1 .. Len(s)
        BY <1>2, <1>4, <3>1 DEF end
      <4>2. QED
        BY <1>2, <3>1, <4>1
    <3>2. CASE ~(off < k /\ k <= end)
      <4>1. buf[k] \in Nat
        BY <1>7
      <4>2. QED
        BY <3>2, <4>1
    <3>3. QED
      BY <3>1, <3>2
  <2>2. data \in [1 .. Len(buf) -> Nat]
    BY <2>1
  <2> HIDE DEF data
  <2>3. QED
    BY <1>7, <2>2, SeqDef
<1>11. \A k \in 1 .. Len(buf) : ~(off < k /\ k <= end) => data[k] = buf[k]
  OBVIOUS
<1> HIDE DEF data, len
<1>12. PICK r : r = [nodes[n] EXCEPT !.data = data, !.len = len]
  OBVIOUS
<1>13. /\ r \in NodeRecs /\ r.name = nodes[n].name /\ r.kind = nodes[n].kind
       /\ r.writable = nodes[n].writable /\ r.data = data /\ r.len = len
  BY <1>8, <1>9, <1>10, <1>12 DEF NodeRecs
<1>14. nodes' = [nodes EXCEPT ![n] = r]
  BY <1>6, <1>12
<1>15. r.len <= Len(r.data)
  BY <1>9, <1>10, <1>13
<1>16. /\ Layout' /\ NamesStay /\ ArchiveStays
       /\ nodes'[n] = r /\ \A m \in NodeIds : m # n => nodes'[m] = nodes[m]
  BY <1>1, <1>4, <1>6, <1>8, <1>13, <1>14, <1>15, OneNode
<1>17. BytesStay
  <2> SUFFICES ASSUME NEW m \in NodeIds, NEW k \in 1 .. Len(nodes'[m].data)
               PROVE  \/ k <= Len(nodes[m].data) /\ nodes'[m].data[k] = nodes[m].data[k]
                      \/ k > nodes[m].len /\ nodes'[m].data[k] = 0
                      \/ Written(m, k)
    BY DEF BytesStay
  <2>1. CASE m # n
    <3>1. nodes[m].data \in Seq(Nat) /\ nodes'[m].data = nodes[m].data
      BY <1>1, <1>16, <2>1, NodeFacts
    <3>2. k <= Len(nodes[m].data)
      BY <3>1
    <3>3. QED
      BY <3>1, <3>2
  <2>2. CASE m = n
    <3>1. k \in 1 .. Len(buf) /\ nodes'[n].data[k] = data[k]
      BY <1>10, <1>13, <1>16, <2>2
    <3>2. CASE off < k /\ k <= end
      <4>1. desc'[d].offset = end
        BY <1>1, <1>6
      <4>2. QED
        BY <1>3, <1>4, <2>2, <3>2, <4>1 DEF Written
    <3>3. CASE ~(off < k /\ k <= end)
      BY <1>7, <1>11, <2>2, <3>1, <3>3
    <3>4. QED
      BY <3>2, <3>3
  <2>3. QED
    BY <2>1, <2>2
<1>18. Tables'
  BY <1>4, <1>6, <1>16, CursorMoves
<1>19. QED
  BY <1>1, <1>6, <1>16, <1>17, <1>18 DEF StepKeeps, VInv

\* The first node that gives a directory some entry.
LEMMA FirstGiver ==
  ASSUME Layout, NEW d, NEW i \in NodeIds,
         Below(i, desc[d].path)
  PROVE  \E m \in NodeIds :
           /\ m <= i /\ Below(m, desc[d].path) /\ ~SeenBefore(d, m)
           /\ Child(m, desc[d].path) = Child(i, desc[d].path)
<1> DEFINE p == desc[d].path
           Givers == {m \in NodeIds : m <= i /\ Below(m, p) /\ Child(m, p) = Child(i, p)}
<1>1. i \in Givers /\ Givers \in SUBSET Nat
  <2>1. \A m \in NodeIds : m \in Nat
    BY NodeFacts
  <2>2. i \in Nat
    BY <2>1
  <2>3. i <= i
    BY <2>2
  <2>4. QED
    BY <2>1, <2>3
<1>2. PICK m \in Givers : \A k \in Givers : m <= k
  <2> HIDE DEF Givers
  <2>1. QED
    BY <1>1, LeastNatural
<1>3. m \in NodeIds /\ m <= i /\ Below(m, p) /\ Child(m, p) = Child(i, p)
  BY <1>2
<1>4. ASSUME NEW k \in 1 .. m - 1, Below(k, p), Child(k, p) = Child(m, p)
      PROVE  FALSE
  <2>1. k \in NodeIds /\ k <= i /\ ~(m <= k)
    <3>1. Len(nodes) \in Nat /\ i \in Nat /\ m \in Nat
      BY <1>3, NodeFacts
    <3>2. m <= Len(nodes)
      BY <1>3, <3>1 DEF NodeIds
    <3>3. k \in 1 .. Len(nodes) /\ k <= i /\ ~(m <= k)
      BY <1>3, <3>1, <3>2
    <3>4. QED
      BY <3>3 DEF NodeIds
  <2>2. k \in Givers
    BY <1>3, <1>4, <2>1
  <2>3. QED
    BY <1>2, <2>1, <2>2
<1>5. ~SeenBefore(d, m)
  BY <1>4 DEF SeenBefore
<1>6. QED
  BY <1>3, <1>5

\* vfs_readdir_descriptor: the cursor skips nothing that is not returned yet,
\* and returns nothing twice.
LEMMA ReaddirStep ==
  ASSUME VInv, NEW d \in Descs, Readdir(d)
  PROVE  StepKeeps
<1>1. nodes' = nodes /\ halted' = halted /\ Layout /\ halted \in BOOLEAN
  BY DEF Readdir, VInv
<1>2. Layout' /\ NamesStay /\ ArchiveStays /\ BytesStay
  BY <1>1, SameNodes
<1>3. /\ desc \in [Descs -> DescRecs] /\ listed \in [Descs -> Seq(Components)]
      /\ GoodDesc(desc[d]) /\ GoodListing(desc[d], listed[d]) /\ desc[d].kind = "directory"
  BY DEF VInv, Tables, Readdir
<1>4. PICK p : p = desc[d].path
  OBVIOUS
<1>5. PICK o : o = desc[d].offset
  OBVIOUS
<1>6. PICK old : old = listed[d]
  OBVIOUS
<1>7. p \in Seq(Components) /\ Len(p) \in Nat /\ o \in Nat /\ old \in Seq(Components)
  BY <1>3, <1>4, <1>5, <1>6 DEF DescRecs
<1>8. PICK n \in o + 1 .. Len(nodes) :
        /\ NewEntry(d, n) /\ \A m \in o + 1 .. n - 1 : ~NewEntry(d, m)
        /\ desc' = [desc EXCEPT ![d].offset = n]
        /\ listed' = [listed EXCEPT ![d] = Append(@, Child(n, p))]
  BY <1>4, <1>5 DEF Readdir
<1>9. PICK c : c = Child(n, p)
  OBVIOUS
<1>10. n \in NodeIds /\ n \in Nat /\ o < n /\ Len(nodes) \in Nat /\ n <= Len(nodes)
  BY <1>1, <1>7, <1>8, NodeFacts DEF NodeIds
<1>11. Below(n, p) /\ c # "" /\ ~SeenBefore(d, n)
  BY <1>4, <1>8, <1>9 DEF NewEntry
<1>12. c \in Components
  <2>1. nodes[n].name \in Seq(Components) /\ Len(p) + 1 \in 1 .. Len(nodes[n].name)
    <3>1. nodes[n].name \in Seq(Components) /\ Len(nodes[n].name) \in Nat
      BY <1>1, <1>10, NodeFacts
    <3>2. Len(nodes[n].name) > Len(p)
      BY <1>11 DEF Below
    <3>3. QED
      BY <1>7, <3>1, <3>2
  <2>2. nodes[n].name[Len(p) + 1] \in Components
    BY <2>1, ElementOfSeq
  <2>3. QED
    BY <1>9, <2>2 DEF Child
<1>13. PICK l : l = Append(old, c)
  OBVIOUS
<1>14. /\ l \in Seq(Components) /\ Len(old) \in Nat /\ Len(l) = Len(old) + 1
       /\ l[Len(old) + 1] = c /\ \A k \in 1 .. Len(old) : l[k] = old[k]
  BY <1>7, <1>12, <1>13
<1>15. PICK r : r = [desc[d] EXCEPT !.offset = n]
  OBVIOUS
<1>16. r \in DescRecs /\ r.kind = "directory" /\ r.path = p /\ r.offset = n
  BY <1>3, <1>4, <1>10, <1>15 DEF DescRecs
<1>17. desc' = [desc EXCEPT ![d] = r] /\ listed' = [listed EXCEPT ![d] = l]
  BY <1>3, <1>6, <1>8, <1>9, <1>13, <1>15
<1>18. /\ \A i \in 1 .. o : Below(i, p) /\ Child(i, p) # "" =>
            \E k \in 1 .. Len(old) : old[k] = Child(i, p)
       /\ \A j, k \in 1 .. Len(old) : old[j] = old[k] => j = k
       /\ \A k \in 1 .. Len(old) : \E i \in 1 .. o : Below(i, p) /\ Child(i, p) = old[k]
  BY <1>3, <1>4, <1>5, <1>6 DEF GoodListing
<1>19. ASSUME NEW i \in 1 .. n, Below(i, p), Child(i, p) # ""
       PROVE  \E k \in 1 .. Len(l) : l[k] = Child(i, p)
  <2>1. CASE i = n
    <3>1. Len(old) + 1 \in 1 .. Len(l)
      BY <1>14
    <3>2. QED
      BY <1>9, <1>14, <2>1, <3>1
  <2>2. CASE i # n
    <3>1. i \in NodeIds /\ i \in Nat /\ i < n
      BY <1>10, <2>2 DEF NodeIds
    <3>2. PICK m \in NodeIds : /\ m <= i /\ Below(m, p) /\ ~SeenBefore(d, m)
                               /\ Child(m, p) = Child(i, p)
      BY <1>1, <1>4, <1>19, <3>1, FirstGiver
    <3>3. Below(m, p) /\ Child(m, p) # "" /\ NewEntry(d, m)
      BY <1>4, <1>19, <3>2 DEF NewEntry
    <3>4. m \in Nat /\ m > 0
      BY <1>1, NodeFacts
    <3>5. m \in 1 .. o
      <4>1. m \notin o + 1 .. n - 1
        BY <1>8, <3>3
      <4>2. m <= i
        BY <3>2
      <4>3. QED
        BY <1>7, <1>10, <3>1, <3>4, <4>1, <4>2
    <3>6. PICK k \in 1 .. Len(old) : old[k] = Child(m, p)
      BY <1>18, <3>5, <3>3
    <3>7. k \in 1 .. Len(l) /\ l[k] = old[k]
      BY <1>14
    <3>8. QED
      BY <3>2, <3>6, <3>7
  <2>3. QED
    BY <2>1, <2>2
<1>20. \A k \in 1 .. Len(old) : old[k] # c
  <2> SUFFICES ASSUME NEW k \in 1 .. Len(old), old[k] = c PROVE FALSE
    OBVIOUS
  <2>1. PICK i \in 1 .. o : Below(i, p) /\ Child(i, p) = old[k]
    BY <1>18
  <2>2. i \in 1 .. n - 1
    BY <1>7, <1>10
  <2>3. SeenBefore(d, n)
    BY <1>4, <1>9, <2>1, <2>2 DEF SeenBefore
  <2>4. QED
    BY <1>11, <2>3
<1>21. ASSUME NEW j \in 1 .. Len(l), NEW k \in 1 .. Len(l), l[j] = l[k]
       PROVE  j = k
  <2>1. j \in 1 .. Len(old) \/ j = Len(old) + 1
    BY <1>14
  <2>2. k \in 1 .. Len(old) \/ k = Len(old) + 1
    BY <1>14
  <2>3. CASE j \in 1 .. Len(old) /\ k \in 1 .. Len(old)
    BY <1>14, <1>18, <1>21, <2>3
  <2>4. CASE j \in 1 .. Len(old) /\ k = Len(old) + 1
    BY <1>14, <1>20, <1>21, <2>4
  <2>5. CASE j = Len(old) + 1 /\ k \in 1 .. Len(old)
    BY <1>14, <1>20, <1>21, <2>5
  <2>6. QED
    BY <2>1, <2>2, <2>3, <2>4, <2>5
<1>22. ASSUME NEW k \in 1 .. Len(l)
       PROVE  \E i \in 1 .. n : Below(i, p) /\ Child(i, p) = l[k]
  <2>1. CASE k \in 1 .. Len(old)
    <3>1. PICK i \in 1 .. o : Below(i, p) /\ Child(i, p) = old[k]
      BY <1>18, <2>1
    <3>2. i \in 1 .. n /\ l[k] = old[k]
      BY <1>7, <1>10, <1>14, <2>1
    <3>3. QED
      BY <3>1, <3>2
  <2>2. CASE k = Len(old) + 1
    <3>1. n \in 1 .. n
      BY <1>7, <1>10
    <3>2. QED
      BY <1>9, <1>11, <1>14, <2>2, <3>1
  <2>3. QED
    BY <1>14, <2>1, <2>2
<1>23. GoodListing(r, l)
  BY <1>14, <1>16, <1>19, <1>21, <1>22 DEF GoodListing
<1>24. GoodDesc(r)
  <2>1. DirectoryExists(p)
    BY <1>3, <1>4 DEF GoodDesc
  <2>2. QED
    BY <1>10, <1>16, <2>1 DEF GoodDesc
<1>25. GoodDesc(r)' /\ GoodListing(r, l)'
  BY <1>1, <1>2, <1>23, <1>24, StaysGood
<1>26. Tables'
  BY <1>2, <1>17, <1>25, OneChanges
<1>27. QED
  BY <1>1, <1>2, <1>26 DEF StepKeeps, VInv

\* Nothing changes.
LEMMA StutterStep ==
  ASSUME VInv, UNCHANGED vars
  PROVE  StepKeeps
<1>1. /\ nodes' = nodes /\ desc' = desc /\ listed' = listed /\ halted' = halted
      /\ Layout /\ halted \in BOOLEAN
  BY DEF vars, VInv
<1>2. Layout' /\ NamesStay /\ ArchiveStays /\ BytesStay
  BY <1>1, SameNodes
<1>3. Tables'
  BY <1>1, <1>2, NoneChanges
<1>4. QED
  BY <1>1, <1>2, <1>3 DEF StepKeeps, VInv

\* Every call keeps the invariant, and what the action properties ask for.
LEMMA VfsStep ==
  ASSUME VInv, [Next]_vars
  PROVE  StepKeeps
<1>1. ASSUME NEW path \in OpenedPaths, NEW create \in BOOLEAN,
             OpenDirectory(Normalize(path), create)
      PROVE  StepKeeps
  BY <1>1, NormalizeType, OpenDirectoryStep
<1>2. ASSUME NEW path \in OpenedPaths, NEW trunc \in BOOLEAN, OpenFile(Normalize(path), trunc)
      PROVE  StepKeeps
  BY <1>2, NormalizeType, OpenFileStep
<1>3. ASSUME NEW path \in OpenedPaths, OpenCreate(Normalize(path))
      PROVE  StepKeeps
  BY <1>3, NormalizeType, OpenCreateStep
<1>4. CASE OpenConsole
  BY <1>4, OpenConsoleStep
<1>5. ASSUME NEW d \in Descs, Close(d)
      PROVE  StepKeeps
  BY <1>5, CloseStep
<1>6. ASSUME NEW d \in Descs, NEW s \in Writes, Write(d, s)
      PROVE  StepKeeps
  BY <1>6, WriteStep
<1>7. ASSUME NEW d \in Descs, NEW length \in 0 .. MaxSize, Read(d, length)
      PROVE  StepKeeps
  <2>1. length \in Nat
    BY SizesAssumption
  <2>2. QED
    BY <1>7, <2>1, ReadStep
<1>8. ASSUME NEW d \in Descs, Readdir(d)
      PROVE  StepKeeps
  BY <1>8, ReaddirStep
<1>9. CASE Halted
  BY <1>9, StutterStep DEF Halted
<1>10. CASE UNCHANGED vars
  BY <1>10, StutterStep
<1>11. QED
  BY <1>1, <1>2, <1>3, <1>4, <1>5, <1>6, <1>7, <1>8, <1>9, <1>10 DEF Next

-----------------------------------------------------------------------------
(***************************************************************************)
(* Theorems.                                                               *)
(***************************************************************************)

\* The invariant of the node and descriptor tables of kvfs.py, after any
\* sequence of opens, reads, writes, listings and closes.
THEOREM VfsInvariance == Spec => []VInv
<1>1. VInv /\ [Next]_vars => VInv'
  BY VfsStep DEF StepKeeps
<1>2. QED
  BY InitVfs, <1>1, PTL DEF Spec

\* The tables agree: lengths lie within buffers, the node table within its
\* limit, and every open descriptor names what it was opened for.
THEOREM TablesAgree == Spec => []TypeOK
<1>1. VInv => TypeOK
  <2> SUFFICES ASSUME VInv PROVE TypeOK
    OBVIOUS
  <2>1. Layout /\ halted \in BOOLEAN
    BY DEF VInv
  <2>2. ASSUME NEW n \in NodeIds
        PROVE  /\ nodes[n].name \in Names /\ nodes[n].kind \in {"file", "directory"}
               /\ nodes[n].writable \in BOOLEAN
               /\ nodes[n].len \in 0 .. Len(nodes[n].data)
    <3>1. /\ n \in Nat /\ n > 0 /\ NodeFits(n) /\ nodes[n].kind \in {"file", "directory"}
          /\ nodes[n].writable \in BOOLEAN /\ nodes[n].len \in Nat
          /\ Len(nodes[n].data) \in Nat
      BY <2>1, NodeFacts
    <3>2. nodes[n].len \in 0 .. Len(nodes[n].data)
      BY <3>1 DEF NodeFits
    <3>3. n \in 1 .. Len(Initramfs) \/ n = Len(Initramfs) + 1 \/ n > Len(Initramfs) + 1
      BY <3>1, ArchiveFacts
    <3>4. nodes[n].name \in Names
      <4>1. CASE n \in 1 .. Len(Initramfs)
        <5>1. n <= Len(Initramfs)
          BY <4>1
        <5>2. QED
          BY <3>1, <4>1, <5>1, ArchiveFacts DEF NodeFits
      <4>2. CASE n = Len(Initramfs) + 1
        BY <3>1, <4>2, KernelNames DEF NodeFits
      <4>3. CASE n > Len(Initramfs) + 1
        BY <3>1, <4>3 DEF NodeFits
      <4>4. QED
        BY <3>3, <4>1, <4>2, <4>3
    <3>5. QED
      BY <3>1, <3>2, <3>4
  <2>3. Len(nodes) <= MaxNodes
    BY <2>1 DEF Layout
  <2>4. ASSUME NEW d \in Descs
        PROVE  /\ desc[d].kind \in {"closed", "file", "directory", "console"}
               /\ desc[d].offset \in Nat
               /\ desc[d].kind = "file" =>
                    desc[d].node \in NodeIds /\ nodes[desc[d].node].kind = "file"
               /\ desc[d].kind = "directory" => DirectoryExists(desc[d].path)
    <3>1. GoodDesc(desc[d])
      BY DEF VInv, Tables
    <3>2. QED
      BY <3>1 DEF GoodDesc, DescRecs
  <2>5. QED
    BY <2>1, <2>2, <2>3, <2>4 DEF TypeOK
<1>2. QED
  BY <1>1, VfsInvariance, PTL

\* A path means one thing: no two nodes share a name, and no file has nodes
\* below it, so vfs_lookup_path and vfs_directory_exists never both find it.
THEOREM PathsAreUnique == Spec => []NamesUnique
<1>1. VInv => NamesUnique
  <2> SUFFICES ASSUME VInv PROVE NamesUnique
    OBVIOUS
  <2>1. Layout
    BY DEF VInv
  <2>2. \A m, n \in NodeIds : nodes[m].name = nodes[n].name => m = n
    BY <2>1 DEF Layout
  <2>3. ASSUME NEW m \in NodeIds, NEW n \in NodeIds, nodes[m].kind = "file",
               Below(n, nodes[m].name)
        PROVE  FALSE
    <3>1. PICK a \in Seq(Components) : a = nodes[m].name
      BY <2>1, NodeFacts
    <3>2. PICK b \in Seq(Components) : b = nodes[n].name
      BY <2>1, NodeFacts
    <3>3. Len(a) \in Nat /\ Len(b) \in Nat /\ Len(b) > Len(a) /\ SubSeq(b, 1, Len(a)) = a
      BY <2>3, <3>1, <3>2 DEF Below
    <3>4. Len(a) > 0 => b[1] = a[1]
      <4>1. Len(a) > 0 => SubSeq(b, 1, Len(a))[1] = b[1]
        BY <3>3
      <4>2. QED
        BY <3>3, <4>1
    <3>5. /\ NodeFits(m) /\ NodeFits(n) /\ m \in Nat /\ m > 0 /\ n \in Nat /\ n > 0
          /\ Len(Initramfs) \in Nat
      BY <2>1, NodeFacts, ArchiveFacts
    <3>6. m # Len(Initramfs) + 1
      BY <2>3, <3>5 DEF NodeFits
    <3>7. CASE m <= Len(Initramfs)
      <4>1. m \in 1 .. Len(Initramfs) /\ a = Initramfs[m].name
        BY <3>1, <3>5, <3>7 DEF NodeFits
      <4>2. Len(a) > 0 /\ a[1] # "tmp"
        BY <4>1, ArchiveFacts
      <4>3. CASE n <= Len(Initramfs)
        <5>1. n \in 1 .. Len(Initramfs) /\ b = Initramfs[n].name
          BY <3>2, <3>5, <4>3 DEF NodeFits
        <5>2. Len(b) >= Len(a)
          BY <3>3
        <5>3. n = m
          BY <3>3, <4>1, <5>1, <5>2, ArchiveFacts
        <5>4. a = b
          BY <3>1, <3>2, <5>3
        <5>5. QED
          BY <3>3, <5>4
      <4>4. CASE n = Len(Initramfs) + 1
        <5>1. b = Tmp
          BY <3>2, <3>5, <4>4 DEF NodeFits
        <5>2. QED
          BY <3>3, <4>2, <5>1, KernelNames
      <4>5. CASE n > Len(Initramfs) + 1
        <5>1. b[1] = "tmp"
          BY <3>2, <3>5, <4>5 DEF NodeFits
        <5>2. QED
          BY <3>4, <4>2, <5>1
      <4>6. QED
        BY <3>5, <4>3, <4>4, <4>5
    <3>8. CASE m > Len(Initramfs) + 1
      <4>1. Len(a) = 2 /\ a[1] = "tmp"
        BY <3>1, <3>5, <3>8 DEF NodeFits
      <4>2. b[1] = "tmp" /\ Len(b) > 2
        BY <3>3, <3>4, <4>1
      <4>3. CASE n <= Len(Initramfs)
        <5>1. n \in 1 .. Len(Initramfs) /\ b = Initramfs[n].name
          BY <3>2, <3>5, <4>3 DEF NodeFits
        <5>2. QED
          BY <4>2, <5>1, ArchiveFacts
      <4>4. CASE n = Len(Initramfs) + 1
        <5>1. b = Tmp
          BY <3>2, <3>5, <4>4 DEF NodeFits
        <5>2. QED
          BY <4>2, <5>1, KernelNames
      <4>5. CASE n > Len(Initramfs) + 1
        <5>1. Len(b) = 2
          BY <3>2, <3>5, <4>5 DEF NodeFits
        <5>2. QED
          BY <4>2, <5>1
      <4>6. QED
        BY <3>5, <4>3, <4>4, <4>5
    <3>9. QED
      BY <3>5, <3>6, <3>7, <3>8
  <2>4. QED
    BY <2>2, <2>3 DEF NamesUnique
<1>2. QED
  BY <1>1, VfsInvariance, PTL

\* A listing with vfs_readdir_descriptor returns every name of the directory
\* that the cursor has passed, once, whatever is created meanwhile.
THEOREM ListingsAreExact == Spec => []ListingExact
<1>1. VInv => ListingExact
  BY DEF VInv, Tables, GoodListing, ListingExact
<1>2. QED
  BY <1>1, VfsInvariance, PTL

\* No call changes a node of the archive.
THEOREM ArchiveIsReadOnly == Spec => InitramfsKept
<1>1. VInv /\ [Next]_vars => [ArchiveStays]_vars
  BY VfsStep DEF StepKeeps
<1>2. QED
  BY <1>1, VfsInvariance, PTL DEF Spec, InitramfsKept, ArchiveStays

\* A byte of a file's buffer changes only where a write through a descriptor of
\* that file went, or becomes zero behind the end of the file, also when the
\* write makes vfs_grow_node_data move the buffer or goes behind the end.
THEOREM BytesChangeByWriting == Spec => OnlyWritesChange
<1>1. VInv /\ [Next]_vars => [BytesStay]_vars
  BY VfsStep DEF StepKeeps
<1>2. QED
  BY <1>1, VfsInvariance, PTL DEF Spec, OnlyWritesChange, BytesStay, Written
=============================================================================
