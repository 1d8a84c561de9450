------------------------- MODULE ProgramStartProofs -------------------------
(***************************************************************************)
(* Theorems about ProgramStart.tla, for every size of page, word, string   *)
(* and vector that RoomAssumption allows.                                  *)
(***************************************************************************)
EXTENDS ProgramStart, SequenceTheorems, WellFoundedInduction, TLAPS

Before == {"vectors", "image", "create", "segments", "refused", "panic"}

\* A string that was copied: every byte before the NUL.
Strings == Seq(Nat \ {0})

\* The strings in the kernel are as few and as short as the copies allow.
VectorsInv ==
  /\ args \in Seq(Strings) /\ Len(args) <= MaxArgs
  /\ envs \in Seq(Strings) /\ Len(envs) <= MaxEnv
  /\ \A i \in 1 .. Len(args) : Len(args[i]) < MaxString
  /\ \A i \in 1 .. Len(envs) : Len(envs[i]) < MaxString

\* How much of the stack page is used when so many strings have been pushed.
Room(k) == PageSize - k * MaxString

StackInv ==
  /\ pc \in Before \cup {"envs", "args", "ready"}
  /\ off \in Int
  /\ pc \in Before => off = PageSize
  /\ pc = "envs" => next \in 0 .. Len(envs) /\ off >= Room(Len(envs) - next)
  /\ pc = "args" => next \in 0 .. Len(args) /\ off >= Room(Len(envs) + Len(args) - next)
  /\ pc = "ready" => off >= 0

Inv == call \in Inputs /\ VectorsInv /\ StackInv

\* One more string takes MaxString bytes at most.
LEMMA RoomStep ==
  ASSUME NEW k \in Nat
  PROVE  Room(k) \in Int /\ Room(k + 1) = Room(k) - MaxString /\ Room(0) = PageSize
<1>1. k * MaxString \in Int /\ (k + 1) * MaxString = k * MaxString + MaxString
  BY StartAssumption
<1> QED
  BY <1>1, StartAssumption, ElfAssumption DEF Room

\* Even after the largest vectors there is room for alignment and tables.
LEMMA RoomLeft ==
  ASSUME NEW k \in Nat, k <= MaxArgs + MaxEnv
  PROVE  Room(k) >= (Align - 1) + (MaxArgs + MaxEnv + 3) * WordSize
<1>1. k * MaxString <= (MaxArgs + MaxEnv) * MaxString
  BY StartAssumption
<1>2. k * MaxString \in Int /\ (MaxArgs + MaxEnv) * MaxString \in Int
      /\ (MaxArgs + MaxEnv + 3) * WordSize \in Int
  BY StartAssumption
<1> QED
  BY <1>1, <1>2, RoomAssumption, StartAssumption, ElfAssumption DEF Room

\* Alignment loses less than Align bytes.
LEMMA AlignLoss ==
  ASSUME NEW o \in Int
  PROVE  (o \div Align) * Align \in Int /\ (o \div Align) * Align >= o - (Align - 1)
<1>1. o = ((o \div Align) * Align) + (o % Align) /\ (o % Align) \in 0 .. Align - 1 /\ o \div Align \in Int
  BY StartAssumption
<1>2. (o \div Align) * Align \in Int
  BY <1>1, StartAssumption
<1> QED
  BY <1>1, <1>2, StartAssumption

\* A pushed string leaves the room that one more string needs.
LEMMA PushedRoom ==
  ASSUME NEW k \in Nat, k + 1 <= MaxArgs + MaxEnv, off \in Int, off >= Room(k),
         NEW str \in Strings, Len(str) < MaxString
  PROVE  Pushed(str) \in Int /\ Pushed(str) >= Room(k + 1) /\ Pushed(str) >= 0
<1>1. Pushed(str) \in Int /\ Pushed(str) >= off - MaxString
  BY StartAssumption DEF Pushed
<1>2. Room(k + 1) >= 0
  <2>1. (MaxArgs + MaxEnv + 3) * WordSize >= 0 /\ (MaxArgs + MaxEnv + 3) * WordSize \in Int
    BY StartAssumption
  <2>2. Room(k + 1) >= (Align - 1) + (MaxArgs + MaxEnv + 3) * WordSize
    BY RoomLeft
  <2>3. Room(k + 1) \in Int
    BY RoomStep
  <2> QED
    BY <2>1, <2>2, <2>3, StartAssumption
<1>3. Room(k) \in Int /\ Room(k + 1) = Room(k) - MaxString
  BY RoomStep
<1> QED
  BY <1>1, <1>2, <1>3, StartAssumption

\* What the copies accept is within the limits.
LEMMA CopiedVector ==
  ASSUME NEW v, NEW max \in Nat, v.strings \in Seq({Unreadable} \cup Strings), VectorCopied(v, max)
  PROVE  /\ StringsOf(v) \in Seq(Strings) /\ Len(StringsOf(v)) <= max
         /\ \A i \in 1 .. Len(StringsOf(v)) : Len(StringsOf(v)[i]) < MaxString
<1>1. CASE v.at = "null"
  BY <1>1 DEF StringsOf
<1>2. CASE v.at # "null"
  BY <1>2 DEF StringsOf, VectorCopied, StringCopied
<1> QED
  BY <1>1, <1>2

\* The invariant holds when a call arrives.
LEMMA InitInv == Init => Inv
<1>1. SUFFICES ASSUME Init PROVE Inv
  OBVIOUS
<1>2. VectorsInv
  BY <1>1, StartAssumption DEF Init, VectorsInv
<1>3. StackInv
  BY <1>1, ElfAssumption DEF Init, StackInv, Before
<1> QED
  BY <1>1, <1>2, <1>3 DEF Init, Inv

\* Copied vectors are not touched again.
LEMMA VectorsKept == VectorsInv /\ UNCHANGED <<args, envs>> => VectorsInv'
BY DEF VectorsInv

\* A string is pushed; k strings were on the page before it.
LEMMA PushInv ==
  ASSUME NEW k \in Nat, k + 1 <= MaxArgs + MaxEnv, off \in Int, off >= Room(k),
         NEW str \in Strings, Len(str) < MaxString, NEW list, Push(list, str)
  PROVE  /\ off' \in Int /\ off' >= Room(k + 1) /\ next' = next - 1
         /\ pc' = pc /\ UNCHANGED <<call, args, envs>>
<1>1. Pushed(str) \in Int /\ Pushed(str) >= Room(k + 1) /\ Pushed(str) >= 0
  BY PushedRoom
<1> QED
  BY <1>1 DEF Push

\* Every step keeps the invariant.
LEMMA NextInv == Inv /\ [Next]_vars => Inv'
<1> SUFFICES ASSUME Inv, [Next]_vars PROVE Inv'
  OBVIOUS
<1> USE DEF Inv
<1>1. CASE RefuseVectors \/ RefuseImage \/ RefuseExec
  <2>1. UNCHANGED <<call, args, envs, off>> /\ pc' = "refused" /\ pc \in Before
    BY <1>1 DEF RefuseVectors, RefuseImage, RefuseExec, Refuse, Before
  <2>2. StackInv'
    BY <2>1 DEF StackInv, Before
  <2> QED
    BY <2>1, <2>2, VectorsKept
<1>2. CASE ImagePanics \/ SegmentPanics
  <2>1. UNCHANGED <<call, args, envs, off>> /\ pc' = "panic" /\ pc \in Before
    BY <1>2 DEF ImagePanics, SegmentPanics, Stop, Before
  <2>2. StackInv'
    BY <2>1 DEF StackInv, Before
  <2> QED
    BY <2>1, <2>2, VectorsKept
<1>3. CASE CopyVectors
  <2>1. call' = call /\ off' = off /\ pc \in Before /\ pc' \in {"image", "create"}
    BY <1>3 DEF CopyVectors, Before
  <2>2. VectorsInv'
    <3>1. /\ call.argv.strings \in Seq({Unreadable} \cup Strings)
          /\ call.envp.strings \in Seq({Unreadable} \cup Strings)
      BY InputsAssumption DEF Strings
    <3>2. VectorCopied(call.argv, MaxArgs) /\ VectorCopied(call.envp, MaxEnv)
          /\ args' = StringsOf(call.argv) /\ envs' = StringsOf(call.envp)
      BY <1>3 DEF CopyVectors
    <3>3. /\ args' \in Seq(Strings) /\ Len(args') <= MaxArgs
          /\ \A i \in 1 .. Len(args') : Len(args'[i]) < MaxString
      BY <3>1, <3>2, CopiedVector, StartAssumption
    <3>4. /\ envs' \in Seq(Strings) /\ Len(envs') <= MaxEnv
          /\ \A i \in 1 .. Len(envs') : Len(envs'[i]) < MaxString
      BY <3>1, <3>2, CopiedVector, StartAssumption
    <3> QED
      BY <3>3, <3>4 DEF VectorsInv
  <2>3. StackInv'
    BY <2>1 DEF StackInv, Before
  <2> QED
    BY <2>1, <2>2, <2>3
<1>4. CASE LoadImage \/ PreparePages \/ LoadSegment
  <2>1. /\ UNCHANGED <<call, args, envs, off>> /\ pc \in Before
        /\ pc' \in {"create", "vectors", "segments", "panic"}
    <3>1. CASE LoadImage
      BY <3>1 DEF LoadImage, Before
    <3>2. CASE PreparePages
      BY <3>2 DEF PreparePages, Stop, Before
    <3>3. CASE LoadSegment
      BY <3>3 DEF LoadSegment, Before
    <3> QED
      BY <1>4, <3>1, <3>2, <3>3
  <2>2. StackInv'
    BY <2>1 DEF StackInv, Before
  <2> QED
    BY <2>1, <2>2, VectorsKept
<1>5. CASE SegmentsLoaded
  <2>1. UNCHANGED <<call, args, envs, off>> /\ pc = "segments" /\ pc' = "envs" /\ next' = Len(envs)
    BY <1>5 DEF SegmentsLoaded
  <2>2. Len(envs) \in Nat /\ off = PageSize /\ Room(0) = PageSize
    BY <2>1, RoomStep DEF VectorsInv, StackInv, Before
  <2>3. Len(envs) - next' = 0
    BY <2>1, <2>2
  <2>4. off' >= Room(Len(envs') - next') /\ next' \in 0 .. Len(envs')
    BY <2>1, <2>2, <2>3, ElfAssumption
  <2>5. StackInv'
    BY <2>1, <2>4 DEF StackInv, Before
  <2> QED
    BY <2>1, <2>5, VectorsKept
<1>6. CASE PushEnv
  <2>1. pc = "envs" /\ next \in 1 .. Len(envs) /\ off >= Room(Len(envs) - next) /\ off \in Int
        /\ Push("envs", envs[next])
    BY <1>6 DEF PushEnv, StackInv, VectorsInv
  <2>2. envs[next] \in Strings /\ Len(envs[next]) < MaxString
    BY <2>1 DEF VectorsInv
  <2>3. Len(envs) - next \in Nat /\ Len(envs) - next + 1 <= MaxArgs + MaxEnv
        /\ Len(envs) - next + 1 = Len(envs) - (next - 1) /\ next - 1 \in 0 .. Len(envs)
    BY <2>1, StartAssumption DEF VectorsInv
  <2>4. /\ off' \in Int /\ off' >= Room(Len(envs) - next + 1) /\ next' = next - 1
        /\ pc' = pc /\ UNCHANGED <<call, args, envs>>
    BY <2>1, <2>2, <2>3, PushInv
  <2>5. StackInv'
    BY <2>1, <2>3, <2>4 DEF StackInv, Before
  <2> QED
    BY <2>4, <2>5, VectorsKept
<1>7. CASE EnvsPushed
  <2>1. UNCHANGED <<call, args, envs, off>> /\ pc = "envs" /\ next = 0 /\ pc' = "args" /\ next' = Len(args)
    BY <1>7 DEF EnvsPushed
  <2>2. Len(envs) \in Nat /\ Len(args) \in Nat
    BY DEF VectorsInv
  <2>3. Len(envs) + Len(args) - next' = Len(envs) - next /\ next' \in 0 .. Len(args)
    BY <2>1, <2>2
  <2>4. StackInv'
    BY <2>1, <2>3 DEF StackInv, Before
  <2> QED
    BY <2>1, <2>4, VectorsKept
<1>8. CASE PushArg
  <2>1. pc = "args" /\ next \in 1 .. Len(args) /\ off >= Room(Len(envs) + Len(args) - next) /\ off \in Int
        /\ Push("args", args[next])
    BY <1>8 DEF PushArg, StackInv, VectorsInv
  <2>2. args[next] \in Strings /\ Len(args[next]) < MaxString
    BY <2>1 DEF VectorsInv
  <2>3. /\ Len(envs) + Len(args) - next \in Nat
        /\ Len(envs) + Len(args) - next + 1 <= MaxArgs + MaxEnv
        /\ Len(envs) + Len(args) - next + 1 = Len(envs) + Len(args) - (next - 1)
        /\ next - 1 \in 0 .. Len(args)
    BY <2>1, StartAssumption DEF VectorsInv
  <2>4. /\ off' \in Int /\ off' >= Room(Len(envs) + Len(args) - next + 1) /\ next' = next - 1
        /\ pc' = pc /\ UNCHANGED <<call, args, envs>>
    BY <2>1, <2>2, <2>3, PushInv
  <2>5. StackInv'
    BY <2>1, <2>3, <2>4 DEF StackInv, Before
  <2> QED
    BY <2>4, <2>5, VectorsKept
<1>9. CASE BuildTables
  <2>1. UNCHANGED <<call, args, envs>> /\ pc = "args" /\ next = 0 /\ pc' = "ready" /\ off' = ArgcAt
    BY <1>9 DEF BuildTables
  <2>2. Len(envs) \in 0 .. MaxEnv /\ Len(args) \in 0 .. MaxArgs
    BY DEF VectorsInv
  <2>3. off \in Int /\ off >= Room(Len(envs) + Len(args))
    <3>1. Len(envs) + Len(args) - next = Len(envs) + Len(args)
      BY <2>1, <2>2, StartAssumption
    <3> QED
      BY <2>1, <3>1 DEF StackInv
  <2>4. /\ Room(Len(envs) + Len(args)) \in Int
        /\ Room(Len(envs) + Len(args)) >= (Align - 1) + (MaxArgs + MaxEnv + 3) * WordSize
    <3>1. Len(envs) + Len(args) \in Nat /\ Len(envs) + Len(args) <= MaxArgs + MaxEnv
      BY <2>2, StartAssumption
    <3> QED
      BY <3>1, RoomStep, RoomLeft
  <2>5. /\ ArgcAt = (off \div Align) * Align - (Len(envs) + Len(args) + 3) * WordSize
        /\ ArgcAt \in Int
    <3>1. (off \div Align) * Align \in Int
      BY <2>3, AlignLoss
    <3>2. (Len(envs) + 1) * WordSize + (Len(args) + 1) * WordSize + WordSize
            = (Len(envs) + Len(args) + 3) * WordSize
      BY <2>2, StartAssumption
    <3>3. (Len(envs) + 1) * WordSize \in Int /\ (Len(args) + 1) * WordSize \in Int
          /\ (Len(envs) + Len(args) + 3) * WordSize \in Int /\ WordSize \in Int
      BY <2>2, StartAssumption
    <3> QED
      BY <3>1, <3>2, <3>3 DEF ArgcAt, ArgvAt, EnvpAt
  <2>6. /\ (Len(envs) + Len(args) + 3) * WordSize <= (MaxArgs + MaxEnv + 3) * WordSize
        /\ (Len(envs) + Len(args) + 3) * WordSize \in Int
        /\ (MaxArgs + MaxEnv + 3) * WordSize \in Int
    BY <2>2, StartAssumption
  <2>7. (off \div Align) * Align \in Int /\ (off \div Align) * Align >= off - (Align - 1)
    BY <2>3, AlignLoss
  <2>8. ArgcAt >= 0
    BY <2>3, <2>4, <2>5, <2>6, <2>7, StartAssumption
  <2>9. StackInv'
    BY <2>1, <2>5, <2>8 DEF StackInv, Before
  <2> QED
    BY <2>1, <2>9, VectorsKept
<1>10. CASE Over \/ UNCHANGED vars
  <2>1. UNCHANGED <<call, pc, args, envs, off, next>>
    BY <1>10 DEF Over, vars
  <2>2. StackInv'
    BY <2>1 DEF StackInv
  <2> QED
    BY <2>1, <2>2, VectorsKept
<1> QED
  BY <1>1, <1>2, <1>3, <1>4, <1>5, <1>6, <1>7, <1>8, <1>9, <1>10 DEF Next

\* Whatever vectors are passed, the strings, the tables and argc fit the one
\* page of the first stack, although ksched.py stores the tables without
\* checking: for every page and word size that RoomAssumption relates so.
THEOREM StackAlwaysFits == Spec => []StackFits
<1>1. Inv => StackFits
  <2>1. SUFFICES ASSUME Inv PROVE StackFits
    OBVIOUS
  <2>2. pc # "stack panic" /\ off \in Int
    BY <2>1 DEF Inv, StackInv, Before
  <2>3. CASE pc \in Before
    <3>1. off = PageSize
      BY <2>1, <2>3 DEF Inv, StackInv
    <3>2. off >= 0
      BY <3>1, ElfAssumption
    <3> QED
      BY <2>2, <3>2 DEF StackFits
  <2>4. CASE pc = "ready"
    BY <2>1, <2>2, <2>4 DEF Inv, StackInv, StackFits
  <2>5. CASE pc \in {"envs", "args"}
    <3>1. PICK k \in Nat : k <= MaxArgs + MaxEnv /\ off >= Room(k)
      <4>1. CASE pc = "envs"
        <5>1. Len(envs) - next \in Nat /\ Len(envs) - next <= MaxArgs + MaxEnv
          BY <2>1, <4>1, StartAssumption DEF Inv, StackInv, VectorsInv
        <5> QED
          BY <2>1, <4>1, <5>1 DEF Inv, StackInv
      <4>2. CASE pc = "args"
        <5>1. Len(envs) + Len(args) - next \in Nat /\ Len(envs) + Len(args) - next <= MaxArgs + MaxEnv
          BY <2>1, <4>2, StartAssumption DEF Inv, StackInv, VectorsInv
        <5> QED
          BY <2>1, <4>2, <5>1 DEF Inv, StackInv
      <4> QED
        BY <2>5, <4>1, <4>2
    <3>2. Room(k) \in Int /\ Room(k) >= (Align - 1) + (MaxArgs + MaxEnv + 3) * WordSize
      BY <3>1, RoomStep, RoomLeft
    <3>3. (MaxArgs + MaxEnv + 3) * WordSize >= 0 /\ (MaxArgs + MaxEnv + 3) * WordSize \in Int
      BY StartAssumption
    <3>4. Room(k) >= 0
      BY <3>2, <3>3, StartAssumption
    <3>5. off \in Int
      BY <2>2
    <3>6. off >= 0
      BY <3>1, <3>2, <3>4, <3>5
    <3> QED
      BY <2>2, <3>6 DEF StackFits
  <2> QED
    BY <2>1, <2>3, <2>4, <2>5 DEF Inv, StackInv
<1> QED
  BY InitInv, NextInv, <1>1, PTL DEF Spec

-----------------------------------------------------------------------------
(***************************************************************************)
(* What kelf.py finds in a file.                                           *)
(***************************************************************************)

\* Every set of natural numbers has a least member: induction, for a prover
\* that cannot instantiate a scheme.
LEMMA LeastNatural ==
  ASSUME NEW S \in SUBSET Nat, S # {}
  PROVE  \E m \in S : \A n \in S : m <= n
<1> DEFINE L == {p \in Nat \X Nat : p[1] < p[2]}
<1>1. IsWellFoundedOn(L, Nat)
  BY NatLessThanWellFounded DEF OpToRel
<1>2. \E m \in S : \A n \in S : <<n, m>> \notin L
  <2> HIDE DEF L
  <2>1. QED
    BY <1>1, WFMin
<1>3. \A m, n \in Nat : n < m => <<n, m>> \in L
  OBVIOUS
<1>4. PICK m \in S : \A n \in S : <<n, m>> \notin L
  BY <1>2
<1>5. \A n \in S : n \in Nat /\ m \in Nat /\ ~(n < m)
  BY <1>3, <1>4
<1>6. QED
  BY <1>4, <1>5

\* The largest of some bounded numbers exists.
LEMMA MaxOf ==
  ASSUME NEW B \in Nat, NEW S \in SUBSET (-B .. B), S # {}
  PROVE  Max(S) \in S /\ \A x \in S : x <= Max(S)
<1> DEFINE T == {B - x : x \in S}
<1>1. T \in SUBSET Nat /\ T # {}
  <2>1. \A x \in S : B - x \in Nat
    OBVIOUS
  <2>2. QED
    BY <2>1
<1>2. PICK m \in T : \A n \in T : m <= n
  <2> HIDE DEF T
  <2>1. QED
    BY <1>1, LeastNatural
<1>3. PICK x \in S : m = B - x
  BY <1>2
<1>4. \A y \in S : x >= y
  <2> TAKE y \in S
  <2>1. B - x <= B - y
    BY <1>2, <1>3
  <2>2. QED
    BY <2>1
<1>5. \E z \in S : \A y \in S : z >= y
  BY <1>4
<1>6. Max(S) \in S /\ \A y \in S : Max(S) >= y
  BY <1>5 DEF Max
<1>7. QED
  BY <1>6

\* A sequence with one more element.
LEMMA AppendType ==
  ASSUME NEW S, NEW q \in Seq(S), NEW e \in S
  PROVE  Append(q, e) \in Seq(S)
OBVIOUS

\* The loop over the program headers, header by header.
FoundAfter(f, g, m) ==
  g = [i \in 0 .. m |-> IF i = 0 THEN <<>>
                        ELSE IF UserLoad(f.segs[i]) THEN Append(g[i - 1], f.segs[i]) ELSE g[i - 1]]

\* One more program header is looked at.
LEMMA FoundNext ==
  ASSUME NEW f, NEW m \in Nat, m # 0, NEW g, FoundAfter(f, g, m - 1)
  PROVE  \E h : FoundAfter(f, h, m)
<1> DEFINE last == IF UserLoad(f.segs[m]) THEN Append(g[m - 1], f.segs[m]) ELSE g[m - 1]
           h == [i \in 0 .. m |-> IF i = m THEN last ELSE g[i]]
<1>1. ASSUME NEW i \in 0 .. m
      PROVE  h[i] = IF i = 0 THEN <<>>
                    ELSE IF UserLoad(f.segs[i]) THEN Append(h[i - 1], f.segs[i]) ELSE h[i - 1]
  <2>1. CASE i = m
    <3>1. h[i - 1] = g[m - 1] /\ i # 0
      BY <2>1
    <3>2. QED
      BY <2>1, <3>1
  <2>2. CASE i # m /\ i = 0
    <3>1. 0 \in 0 .. m - 1
      OBVIOUS
    <3>2. g[0] = <<>>
      BY <3>1 DEF FoundAfter
    <3>3. QED
      BY <2>2, <3>2
  <2>3. CASE i # m /\ i # 0
    <3>1. i \in 0 .. m - 1 /\ i - 1 \in 0 .. m /\ i - 1 # m
      BY <2>3
    <3>2. h[i] = g[i] /\ h[i - 1] = g[i - 1]
      BY <2>3, <3>1
    <3>3. g[i] = IF UserLoad(f.segs[i]) THEN Append(g[i - 1], f.segs[i]) ELSE g[i - 1]
      BY <2>3, <3>1 DEF FoundAfter
    <3>4. QED
      BY <2>3, <3>2, <3>3
  <2>4. QED
    BY <2>1, <2>2, <2>3
<1>2. FoundAfter(f, h, m)
  <2>1. h = [i \in 0 .. m |-> h[i]]
    OBVIOUS
  <2> HIDE DEF h
  <2>2. QED
    BY <1>1, <2>1 DEF FoundAfter
<1>3. QED
  BY <1>2

\* So the loop has a result after every number of headers.
LEMMA FoundDefined ==
  ASSUME NEW f, NEW n \in Nat
  PROVE  \E g : FoundAfter(f, g, n)
<1> DEFINE Bad == {m \in Nat : ~\E g : FoundAfter(f, g, m)}
<1>1. SUFFICES ASSUME Bad # {} PROVE FALSE
  OBVIOUS
<1>2. PICK m \in Bad : \A k \in Bad : m <= k
  <2>1. Bad \in SUBSET Nat
    OBVIOUS
  <2> HIDE DEF Bad
  <2>2. QED
    BY <1>1, <2>1, LeastNatural
<1>3. CASE m = 0
  <2> DEFINE g == [i \in 0 .. 0 |-> <<>>]
  <2>1. g = [i \in 0 .. 0 |-> IF i = 0 THEN <<>>
                              ELSE IF UserLoad(f.segs[i]) THEN Append(g[i - 1], f.segs[i]) ELSE g[i - 1]]
    OBVIOUS
  <2>2. FoundAfter(f, g, 0)
    BY <2>1 DEF FoundAfter
  <2>3. QED
    BY <1>2, <1>3, <2>2
<1>4. CASE m # 0
  <2>1. m - 1 \in Nat /\ ~(m <= m - 1)
    BY <1>2, <1>4
  <2>2. PICK g : FoundAfter(f, g, m - 1)
    BY <1>2, <2>1
  <2>3. QED
    BY <1>2, <1>4, <2>2, FoundNext
<1>5. QED
  BY <1>3, <1>4

\* Each segment that is found is a loadable one of the file.
LEMMA LoadsFromFile ==
  ASSUME NEW f \in Files
  PROVE  /\ Loads(f) \in Seq(Segments)
         /\ \A i \in 1 .. Len(Loads(f)) :
              UserLoad(Loads(f)[i]) /\ \E j \in 1 .. Len(f.segs) : Loads(f)[i] = f.segs[j]
<1> DEFINE n == Len(f.segs)
           good == {s \in Segments : UserLoad(s) /\ \E j \in 1 .. n : s = f.segs[j]}
           g == CHOOSE h : h = [i \in 0 .. n |-> IF i = 0 THEN <<>>
                                  ELSE IF UserLoad(f.segs[i]) THEN Append(h[i - 1], f.segs[i]) ELSE h[i - 1]]
<1>1. f.segs \in Seq(Segments) /\ n \in Nat
  BY DEF Files
<1>2. Loads(f) = g[n]
  BY DEF Loads
<1>3. FoundAfter(f, g, n)
  BY <1>1, FoundDefined DEF FoundAfter
<1> HIDE DEF g, n, good
<1>4. \A i \in 0 .. n : g[i] \in Seq(good)
  <2> DEFINE Bad == {i \in 0 .. n : g[i] \notin Seq(good)}
  <2>1. SUFFICES ASSUME Bad # {} PROVE FALSE
    OBVIOUS
  <2>2. PICK m \in Bad : \A k \in Bad : m <= k
    <3>1. Bad \in SUBSET Nat
      BY <1>1
    <3> HIDE DEF Bad
    <3>2. QED
      BY <2>1, <3>1, LeastNatural
  <2>3. m # 0
    <3>1. g[0] = <<>>
      BY <1>1, <1>3 DEF FoundAfter
    <3>2. <<>> \in Seq(good)
      OBVIOUS
    <3>3. QED
      BY <2>2, <3>1, <3>2
  <2>4. m - 1 \in 0 .. n /\ ~(m <= m - 1) /\ m \in 1 .. n
    BY <1>1, <2>2, <2>3
  <2>5. g[m - 1] \in Seq(good)
    BY <2>2, <2>4
  <2>6. g[m] = IF UserLoad(f.segs[m]) THEN Append(g[m - 1], f.segs[m]) ELSE g[m - 1]
    BY <1>3, <2>3, <2>4 DEF FoundAfter
  <2>7. UserLoad(f.segs[m]) => f.segs[m] \in good
    BY <1>1, <2>4 DEF good, n
  <2>8. UserLoad(f.segs[m]) => Append(g[m - 1], f.segs[m]) \in Seq(good)
    BY <2>5, <2>7, AppendType
  <2>9. g[m] \in Seq(good)
    BY <2>5, <2>6, <2>8
  <2>10. QED
    BY <2>2, <2>9
<1>5. Loads(f) \in Seq(good)
  BY <1>1, <1>2, <1>4
<1>6. \A i \in 1 .. Len(Loads(f)) : Loads(f)[i] \in good
  BY <1>5
<1>7. Loads(f) \in Seq(Segments)
  BY <1>5 DEF good
<1>8. QED
  BY <1>6, <1>7 DEF good, n

\* Sums that do not leave the range of an int are exact; others stay inside it.
LEMMA WrapExact ==
  ASSUME NEW x \in Int
  PROVE  Wrap(x) \in -Half .. Half /\ (-Half <= x /\ x < Half => Wrap(x) = x)
<1> DEFINE M == 2 * Half
           y == x + Half
           q == y \div M
           r == y % M
<1>1. M \in Nat /\ M > 0 /\ M = Half + Half /\ y \in Int /\ Half \in Nat
  BY ElfAssumption
<1>2. Wrap(x) = r - Half
  BY DEF Wrap
<1> HIDE DEF M
<1>3. q \in Int /\ r \in Int /\ 0 <= r /\ r < M /\ y = (M * q) + r
  BY <1>1
<1> HIDE DEF q, r
<1>4. Wrap(x) \in -Half .. Half
  BY <1>1, <1>2, <1>3
<1>5. ASSUME -Half <= x, x < Half PROVE Wrap(x) = x
  <2>1. 0 <= y /\ y < M
    BY <1>1, <1>5
  <2>2. q >= 1 => M * q >= M
    BY <1>1, <1>3
  <2>3. q <= -1 => M * q <= -M
    BY <1>1, <1>3
  <2>4. M * q \in Int
    BY <1>1, <1>3
  <2> HIDE DEF y
  <2>5. q = 0
    BY <1>1, <1>3, <2>1, <2>2, <2>3, <2>4
  <2>6. M * q = 0
    BY <1>1, <2>5
  <2>7. r = y
    BY <1>1, <1>3, <2>4, <2>6
  <2>8. QED
    BY <1>1, <1>2, <2>7 DEF y
<1>6. QED
  BY <1>4, <1>5

\* A quotient and what it counts.
LEMMA Quotient ==
  ASSUME NEW x \in Int, NEW d \in Nat \ {0}
  PROVE  x \div d \in Int /\ d * (x \div d) \in Int /\ d * (x \div d) <= x /\ x < d * (x \div d) + d
<1>1. x \div d \in Int /\ x % d \in 0 .. d - 1 /\ x = (d * (x \div d)) + (x % d)
  OBVIOUS
<1>2. d * (x \div d) \in Int
  BY <1>1
<1>3. QED
  BY <1>1, <1>2

\* Pages are counted so that they just cover the bytes below an address.
LEMMA PagesCover ==
  ASSUME NEW x \in Nat, x + PageSize <= Half
  PROVE  PagesTo(x) \in Int /\ \A g \in Int : g < PagesTo(x) <=> g * PageSize < x
<1> DEFINE q == (x + PageSize - 1) \div PageSize
<1>1. PageSize \in Nat \ {0} /\ Half \in Nat
  BY ElfAssumption
<1>2. Wrap(x + PageSize - 1) = x + PageSize - 1
  BY <1>1, WrapExact
<1>3. PagesTo(x) = q
  BY <1>2 DEF PagesTo
<1>4. q \in Int /\ PageSize * q \in Int /\ PageSize * q <= x + PageSize - 1 /\ x - 1 < PageSize * q
  BY <1>1, Quotient
<1> HIDE DEF q
<1>5. ASSUME NEW g \in Int PROVE g < q <=> g * PageSize < x
  <2>1. g * PageSize \in Int /\ (g + 1) * PageSize = g * PageSize + PageSize
    BY <1>1
  <2>2. CASE g < q
    <3>1. (g + 1) * PageSize <= PageSize * q
      BY <1>1, <1>4, <2>2
    <3>2. QED
      BY <1>1, <1>4, <2>1, <2>2, <3>1
  <2>3. CASE ~(g < q)
    <3>1. g * PageSize >= PageSize * q
      BY <1>1, <1>4, <2>3
    <3>2. QED
      BY <1>1, <1>4, <2>1, <2>3, <3>1
  <2>4. QED
    BY <2>2, <2>3
<1>6. QED
  BY <1>3, <1>4, <1>5

\* elf_user_image_top is the end of the last segment, whatever the file says.
LEMMA TopOfImage ==
  ASSUME NEW f \in Files
  PROVE  /\ ImageTop(f) \in 0 .. Half /\ ImagePages(f) \in Int
         /\ \A i \in 1 .. Len(Loads(f)) : SegmentTop(Loads(f)[i]) <= ImageTop(f)
         /\ ImageTop(f) # 0 => \E i \in 1 .. Len(Loads(f)) : ImageTop(f) = SegmentTop(Loads(f)[i])
<1> DEFINE S == {0} \cup {SegmentTop(Loads(f)[i]) : i \in 1 .. Len(Loads(f))}
<1>1. \A i \in 1 .. Len(Loads(f)) : SegmentTop(Loads(f)[i]) \in -Half .. Half
  <2> TAKE i \in 1 .. Len(Loads(f))
  <2>1. Loads(f)[i] \in Segments
    BY LoadsFromFile
  <2>2. Loads(f)[i].vaddr + Loads(f)[i].memsz \in Int
    BY <2>1 DEF Segments
  <2>3. QED
    BY <2>2, WrapExact DEF SegmentTop
<1>2. S \in SUBSET (-Half .. Half) /\ 0 \in S /\ Half \in Nat
  BY <1>1, ElfAssumption
<1>3. Max(S) \in S /\ \A x \in S : x <= Max(S)
  <2> HIDE DEF S
  <2>1. QED
    BY <1>2, MaxOf
<1>4. ImageTop(f) = Max(S)
  BY DEF ImageTop
<1>5. ImageTop(f) \in 0 .. Half
  <2>1. PICK t : t = Max(S)
    OBVIOUS
  <2> HIDE DEF S
  <2>2. t \in -Half .. Half /\ 0 <= t
    BY <1>2, <1>3, <2>1
  <2>3. QED
    BY <1>2, <1>4, <2>1, <2>2
<1>6. ImagePages(f) \in Int
  <2>1. PageSize \in Nat \ {0} /\ ImageTop(f) + PageSize - 1 \in Int
    BY <1>5, ElfAssumption
  <2>2. Wrap(ImageTop(f) + PageSize - 1) \in Int
    BY <1>2, <2>1, WrapExact
  <2>3. QED
    BY <2>1, <2>2, Quotient DEF ImagePages, PagesTo
<1>7. QED
  BY <1>3, <1>4, <1>5, <1>6

(***************************************************************************)
(* A file in order: accepted by elf_validate_user_image, and Plain.        *)
(***************************************************************************)
Fine(f) == f \in Files /\ Plain(f) /\ Valid(f)

\* The checks mean what they say when nothing wraps around.
LEMMA FineSegment ==
  ASSUME NEW f, Fine(f), NEW i \in 1 .. Len(Loads(f)), NEW s, s = Loads(f)[i]
  PROVE  /\ s \in Segments /\ s.offset \in Nat /\ s.filesz \in Nat /\ s.vaddr \in Nat /\ s.memsz \in Nat
         /\ s.memsz > 0 /\ s.filesz <= s.memsz /\ s.vaddr % PageSize = 0
         /\ s.offset + s.filesz <= f.len /\ s.offset + s.filesz < Half
         /\ SegmentTop(s) = s.vaddr + s.memsz /\ s.vaddr + s.memsz + PageSize < Half
<1>1. f \in Files /\ f.segs \in Seq(Segments)
  BY DEF Fine, Files
<1>2. s \in Segments /\ UserLoad(s)
  BY <1>1, LoadsFromFile
<1>3. PICK j \in 1 .. Len(f.segs) : s = f.segs[j]
  BY <1>1, LoadsFromFile
<1>4. /\ s.offset >= 0 /\ s.filesz >= 0 /\ s.offset + s.filesz < Half
      /\ s.vaddr >= 0 /\ s.memsz >= 0 /\ s.vaddr + s.memsz + PageSize < Half
  BY <1>3 DEF Fine, Plain
<1>5. /\ s.offset \in Int /\ s.filesz \in Int /\ s.vaddr \in Int /\ s.memsz \in Int
  BY <1>2 DEF Segments
<1>6. SegmentValid(f, s) /\ s.memsz > 0
  BY <1>2 DEF Fine, Valid, UserLoad
<1>7. Wrap(s.offset + s.filesz) = s.offset + s.filesz /\ Wrap(s.vaddr + s.memsz) = s.vaddr + s.memsz
  <2>1. ASSUME NEW x \in Int, 0 <= x, x < Half PROVE Wrap(x) = x
    BY <2>1, WrapExact, ElfAssumption
  <2>2. s.offset + s.filesz \in Int /\ 0 <= s.offset + s.filesz
    BY <1>4, <1>5
  <2>3. s.vaddr + s.memsz \in Int /\ 0 <= s.vaddr + s.memsz /\ s.vaddr + s.memsz < Half
    BY <1>4, <1>5, ElfAssumption
  <2>4. QED
    BY <1>4, <2>1, <2>2, <2>3
<1>8. QED
  BY <1>2, <1>4, <1>5, <1>6, <1>7 DEF SegmentValid, SegmentTop

\* No two segments share a byte.
LEMMA FineDisjoint ==
  ASSUME NEW f, Fine(f), NEW i \in 1 .. Len(Loads(f)), NEW j \in 1 .. Len(Loads(f)), i # j
  PROVE  \/ Loads(f)[i].vaddr + Loads(f)[i].memsz <= Loads(f)[j].vaddr
         \/ Loads(f)[j].vaddr + Loads(f)[j].memsz <= Loads(f)[i].vaddr
<1>0. Len(Loads(f)) \in Nat
  BY LoadsFromFile DEF Fine
<1>1. PICK s : s = Loads(f)[i]
  OBVIOUS
<1>2. PICK t : t = Loads(f)[j]
  OBVIOUS
<1>3. SegmentTop(s) = s.vaddr + s.memsz /\ s.vaddr \in Nat /\ s.memsz \in Nat
  BY <1>1, FineSegment
<1>4. SegmentTop(t) = t.vaddr + t.memsz /\ t.vaddr \in Nat /\ t.memsz \in Nat
  BY <1>2, FineSegment
<1>5. ~Overlap(s, t) \/ ~Overlap(t, s)
  <2>1. CASE i < j
    <3>1. j \in i + 1 .. Len(Loads(f))
      BY <1>0, <2>1
    <3>2. QED
      BY <1>1, <1>2, <3>1 DEF Fine, Valid
  <2>2. CASE ~(i < j)
    <3>1. i \in j + 1 .. Len(Loads(f))
      BY <1>0, <2>2
    <3>2. QED
      BY <1>1, <1>2, <3>1 DEF Fine, Valid
  <2>3. QED
    BY <2>1, <2>2
<1>6. QED
  BY <1>1, <1>2, <1>3, <1>4, <1>5 DEF Overlap

\* The image is all of its segments and no page more than they need.
LEMMA FineImage ==
  ASSUME NEW f, Fine(f)
  PROVE  /\ Len(Loads(f)) \in Nat /\ ImagePages(f) \in 1 .. MaxPages /\ ImageTop(f) \in Nat
         /\ \A g \in Int : g < ImagePages(f) <=> g * PageSize < ImageTop(f)
         /\ \A i \in 1 .. Len(Loads(f)) : Loads(f)[i].vaddr + Loads(f)[i].memsz <= ImagePages(f) * PageSize
<1>1. f \in Files /\ Len(Loads(f)) \in Nat /\ PageSize \in Nat \ {0} /\ Half \in Nat
  BY LoadsFromFile, ElfAssumption DEF Fine
<1>2. ImageTop(f) \in Nat /\ ImageTop(f) + PageSize <= Half
  <2>1. CASE ImageTop(f) = 0
    BY <2>1, ElfAssumption
  <2>2. CASE ImageTop(f) # 0
    <3>1. PICK i \in 1 .. Len(Loads(f)) : ImageTop(f) = SegmentTop(Loads(f)[i])
      BY <1>1, <2>2, TopOfImage
    <3>2. PICK s : s = Loads(f)[i]
      OBVIOUS
    <3>3. SegmentTop(s) = s.vaddr + s.memsz /\ s.vaddr + s.memsz + PageSize < Half
          /\ s.vaddr \in Nat /\ s.memsz \in Nat
      BY <3>2, FineSegment
    <3>4. QED
      BY <1>1, <3>1, <3>2, <3>3
  <2>3. QED
    BY <2>1, <2>2
<1>3. ImagePages(f) \in Int /\ \A g \in Int : g < ImagePages(f) <=> g * PageSize < ImageTop(f)
  BY <1>2, PagesCover DEF ImagePages
<1>4. ImagePages(f) \in 1 .. MaxPages
  BY <1>3, ElfAssumption DEF Fine, Valid
<1>5. ImageTop(f) <= ImagePages(f) * PageSize
  <2>1. ImagePages(f) * PageSize \in Int
    BY <1>1, <1>3
  <2>2. ~(ImagePages(f) * PageSize < ImageTop(f))
    BY <1>3
  <2>3. QED
    BY <1>2, <2>1, <2>2
<1>6. ASSUME NEW i \in 1 .. Len(Loads(f))
      PROVE  Loads(f)[i].vaddr + Loads(f)[i].memsz <= ImagePages(f) * PageSize
  <2>1. PICK s : s = Loads(f)[i]
    OBVIOUS
  <2>2. SegmentTop(s) = s.vaddr + s.memsz /\ s.vaddr \in Nat /\ s.memsz \in Nat
    BY <2>1, FineSegment
  <2>3. SegmentTop(s) <= ImageTop(f)
    BY <1>1, <2>1, TopOfImage
  <2>4. ImagePages(f) * PageSize \in Int
    BY <1>1, <1>3
  <2>5. QED
    BY <1>2, <1>5, <2>1, <2>2, <2>3, <2>4
<1>7. QED
  BY <1>1, <1>2, <1>3, <1>4, <1>6

\* Which page a byte is on.
LEMMA QuotientOrder ==
  ASSUME NEW x \in Int, NEW d \in Nat \ {0}, NEW g \in Int
  PROVE  x \div d <= g <=> x < (g + 1) * d
<1> DEFINE q == x \div d
<1>1. q \in Int /\ d * q \in Int /\ d * q <= x /\ x < d * q + d
  BY Quotient
<1>2. (g + 1) * d \in Int
  OBVIOUS
<1> HIDE DEF q
<1>3. CASE q <= g
  <2>1. (g + 1) * d >= (q + 1) * d
    BY <1>1, <1>3
  <2>2. (q + 1) * d = d * q + d
    BY <1>1
  <2>3. QED
    BY <1>1, <1>2, <1>3, <2>1, <2>2 DEF q
<1>4. CASE ~(q <= g)
  <2>1. (g + 1) * d <= d * q
    BY <1>1, <1>4
  <2>2. QED
    BY <1>1, <1>2, <1>4, <2>1 DEF q
<1>5. QED
  BY <1>3, <1>4

\* The pages of a segment are those it has a byte on.
LEMMA PagesOfSegment ==
  ASSUME NEW f, Fine(f), NEW i \in 1 .. Len(Loads(f)), NEW g \in Int
  PROVE  g \in SegmentPages(Loads(f)[i]) <=>
           /\ Loads(f)[i].vaddr < (g + 1) * PageSize
           /\ g * PageSize < Loads(f)[i].vaddr + Loads(f)[i].memsz
<1>1. PICK s : s = Loads(f)[i]
  OBVIOUS
<1>2. /\ SegmentTop(s) = s.vaddr + s.memsz /\ s.vaddr + s.memsz + PageSize < Half
      /\ s.vaddr \in Nat /\ s.memsz \in Nat
  BY <1>1, FineSegment
<1>3. PICK x \in Nat : x = s.vaddr + s.memsz
  BY <1>2
<1>4. PageSize \in Nat \ {0} /\ Half \in Nat
  BY ElfAssumption
<1>5. PagesTo(x) \in Int /\ (g < PagesTo(x) <=> g * PageSize < x)
  BY <1>2, <1>3, <1>4, PagesCover
<1>6. s.vaddr \div PageSize \in Int /\ (s.vaddr \div PageSize <= g <=> s.vaddr < (g + 1) * PageSize)
  <2>1. PICK v \in Int : v = s.vaddr
    BY <1>2
  <2>2. v \div PageSize \in Int /\ (v \div PageSize <= g <=> v < (g + 1) * PageSize)
    BY <1>4, Quotient, QuotientOrder
  <2>3. QED
    BY <2>1, <2>2
<1>7. g \in SegmentPages(s) <=> s.vaddr \div PageSize <= g /\ g < PagesTo(x)
  <2>1. SegmentPages(s) = s.vaddr \div PageSize .. PagesTo(x) - 1
    BY <1>2, <1>3 DEF SegmentPages
  <2>2. QED
    BY <1>5, <1>6, <2>1
<1>8. QED
  BY <1>1, <1>3, <1>5, <1>6, <1>7

\* The limits of kelf.py imply the checks of ksched.py on regions.
LEMMA FineFits ==
  ASSUME Fine(call.file), pages = ImagePages(call.file) + HeapPages + 1,
         NEW i \in 1 .. Len(Loads(call.file))
  PROVE  SegmentFits(Loads(call.file)[i])
<1>1. PICK f : f = call.file
  OBVIOUS
<1>2. Fine(f) /\ pages = ImagePages(f) + HeapPages + 1 /\ i \in 1 .. Len(Loads(f))
  BY <1>1
<1>3. PICK s : s = Loads(f)[i]
  OBVIOUS
<1>4. PICK o, n, v, m \in Nat : o = s.offset /\ n = s.filesz /\ v = s.vaddr /\ m = s.memsz
  BY <1>2, <1>3, FineSegment
<1>5. n <= m /\ o + n <= f.len /\ o + n < Half /\ v + m + PageSize < Half
  BY <1>2, <1>3, <1>4, FineSegment
<1>6. PICK d \in Nat \ {0} : d = PageSize
  BY ElfAssumption
<1>7. PICK c \in Nat : c = ImagePages(f)
  BY <1>2, FineImage, ElfAssumption
<1>8. PICK len \in Nat : len = f.len
  BY <1>2 DEF Fine, Files
<1>9. pages \in Nat /\ c <= pages - 1 /\ Half \in Nat
  <2>1. PICK h \in Nat : h = HeapPages
    BY StartAssumption
  <2>2. pages = c + h + 1
    BY <1>2, <1>7, <2>1
  <2>3. QED
    BY <2>2, ElfAssumption
<1>10. v + m <= c * d /\ c * d \in Int
  <2>1. Loads(f)[i].vaddr + Loads(f)[i].memsz <= ImagePages(f) * PageSize
    BY <1>2, FineImage
  <2>2. v + m <= c * d
    BY <1>3, <1>4, <1>6, <1>7, <2>1
  <2>3. c * d \in Int
    OBVIOUS
  <2>4. QED
    BY <2>2, <2>3
<1>11. ASSUME NEW g \in SegmentPages(s) PROVE g \in 0 .. pages - 2
  <2>1. g \in Int
    BY <1>11 DEF SegmentPages
  <2>2. v < (g + 1) * d /\ g * d < v + m
    BY <1>2, <1>3, <1>4, <1>6, <1>11, <2>1, PagesOfSegment
  <2>3. g * d \in Int /\ (g + 1) * d \in Int
    BY <1>6, <2>1
  <2>4. g >= 0
    <3>1. g <= -1 => (g + 1) * d <= 0
      BY <1>6, <2>1
    <3>2. QED
      BY <2>1, <2>2, <2>3, <3>1
  <2>5. g < c
    <3>1. g >= c => g * d >= c * d
      BY <1>6, <2>1
    <3>2. QED
      BY <1>10, <2>1, <2>2, <2>3, <3>1
  <2>6. QED
    BY <1>9, <2>1, <2>4, <2>5
<1>12. ASSUME NEW k \in 0 .. n - 1
       PROVE  Wrap(v + k) \div d \in 0 .. pages - 1 /\ Wrap(o + k) \in 0 .. len - 1
  <2>1. PICK x \in Nat : x = v + k
    OBVIOUS
  <2>2. PICK y \in Nat : y = o + k
    OBVIOUS
  <2>3. x < Half /\ y < Half /\ y < len /\ x < c * d
    <3>1. PICK z \in Int : z = c * d
      BY <1>10
    <3>2. n <= m /\ o + n <= len /\ o + n < Half /\ v + m + d < Half /\ v + m <= z /\ Half \in Nat
      BY <1>5, <1>6, <1>8, <1>9, <1>10, <3>1
    <3>3. x < Half /\ y < Half /\ y < len /\ x < z
      BY <2>1, <2>2, <3>2
    <3>4. QED
      BY <3>1, <3>3
  <2>4. Wrap(x) = x /\ Wrap(y) = y
    <3>1. -Half <= x /\ x < Half /\ -Half <= y /\ y < Half /\ x \in Int /\ y \in Int
      BY <1>9, <2>3
    <3>2. QED
      BY <3>1, WrapExact
  <2>5. x \div d \in Int
    BY Quotient
  <2>6. x \div d <= c - 1
    <3>1. PICK b \in Int : b = c - 1
      OBVIOUS
    <3>2. x \div d <= b <=> x < (b + 1) * d
      BY QuotientOrder
    <3>3. b + 1 = c
      BY <3>1
    <3>4. QED
      BY <2>3, <3>1, <3>2, <3>3
  <2>7. ~(x \div d <= -1)
    <3>1. PICK b \in Int : b = -1
      OBVIOUS
    <3>2. x \div d <= b <=> x < (b + 1) * d
      BY QuotientOrder
    <3>3. (b + 1) * d = 0
      BY <3>1
    <3>4. QED
      BY <3>1, <3>2, <3>3
  <2>8. x \div d \in 0 .. pages - 1
    BY <1>9, <2>5, <2>6, <2>7
  <2>9. QED
    BY <2>1, <2>2, <2>3, <2>4, <2>8
<1>13. SegmentFits(s)
  BY <1>1, <1>4, <1>6, <1>8, <1>11, <1>12 DEF SegmentFits
<1>14. QED
  BY <1>1, <1>3, <1>13

(***************************************************************************)
(* The image in memory while it is copied: k segments are there.           *)
(***************************************************************************)
Covers(s, a) == s.vaddr <= a /\ a < s.vaddr + s.filesz

Loaded(f, mem, k, top) ==
  \A a \in 0 .. top - 1 :
    /\ \A i \in 1 .. k : Covers(Loads(f)[i], a) =>
                           mem[a] = FileByte(Loads(f)[i].offset + a - Loads(f)[i].vaddr)
    /\ (\A i \in 1 .. k : ~Covers(Loads(f)[i], a)) => mem[a] = Zero

Opened(f, w, k, n) ==
  \A g \in 0 .. n - 1 :
    g \in w <=> g >= ImagePages(f) \/ \E i \in 1 .. k : Loads(f)[i].w /\ g \in SegmentPages(Loads(f)[i])

\* One more segment is copied: it disturbs no byte of another.
LEMMA LoadedOneMore ==
  ASSUME NEW f, Fine(f), NEW k \in 1 .. Len(Loads(f)), NEW top \in Int, NEW size \in Int, top <= size,
         NEW mem, DOMAIN mem = 0 .. size - 1, Loaded(f, mem, k - 1, top),
         NEW new, NEW s, s = Loads(f)[k],
         new = Store(mem, [a \in s.vaddr .. s.vaddr + s.filesz - 1 |-> FileByte(s.offset + a - s.vaddr)])
  PROVE  Loaded(f, new, k, top)
<1>1. /\ s.offset \in Nat /\ s.filesz \in Nat /\ s.vaddr \in Nat /\ s.memsz \in Nat /\ s.filesz <= s.memsz
  BY FineSegment
<1>2. k \in Nat /\ Len(Loads(f)) \in Nat
  BY FineImage
<1>3. ASSUME NEW a \in 0 .. top - 1
      PROVE  /\ Covers(s, a) => new[a] = FileByte(s.offset + a - s.vaddr)
             /\ ~Covers(s, a) => new[a] = mem[a]
  <2>1. a \in DOMAIN mem
    OBVIOUS
  <2>2. Covers(s, a) <=> a \in s.vaddr .. s.vaddr + s.filesz - 1
    BY <1>1 DEF Covers
  <2>3. QED
    BY <2>1, <2>2 DEF Store
<1>4. ASSUME NEW a \in 0 .. top - 1, NEW i \in 1 .. k, Covers(Loads(f)[i], a)
      PROVE  new[a] = FileByte(Loads(f)[i].offset + a - Loads(f)[i].vaddr)
  <2>1. CASE i = k
    BY <1>3, <1>4, <2>1
  <2>2. CASE i # k
    <3>1. i \in 1 .. Len(Loads(f)) /\ i \in 1 .. k - 1
      BY <1>2, <2>2
    <3>2. PICK t : t = Loads(f)[i]
      OBVIOUS
    <3>3. t.filesz \in Nat /\ t.vaddr \in Nat /\ t.memsz \in Nat /\ t.filesz <= t.memsz
      BY <3>1, <3>2, FineSegment
    <3>4. t.vaddr + t.memsz <= s.vaddr \/ s.vaddr + s.memsz <= t.vaddr
      BY <2>2, <3>1, <3>2, FineDisjoint
    <3>5. t.vaddr <= a /\ a < t.vaddr + t.filesz /\ a \in Int
      BY <1>4, <3>2 DEF Covers
    <3>6. ~Covers(s, a)
      <4>1. PICK v, m, n \in Nat : v = s.vaddr /\ m = s.memsz /\ n = s.filesz
        BY <1>1
      <4>2. PICK tv, tm, tn \in Nat : tv = t.vaddr /\ tm = t.memsz /\ tn = t.filesz
        BY <3>3
      <4>3. n <= m /\ tn <= tm /\ tv <= a /\ a < tv + tn /\ a \in Int /\ (tv + tm <= v \/ v + m <= tv)
        BY <1>1, <3>3, <3>4, <3>5, <4>1, <4>2
      <4>4. ~(v <= a /\ a < v + n)
        BY <4>3
      <4>5. QED
        BY <4>1, <4>4 DEF Covers
    <3>7. mem[a] = FileByte(t.offset + a - t.vaddr)
      BY <1>4, <3>1, <3>2 DEF Loaded
    <3>8. QED
      BY <1>3, <3>2, <3>6, <3>7
  <2>3. QED
    BY <2>1, <2>2
<1>5. ASSUME NEW a \in 0 .. top - 1, \A i \in 1 .. k : ~Covers(Loads(f)[i], a)
      PROVE  new[a] = Zero
  <2>1. \A i \in 1 .. k - 1 : i \in 1 .. k
    BY <1>2
  <2>2. mem[a] = Zero
    BY <1>5, <2>1 DEF Loaded
  <2>3. ~Covers(s, a)
    BY <1>2, <1>5
  <2>4. QED
    BY <1>3, <2>2, <2>3
<1>6. QED
  BY <1>4, <1>5 DEF Loaded

\* The pages of a segment that may be written are opened with it.
LEMMA OpenedOneMore ==
  ASSUME NEW f, NEW k \in Nat, k >= 1, NEW n \in Int, NEW w, Opened(f, w, k - 1, n), NEW new,
         NEW s, s = Loads(f)[k], new = IF s.w THEN w \cup SegmentPages(s) ELSE w
  PROVE  Opened(f, new, k, n)
<1>1. \A i : i \in 1 .. k <=> i \in 1 .. k - 1 \/ i = k
  OBVIOUS
<1>2. ASSUME NEW g \in 0 .. n - 1
      PROVE  g \in new <=> g >= ImagePages(f) \/ \E i \in 1 .. k : Loads(f)[i].w /\ g \in SegmentPages(Loads(f)[i])
  <2>1. g \in new <=> g \in w \/ (s.w /\ g \in SegmentPages(s))
    OBVIOUS
  <2>2. g \in w <=> g >= ImagePages(f) \/ \E i \in 1 .. k - 1 : Loads(f)[i].w /\ g \in SegmentPages(Loads(f)[i])
    BY DEF Opened
  <2>3. QED
    BY <1>1, <2>1, <2>2
<1>3. QED
  BY <1>2 DEF Opened

\* Below top nothing changes when something is stored above it.
LEMMA LoadedAbove ==
  ASSUME NEW f, NEW k, NEW top \in Int, NEW size \in Int, top <= size, NEW mem, DOMAIN mem = 0 .. size - 1,
         Loaded(f, mem, k, top), NEW new, \A a \in DOMAIN new : a \in Int /\ a >= top
  PROVE  Loaded(f, Store(mem, new), k, top)
<1>1. ASSUME NEW a \in 0 .. top - 1 PROVE Store(mem, new)[a] = mem[a]
  <2>1. a \in DOMAIN mem /\ a \notin DOMAIN new
    OBVIOUS
  <2>2. QED
    BY <2>1 DEF Store
<1>2. QED
  BY <1>1 DEF Loaded

-----------------------------------------------------------------------------
(***************************************************************************)
(* The invariant about the image. The file is validated before any page is *)
(* prepared; then pages and memory have the shape it asks for; and if it is *)
(* in order, the segments copied so far are where they belong.             *)
(***************************************************************************)
Shaped == {"segments", "envs", "args", "ready"}

ImageInv ==
  /\ pc \in {"create"} \cup Shaped \/ (pc = "vectors" /\ call.caller # "user") => Valid(call.file)
  /\ pc \in Shaped =>
       /\ pages \in Nat /\ pages > 1 /\ pages = ImagePages(call.file) + HeapPages + 1
       /\ DOMAIN memory = 0 .. pages * PageSize - 1
  /\ pc = "segments" => next \in Nat \ {0}
  /\ Plain(call.file) =>
       /\ pc = "panic" => ~HeadersInside(call.file)
       /\ pc = "segments" => /\ next - 1 <= Len(Loads(call.file))
                             /\ Loaded(call.file, memory, next - 1, StackBase)
                             /\ Opened(call.file, writable, next - 1, pages)
       /\ pc \in Shaped \ {"segments"} =>
            /\ Loaded(call.file, memory, Len(Loads(call.file)), StackBase)
            /\ Opened(call.file, writable, Len(Loads(call.file)), pages)
       /\ pc = "ready" => regs.rip = call.file.entry

\* The stack is the last page of the program.
LEMMA StackIsLast ==
  ASSUME pages \in Nat, pages > 1
  PROVE  /\ StackBase \in Int /\ StackBase > 0 /\ pages * PageSize \in Int
         /\ StackBase + PageSize = pages * PageSize /\ StackBase <= pages * PageSize
<1>1. PageSize \in Nat \ {0}
  BY ElfAssumption
<1>2. (pages - 1) * PageSize + PageSize = pages * PageSize /\ (pages - 1) * PageSize \in Int
  BY <1>1
<1>3. (pages - 1) * PageSize > 0
  BY <1>1
<1>4. QED
  BY <1>1, <1>2, <1>3 DEF StackBase

\* Nothing is loaded when the call begins.
LEMMA ImageInit == Init => ImageInv
BY DEF Init, ImageInv, Shaped

\* The call goes on or ends, and memory and pages stay as they are.
LEMMA ImagePasses ==
  ASSUME Inv, ImageInv,
         RefuseVectors \/ RefuseImage \/ RefuseExec \/ ImagePanics \/ CopyVectors \/ LoadImage
  PROVE  ImageInv'
<1>1. call' = call
  BY DEF RefuseVectors, RefuseImage, RefuseExec, ImagePanics, CopyVectors, LoadImage, Refuse, Stop
<1>2. CASE RefuseVectors \/ RefuseImage \/ RefuseExec
  <2>1. pc' = "refused"
    BY <1>2 DEF RefuseVectors, RefuseImage, RefuseExec, Refuse
  <2>2. QED
    BY <2>1 DEF ImageInv, Shaped
<1>3. CASE ImagePanics
  <2>1. pc' = "panic" /\ ~HeadersInside(call.file)
    BY <1>3 DEF ImagePanics, Stop
  <2>2. QED
    BY <1>1, <2>1 DEF ImageInv, Shaped
<1>4. CASE CopyVectors
  <2>1. pc = "vectors" /\ pc' = IF call.caller = "user" THEN "image" ELSE "create"
    BY <1>4 DEF CopyVectors
  <2>2. call.caller # "user" => Valid(call.file)
    BY <2>1 DEF ImageInv
  <2>3. QED
    BY <1>1, <2>1, <2>2 DEF ImageInv, Shaped
<1>5. CASE LoadImage
  <2>1. Valid(call.file) /\ pc' = IF call.caller = "user" THEN "create" ELSE "vectors"
    BY <1>5 DEF LoadImage
  <2>2. QED
    BY <1>1, <2>1 DEF ImageInv, Shaped
<1>6. QED
  BY <1>2, <1>3, <1>4, <1>5

\* scheduler_prepare_user_image_pages makes pages of zeros.
LEMMA ImagePrepared == Inv /\ ImageInv /\ PreparePages => ImageInv'
<1> SUFFICES ASSUME Inv, ImageInv, PreparePages PROVE ImageInv'
  OBVIOUS
<1>1. PICK f : f = call.file
  OBVIOUS
<1>2. PICK n : n = ImagePages(f) + HeapPages + 1
  OBVIOUS
<1>3. /\ f \in Files /\ call' = call /\ Valid(f)
  BY <1>1, InputsAssumption DEF Inv, ImageInv, PreparePages, Stop
<1>4. n \in Int /\ HeapPages \in Nat
  BY <1>2, <1>3, TopOfImage, StartAssumption
<1>5. CASE n > 1 /\ n <= MaxMapped
  <2>1. /\ pages' = n /\ pc' = "segments" /\ next' = 1
        /\ memory' = [a \in 0 .. n * PageSize - 1 |-> Zero]
        /\ writable' = ImagePages(f) .. n - 1
    BY <1>1, <1>2, <1>5 DEF PreparePages
  <2>2. n \in Nat /\ (n - 1) * PageSize \in Int /\ (n - 1) * PageSize <= n * PageSize /\ n * PageSize \in Int
    <3>1. PageSize \in Nat \ {0}
      BY ElfAssumption
    <3>2. QED
      BY <1>4, <1>5, <3>1
  <2>3. PICK mem : mem = [a \in 0 .. n * PageSize - 1 |-> Zero]
    OBVIOUS
  <2>4. PICK w : w = ImagePages(f) .. n - 1
    OBVIOUS
  <2>5. Loaded(f, mem, 0, (n - 1) * PageSize)
    BY <2>2, <2>3 DEF Loaded
  <2>6. Opened(f, w, 0, n)
    <3>1. ImagePages(f) \in Int
      BY <1>3, TopOfImage
    <3>2. QED
      BY <1>4, <2>4, <3>1 DEF Opened
  <2>7. Plain(f) => Len(Loads(f)) \in Nat
    BY <1>3, LoadsFromFile
  <2>8. pages' = n /\ memory' = mem /\ writable' = w /\ next' - 1 = 0 /\ StackBase' = (n - 1) * PageSize
        /\ call'.file = f
    BY <1>1, <1>3, <2>1, <2>3, <2>4 DEF StackBase
  <2>9. DOMAIN mem = 0 .. n * PageSize - 1
    BY <2>3
  <2>10. QED
    BY <1>2, <1>3, <1>5, <2>1, <2>2, <2>5, <2>6, <2>7, <2>8, <2>9 DEF ImageInv, Shaped
<1>6. CASE ~(n > 1 /\ n <= MaxMapped)
  <2>1. ~Plain(f)
    <3>1. SUFFICES ASSUME Plain(f) PROVE FALSE
      OBVIOUS
    <3>2. ImagePages(f) \in 1 .. MaxPages
      BY <1>3, <3>1, FineImage DEF Fine
    <3>3. QED
      BY <1>2, <1>6, <3>2, StartAssumption, ElfAssumption
  <2>2. pc' = "panic"
    BY <1>1, <1>2, <1>6 DEF PreparePages, Stop
  <2>3. call'.file = f
    BY <1>1, <1>3
  <2>4. QED
    BY <2>1, <2>2, <2>3 DEF ImageInv, Shaped
<1>7. QED
  BY <1>5, <1>6

\* A file in order passes the checks of the copy.
LEMMA ImageStops == Inv /\ ImageInv /\ SegmentPanics => ImageInv'
<1> SUFFICES ASSUME Inv, ImageInv, SegmentPanics PROVE ImageInv'
  OBVIOUS
<1>1. /\ call' = call /\ pc' = "panic" /\ pc = "segments" /\ next <= Len(Loads(call.file))
      /\ ~SegmentFits(Loads(call.file)[next])
  BY DEF SegmentPanics, Stop, Segment
<1>2. call.file \in Files /\ Valid(call.file)
  BY <1>1, InputsAssumption DEF Inv, ImageInv, Shaped
<1>3. ~Plain(call.file)
  <2>1. SUFFICES ASSUME Plain(call.file) PROVE FALSE
    OBVIOUS
  <2>2. Fine(call.file)
    BY <1>2, <2>1 DEF Fine
  <2>3. next \in Nat \ {0} /\ pages = ImagePages(call.file) + HeapPages + 1
    BY <1>1 DEF ImageInv, Shaped
  <2>4. Len(Loads(call.file)) \in Nat
    BY <1>2, LoadsFromFile
  <2>5. next \in 1 .. Len(Loads(call.file))
    BY <1>1, <2>3, <2>4
  <2>6. QED
    BY <1>1, <2>2, <2>3, <2>5, FineFits
<1>4. QED
  BY <1>1, <1>3 DEF ImageInv, Shaped

\* One turn of the loop over the segments.
LEMMA ImageGrows == Inv /\ ImageInv /\ LoadSegment => ImageInv'
<1> SUFFICES ASSUME Inv, ImageInv, LoadSegment PROVE ImageInv'
  OBVIOUS
<1>1. PICK f : f = call.file
  OBVIOUS
<1>2. PICK k : k = next
  OBVIOUS
<1>3. PICK s : s = Loads(f)[k]
  OBVIOUS
<1>4. PICK mem : mem = memory
  OBVIOUS
<1>5. PICK w : w = writable
  OBVIOUS
<1>6. PICK n : n = pages
  OBVIOUS
<1>7. /\ call'.file = f /\ pc = "segments" /\ pc' = "segments" /\ k <= Len(Loads(f)) /\ pages' = n /\ next' = k + 1
      /\ call' = call
  BY <1>1, <1>2, <1>6 DEF LoadSegment
<1>8. PICK new : new = Store(mem, [a \in s.vaddr .. s.vaddr + s.filesz - 1 |-> FileByte(s.offset + a - s.vaddr)])
  OBVIOUS
<1>9. PICK neww : neww = IF s.w THEN w \cup SegmentPages(s) ELSE w
  OBVIOUS
<1>10. memory' = new /\ writable' = neww
  BY <1>1, <1>2, <1>3, <1>4, <1>5, <1>8, <1>9 DEF LoadSegment, Segment
<1>11. f \in Files /\ Valid(f) /\ Len(Loads(f)) \in Nat
  BY <1>1, <1>7, InputsAssumption, LoadsFromFile DEF Inv, ImageInv, Shaped
<1>12. /\ k \in Nat \ {0} /\ n \in Nat /\ n > 1 /\ n = ImagePages(f) + HeapPages + 1
       /\ DOMAIN mem = 0 .. n * PageSize - 1
  BY <1>1, <1>2, <1>4, <1>6, <1>7 DEF ImageInv, Shaped
<1>13. DOMAIN new = 0 .. n * PageSize - 1
  BY <1>8, <1>12 DEF Store
<1>14. k + 1 \in Nat \ {0} /\ (k + 1) - 1 = k /\ k \in 1 .. Len(Loads(f)) /\ k >= 1 /\ k \in Nat
  BY <1>7, <1>11, <1>12
<1>15. PICK top : top = (n - 1) * PageSize
  OBVIOUS
<1>16. StackBase = top /\ StackBase' = top
  BY <1>6, <1>7, <1>15 DEF StackBase
<1>17. top \in Int /\ n * PageSize \in Int /\ top <= n * PageSize
  BY <1>6, <1>12, <1>16, StackIsLast
<1>18. ASSUME Plain(f) PROVE Loaded(f, new, k, top) /\ Opened(f, neww, k, n)
  <2>1. Fine(f)
    BY <1>11, <1>18 DEF Fine
  <2>2. Loaded(f, mem, k - 1, top) /\ Opened(f, w, k - 1, n)
    BY <1>1, <1>2, <1>4, <1>5, <1>6, <1>7, <1>16, <1>18 DEF ImageInv
  <2>3. Loaded(f, new, k, top)
    BY <1>3, <1>8, <1>12, <1>14, <1>17, <2>1, <2>2, LoadedOneMore
  <2>4. Opened(f, neww, k, n)
    BY <1>3, <1>9, <1>12, <1>14, <2>2, OpenedOneMore
  <2>5. QED
    BY <2>3, <2>4
<1>19. QED
  BY <1>7, <1>10, <1>11, <1>12, <1>13, <1>14, <1>16, <1>18 DEF ImageInv, Shaped

\* The last segment is copied.
LEMMA ImageDone == Inv /\ ImageInv /\ SegmentsLoaded => ImageInv'
<1> SUFFICES ASSUME Inv, ImageInv, SegmentsLoaded PROVE ImageInv'
  OBVIOUS
<1>1. PICK f : f = call.file
  OBVIOUS
<1>2. PICK mem : mem = memory
  OBVIOUS
<1>3. PICK w : w = writable
  OBVIOUS
<1>4. PICK n : n = pages
  OBVIOUS
<1>5. /\ call' = call /\ call'.file = f /\ pc = "segments" /\ pc' = "envs" /\ next > Len(Loads(f))
      /\ pages' = n /\ memory' = mem /\ writable' = w
  BY <1>1, <1>2, <1>3, <1>4 DEF SegmentsLoaded
<1>6. f \in Files /\ Valid(f) /\ Len(Loads(f)) \in Nat
  BY <1>1, <1>5, InputsAssumption, LoadsFromFile DEF Inv, ImageInv, Shaped
<1>7. /\ next \in Nat \ {0} /\ n \in Nat /\ n > 1 /\ n = ImagePages(f) + HeapPages + 1
      /\ DOMAIN mem = 0 .. n * PageSize - 1
  BY <1>1, <1>2, <1>4, <1>5 DEF ImageInv, Shaped
<1>8. PICK top : top = (n - 1) * PageSize
  OBVIOUS
<1>9. StackBase = top /\ StackBase' = top
  BY <1>4, <1>5, <1>8 DEF StackBase
<1>10. ASSUME Plain(f) PROVE Loaded(f, mem, Len(Loads(f)), top) /\ Opened(f, w, Len(Loads(f)), n)
  <2>1. /\ Loaded(f, mem, next - 1, top) /\ Opened(f, w, next - 1, n) /\ next - 1 <= Len(Loads(f))
    BY <1>1, <1>2, <1>3, <1>4, <1>5, <1>9, <1>10 DEF ImageInv
  <2>2. next - 1 = Len(Loads(f))
    BY <1>5, <1>6, <1>7, <2>1
  <2>3. QED
    BY <2>1, <2>2
<1>11. QED
  BY <1>5, <1>6, <1>7, <1>9, <1>10 DEF ImageInv, Shaped

\* What is stored on the stack page leaves the image alone.
LEMMA ImageKept ==
  ASSUME Inv, ImageInv, pc \in Shaped \ {"segments"}, pc' \in Shaped \ {"segments"},
         UNCHANGED <<call, pages, writable>>,
         memory' = memory \/ \E new : memory' = Store(memory, new)
                                      /\ \A a \in DOMAIN new : a \in Int /\ a >= StackBase,
         pc' = "ready" => regs'.rip = call.file.entry
  PROVE  ImageInv'
<1>1. PICK f : f = call.file
  OBVIOUS
<1>2. PICK mem : mem = memory
  OBVIOUS
<1>3. PICK w : w = writable
  OBVIOUS
<1>4. PICK n : n = pages
  OBVIOUS
<1>5. call'.file = f /\ pages' = n /\ writable' = w
  BY <1>1, <1>3, <1>4
<1>6. /\ n \in Nat /\ n > 1 /\ n = ImagePages(f) + HeapPages + 1
      /\ DOMAIN mem = 0 .. n * PageSize - 1 /\ Valid(f)
  BY <1>1, <1>2, <1>4 DEF ImageInv
<1>7. PICK top : top = (n - 1) * PageSize
  OBVIOUS
<1>8. StackBase = top /\ StackBase' = top
  BY <1>4, <1>5, <1>7 DEF StackBase
<1>9. top \in Int /\ n * PageSize \in Int /\ top <= n * PageSize
  BY <1>4, <1>6, <1>8, StackIsLast
<1>10. PICK m2 : m2 = memory'
  OBVIOUS
<1>11. m2 = mem \/ \E new : m2 = Store(mem, new) /\ \A a \in DOMAIN new : a \in Int /\ a >= top
  BY <1>2, <1>8, <1>10
<1>12. DOMAIN m2 = 0 .. n * PageSize - 1
  BY <1>6, <1>11 DEF Store
<1>13. ASSUME Plain(f) PROVE Loaded(f, m2, Len(Loads(f)), top) /\ Opened(f, w, Len(Loads(f)), n)
  <2>1. Loaded(f, mem, Len(Loads(f)), top) /\ Opened(f, w, Len(Loads(f)), n)
    BY <1>1, <1>2, <1>3, <1>4, <1>8, <1>13 DEF ImageInv
  <2>2. Loaded(f, m2, Len(Loads(f)), top)
    BY <1>6, <1>9, <1>11, <2>1, LoadedAbove
  <2>3. QED
    BY <2>1, <2>2
<1>14. pc' # "panic" /\ pc' # "segments" /\ pc' \in Shaped
  BY DEF Shaped
<1>15. pc' = "ready" => regs'.rip = f.entry
  BY <1>1
<1>16. memory' = m2
  BY <1>10
<1>17. QED
  BY <1>5, <1>6, <1>8, <1>12, <1>13, <1>14, <1>15, <1>16 DEF ImageInv, Shaped

\* A string on the stack disturbs no segment: its page is behind the image.
LEMMA ImagePushed ==
  ASSUME Inv, ImageInv, pc \in {"envs", "args"}, NEW list, NEW str \in Strings, Push(list, str),
         Pushed(str) \in Int, Pushed(str) >= 0
  PROVE  ImageInv'
<1>1. /\ UNCHANGED <<call, pages, writable>> /\ pc' = pc
      /\ memory' = Store(memory, BytesFrom(StackBase + Pushed(str), Append(str, 0)))
  BY DEF Push
<1>2. pages \in Nat /\ pages > 1 /\ pc \in Shaped \ {"segments"} /\ pc # "ready"
  BY DEF ImageInv, Shaped
<1>3. StackBase \in Int
  BY <1>2, StackIsLast
<1>4. PICK new : new = BytesFrom(StackBase + Pushed(str), Append(str, 0))
  OBVIOUS
<1>5. \A a \in DOMAIN new : a \in Int /\ a >= StackBase
  <2>1. DOMAIN new = StackBase + Pushed(str) .. StackBase + Pushed(str) + Len(Append(str, 0)) - 1
    BY <1>4 DEF BytesFrom
  <2>2. QED
    BY <1>3, <2>1
<1>6. \E z : memory' = Store(memory, z) /\ \A a \in DOMAIN z : a \in Int /\ a >= StackBase
  BY <1>1, <1>4, <1>5
<1>7. QED
  BY <1>1, <1>2, <1>6, ImageKept

\* A string that is pushed has room below it.
LEMMA NextString ==
  ASSUME Inv, PushEnv \/ PushArg
  PROVE  /\ pc \in {"envs", "args"}
         /\ pc = "envs" <=> PushEnv
         /\ \E str \in Strings, list \in {"args", "envs"} :
              /\ Push(list, str) /\ Pushed(str) \in Int /\ Pushed(str) >= 0
              /\ next \in Nat \ {0} /\ list = pc
              /\ pc = "envs" => str = envs[next] /\ next <= Len(envs)
              /\ pc = "args" => str = args[next] /\ next <= Len(args)
<1>1. CASE PushEnv
  <2>1. pc = "envs" /\ next \in 1 .. Len(envs) /\ off >= Room(Len(envs) - next) /\ off \in Int
        /\ Push("envs", envs[next])
    BY <1>1 DEF Inv, PushEnv, StackInv, VectorsInv
  <2>2. envs[next] \in Strings /\ Len(envs[next]) < MaxString
    BY <2>1 DEF Inv, VectorsInv
  <2>3. Len(envs) - next \in Nat /\ Len(envs) - next + 1 <= MaxArgs + MaxEnv
    BY <2>1, StartAssumption DEF Inv, VectorsInv
  <2>4. Pushed(envs[next]) \in Int /\ Pushed(envs[next]) >= 0
    BY <2>1, <2>2, <2>3, PushedRoom
  <2>5. next \in Nat \ {0} /\ next <= Len(envs)
    BY <2>1
  <2>6. QED
    BY <1>1, <2>1, <2>2, <2>4, <2>5
<1>2. CASE PushArg
  <2>1. pc = "args" /\ next \in 1 .. Len(args) /\ off >= Room(Len(envs) + Len(args) - next) /\ off \in Int
        /\ Push("args", args[next])
    BY <1>2 DEF Inv, PushArg, StackInv, VectorsInv
  <2>2. args[next] \in Strings /\ Len(args[next]) < MaxString
    BY <2>1 DEF Inv, VectorsInv
  <2>3. Len(envs) + Len(args) - next \in Nat /\ Len(envs) + Len(args) - next + 1 <= MaxArgs + MaxEnv
    BY <2>1, StartAssumption DEF Inv, VectorsInv
  <2>4. Pushed(args[next]) \in Int /\ Pushed(args[next]) >= 0
    BY <2>1, <2>2, <2>3, PushedRoom
  <2>5. next \in Nat \ {0} /\ next <= Len(args) /\ ~PushEnv
    BY <2>1 DEF PushEnv
  <2>6. QED
    BY <2>1, <2>2, <2>4, <2>5
<1>3. QED
  BY <1>1, <1>2

\* The tables are stored on the stack page.
LEMMA ImageTables == Inv /\ ImageInv /\ BuildTables => ImageInv'
<1> SUFFICES ASSUME Inv, ImageInv, BuildTables PROVE ImageInv'
  OBVIOUS
<1>1. PICK ws : ws = WordsFrom(StackBase + ArgcAt, <<Len(args)>> \o ptrs.args \o <<0>> \o ptrs.envs \o <<0>>)
  OBVIOUS
<1>2. PICK new : new = [x \in {y \in DOMAIN ws : y >= StackBase} |-> ws[x]]
  OBVIOUS
<1>3. /\ UNCHANGED <<call, pages, writable>> /\ pc = "args" /\ pc' = "ready"
      /\ memory' = Store(memory, new) /\ regs'.rip = call.file.entry
  BY <1>1, <1>2 DEF BuildTables, StoreWords
<1>4. \A a \in DOMAIN ws : a \in Int
  BY <1>1 DEF WordsFrom
<1>5. \A a \in DOMAIN new : a \in Int /\ a >= StackBase
  BY <1>2, <1>4
<1>6. \E z : memory' = Store(memory, z) /\ \A a \in DOMAIN z : a \in Int /\ a >= StackBase
  BY <1>3, <1>5
<1>7. pc \in Shaped \ {"segments"} /\ pc' \in Shaped \ {"segments"}
  BY <1>3 DEF Shaped
<1>8. QED
  BY <1>3, <1>6, <1>7, ImageKept

\* What the image rests on is unchanged.
LEMMA ImageStays == ImageInv /\ UNCHANGED <<call, pc, pages, memory, writable, next, regs>> => ImageInv'
BY DEF ImageInv, StackBase

\* Every step keeps the invariant about the image.
LEMMA ImageStep == Inv /\ ImageInv /\ [Next]_vars => ImageInv'
<1> SUFFICES ASSUME Inv, ImageInv, [Next]_vars PROVE ImageInv'
  OBVIOUS
<1>1. CASE RefuseVectors \/ RefuseImage \/ RefuseExec \/ ImagePanics \/ CopyVectors \/ LoadImage
  BY <1>1, ImagePasses
<1>2. CASE PreparePages \/ SegmentPanics \/ LoadSegment \/ SegmentsLoaded \/ BuildTables
  BY <1>2, ImagePrepared, ImageStops, ImageGrows, ImageDone, ImageTables
<1>3. CASE PushEnv \/ PushArg
  <2>1. PICK str \in Strings, list \in {"args", "envs"} :
          Push(list, str) /\ Pushed(str) \in Int /\ Pushed(str) >= 0
    BY <1>3, NextString
  <2>2. pc \in {"envs", "args"}
    BY <1>3, NextString
  <2>3. QED
    BY <2>1, <2>2, ImagePushed
<1>4. CASE EnvsPushed
  <2>1. /\ UNCHANGED <<call, pages, writable>> /\ memory' = memory /\ pc = "envs" /\ pc' = "args"
    BY <1>4 DEF EnvsPushed
  <2>2. pc \in Shaped \ {"segments"} /\ pc' \in Shaped \ {"segments"} /\ pc' # "ready"
    BY <2>1 DEF Shaped
  <2>3. QED
    BY <2>1, <2>2, ImageKept
<1>5. CASE Over \/ UNCHANGED vars
  BY <1>5, ImageStays DEF Over, vars
<1>6. QED
  BY <1>1, <1>2, <1>3, <1>4, <1>5 DEF Next

\* A file whose numbers are in order is refused or loaded: elf_validate_user_image
\* rejects whatever scheduler_load_user_segments would stop the kernel for.
THEOREM OrderlyFilesLoad == Spec => []PlainImagesLoad
<1>1. ImageInv => PlainImagesLoad
  BY DEF ImageInv, PlainImagesLoad
<1>2. QED
  BY InitInv, NextInv, ImageInit, ImageStep, <1>1, PTL DEF Spec

\* When the program starts its memory is its image, byte by byte, and the pages
\* that it may write are the ones its segments, its heap and its stack need.
THEOREM ImageIsExact == Spec => []LoadExact
<1>1. Inv /\ ImageInv => LoadExact
  <2> SUFFICES ASSUME Inv, ImageInv, pc = "ready", Plain(call.file) PROVE LoadExact
    BY DEF LoadExact
  <2>1. PICK f : f = call.file
    OBVIOUS
  <2>2. PICK k : k = Len(Loads(f))
    OBVIOUS
  <2>3. /\ Valid(f) /\ pages \in Nat /\ pages > 1
        /\ Loaded(f, memory, k, StackBase) /\ Opened(f, writable, k, pages) /\ regs.rip = f.entry
    BY <2>1, <2>2 DEF ImageInv, Shaped
  <2>4. Fine(f) /\ f \in Files
    BY <2>1, <2>3, InputsAssumption DEF Fine, Inv
  <2>5. ASSUME NEW a \in 0 .. StackBase - 1 PROVE Expected(f, a) = {memory[a]}
    <3> DEFINE here == {i \in 1 .. k : Loads(f)[i].vaddr <= a /\ a < Loads(f)[i].vaddr + Loads(f)[i].filesz}
    <3>1. here = {i \in 1 .. k : Covers(Loads(f)[i], a)}
      BY DEF Covers
    <3>2. /\ here = {} => Expected(f, a) = {Zero}
          /\ here # {} => Expected(f, a) = {FileByte(Loads(f)[i].offset + a - Loads(f)[i].vaddr) : i \in here}
      BY <2>2 DEF Expected
    <3> HIDE DEF here
    <3>3. CASE here = {}
      <4>1. memory[a] = Zero
        BY <2>3, <3>1, <3>3 DEF Loaded
      <4>2. QED
        BY <3>2, <3>3, <4>1
    <3>4. CASE here # {}
      <4>1. \A i \in here : FileByte(Loads(f)[i].offset + a - Loads(f)[i].vaddr) = memory[a]
        BY <2>3, <3>1 DEF Loaded
      <4>2. {FileByte(Loads(f)[i].offset + a - Loads(f)[i].vaddr) : i \in here} = {memory[a]}
        BY <3>4, <4>1
      <4>3. QED
        BY <3>2, <3>4, <4>2
    <3>5. QED
      BY <3>3, <3>4
  <2>6. ASSUME NEW g \in 0 .. pages - 1
        PROVE  g \in writable <=>
                 \/ g >= ImagePages(f)
                 \/ \E i \in 1 .. Len(Loads(f)) :
                      LET s == Loads(f)[i]
                      IN  s.w /\ s.vaddr < (g + 1) * PageSize /\ g * PageSize < s.vaddr + s.memsz
    <3>1. g \in Int
      OBVIOUS
    <3>2. g \in writable <=> g >= ImagePages(f) \/ \E i \in 1 .. k : Loads(f)[i].w /\ g \in SegmentPages(Loads(f)[i])
      BY <2>3 DEF Opened
    <3>3. \A i \in 1 .. k : g \in SegmentPages(Loads(f)[i]) <=>
            /\ Loads(f)[i].vaddr < (g + 1) * PageSize
            /\ g * PageSize < Loads(f)[i].vaddr + Loads(f)[i].memsz
      BY <2>2, <2>4, <3>1, PagesOfSegment
    <3>4. QED
      BY <2>2, <3>2, <3>3
  <2>7. f.entry \in 0 .. ImagePages(f) * PageSize - 1
    <3>1. PICK i \in 1 .. Len(Loads(f)) : f.entry >= Loads(f)[i].vaddr /\ f.entry < SegmentTop(Loads(f)[i])
      BY <2>4 DEF Fine, Valid, EntryInSegment
    <3>2. PICK s : s = Loads(f)[i]
      OBVIOUS
    <3>3. SegmentTop(s) = s.vaddr + s.memsz /\ s.vaddr \in Nat /\ s.memsz \in Nat
      BY <2>4, <3>2, FineSegment
    <3>4. Loads(f)[i].vaddr + Loads(f)[i].memsz <= ImagePages(f) * PageSize
      BY <2>4, FineImage
    <3>5. PICK c \in Nat : c = ImagePages(f)
      BY <2>4, FineImage, ElfAssumption
    <3>6. PICK z \in Int : z = c * PageSize
      BY ElfAssumption
    <3>7. PICK e \in Int : e = f.entry
      BY <2>4 DEF Files
    <3>8. PICK v, m \in Nat : v = s.vaddr /\ m = s.memsz
      BY <3>3
    <3>9. e >= v /\ e < v + m /\ v + m <= z
      BY <3>1, <3>2, <3>3, <3>4, <3>5, <3>6, <3>7, <3>8
    <3>10. e \in 0 .. z - 1
      BY <3>9
    <3>11. QED
      BY <3>5, <3>6, <3>7, <3>10
  <2>8. QED
    BY <2>1, <2>3, <2>5, <2>6, <2>7 DEF LoadExact
<1>2. QED
  BY InitInv, NextInv, ImageInit, ImageStep, <1>1, PTL DEF Spec

-----------------------------------------------------------------------------
(***************************************************************************)
(* The invariant about the first stack: the strings pushed so far lie       *)
(* between the lowest byte in use and the end of the page, each where its   *)
(* pointer says; ps are the pointers to the strings after the first k.     *)
(***************************************************************************)
Lies(mem, p, str, lo, hi) ==
  /\ p \in Int /\ lo <= p /\ p + Len(str) < hi
  /\ \A j \in 1 .. Len(str) : mem[p + (j - 1)] = Byte(str[j])
  /\ mem[p + Len(str)] = Zero

Placed(mem, ps, strings, k, lo, hi) ==
  /\ ps \in Seq(Int) /\ Len(ps) = Len(strings) - k
  /\ \A i \in 1 .. Len(ps) : Lies(mem, ps[i], strings[k + i], lo, hi)

\* A table at b: the pointers, then NULL.
Points(mem, b, ps) ==
  /\ \A i \in 1 .. Len(ps) : mem[b + (i - 1) * WordSize] = Word(ps[i])
  /\ mem[b + Len(ps) * WordSize] = Word(0)

Delivered ==
  pc = "ready" =>
    /\ Placed(memory, ptrs.args, args, 0, StackBase, pages * PageSize)
    /\ Placed(memory, ptrs.envs, envs, 0, StackBase, pages * PageSize)
    /\ regs.argc = Len(args) /\ memory[regs.rsp] = Word(Len(args))
    /\ Points(memory, regs.argv, ptrs.args) /\ Points(memory, regs.envp, ptrs.envs)

ArgInv ==
  /\ pc \in {"create"} \cup Shaped \/ (pc = "image" /\ call.caller = "user") =>
       args = StringsOf(call.argv) /\ envs = StringsOf(call.envp)
  /\ off <= PageSize
  /\ ptrs \in [args : Seq(Int), envs : Seq(Int)]
  /\ pc \in Before \cup {"envs"} => ptrs.args = <<>>
  /\ pc \in Before => ptrs.envs = <<>>
  /\ pc = "envs" => Placed(memory, ptrs.envs, envs, next, StackBase + off, pages * PageSize)
  /\ pc = "args" => /\ Placed(memory, ptrs.args, args, next, StackBase + off, pages * PageSize)
                    /\ Placed(memory, ptrs.envs, envs, 0, StackBase + off, pages * PageSize)
  /\ Delivered

\* The elements of two sequences, one behind the other.
LEMMA ConcatFacts ==
  ASSUME NEW S, NEW a \in Seq(S), NEW b \in Seq(S)
  PROVE  /\ a \o b \in Seq(S) /\ Len(a \o b) = Len(a) + Len(b)
         /\ Len(a) \in Nat /\ Len(b) \in Nat
         /\ \A i \in 1 .. Len(a) : (a \o b)[i] = a[i]
         /\ \A i \in 1 .. Len(b) : (a \o b)[Len(a) + i] = b[i]
  BY ConcatProperties

\* Strings stay where they are when something is stored below them.
LEMMA LiesStill ==
  ASSUME NEW lo \in Int, NEW hi \in Int, lo >= 0, NEW mem, DOMAIN mem = 0 .. hi - 1,
         NEW p, NEW str \in Strings, Lies(mem, p, str, lo, hi), NEW lo2 \in Int, lo2 <= lo,
         NEW new, \A a \in DOMAIN new : a \in Int /\ a < lo
  PROVE  Lies(Store(mem, new), p, str, lo2, hi)
<1>1. p \in Int /\ lo <= p /\ p + Len(str) < hi /\ Len(str) \in Nat
  BY DEF Lies, Strings
<1>2. ASSUME NEW j \in 0 .. Len(str) PROVE Store(mem, new)[p + j] = mem[p + j]
  <2>1. p + j \in 0 .. hi - 1 /\ ~(p + j < lo)
    BY <1>1
  <2>2. p + j \in DOMAIN mem /\ p + j \notin DOMAIN new
    BY <2>1
  <2>3. QED
    BY <2>2 DEF Store
<1>3. \A j \in 1 .. Len(str) : j - 1 \in 0 .. Len(str)
  BY <1>1
<1>4. \A j \in 1 .. Len(str) : Store(mem, new)[p + (j - 1)] = Byte(str[j])
  BY <1>2, <1>3 DEF Lies
<1>5. Store(mem, new)[p + Len(str)] = Zero
  BY <1>1, <1>2 DEF Lies
<1>6. QED
  BY <1>1, <1>4, <1>5 DEF Lies

\* So do all strings of a vector.
LEMMA PlacedStill ==
  ASSUME NEW lo \in Int, NEW hi \in Int, lo >= 0, NEW mem, DOMAIN mem = 0 .. hi - 1,
         NEW ps, NEW strings \in Seq(Strings), NEW k \in Nat, Placed(mem, ps, strings, k, lo, hi),
         NEW lo2 \in Int, lo2 <= lo, NEW new, \A a \in DOMAIN new : a \in Int /\ a < lo
  PROVE  Placed(Store(mem, new), ps, strings, k, lo2, hi)
<1>1. ASSUME NEW i \in 1 .. Len(ps) PROVE Lies(Store(mem, new), ps[i], strings[k + i], lo2, hi)
  <2>1. Lies(mem, ps[i], strings[k + i], lo, hi) /\ Len(ps) = Len(strings) - k /\ ps \in Seq(Int)
    BY DEF Placed
  <2>2. k + i \in 1 .. Len(strings)
    BY <2>1
  <2>3. strings[k + i] \in Strings
    BY <2>2
  <2>4. QED
    BY <2>1, <2>3, LiesStill
<1>2. QED
  BY <1>1 DEF Placed

\* scheduler_copy_stack_string puts the string there, with its NUL.
LEMMA LiesNew ==
  ASSUME NEW p \in Int, NEW hi \in Int, p >= 0, NEW mem, DOMAIN mem = 0 .. hi - 1,
         NEW str \in Strings, p + Len(str) < hi
  PROVE  Lies(Store(mem, BytesFrom(p, Append(str, 0))), p, str, p, hi)
<1>1. PICK all : all = Append(str, 0)
  OBVIOUS
<1>2. PICK n \in Nat : n = Len(str)
  BY DEF Strings
<1>3. Len(all) = n + 1 /\ all[n + 1] = 0 /\ \A j \in 1 .. n : all[j] = str[j]
  BY <1>1, <1>2 DEF Strings
<1>4. PICK new : new = BytesFrom(p, all)
  OBVIOUS
<1>5. ASSUME NEW j \in 1 .. n + 1 PROVE Store(mem, new)[p + (j - 1)] = Byte(all[j])
  <2>1. PICK x \in Int : x = p + (j - 1)
    OBVIOUS
  <2>2. x \in p .. p + (n + 1) - 1 /\ x - p + 1 = j /\ x \in 0 .. hi - 1
    BY <1>2, <2>1
  <2>3. x \in DOMAIN new /\ new[x] = Byte(all[j])
    BY <1>3, <1>4, <2>2 DEF BytesFrom
  <2>4. QED
    BY <2>1, <2>2, <2>3 DEF Store
<1>6. \A j \in 1 .. n : Store(mem, new)[p + (j - 1)] = Byte(str[j])
  BY <1>3, <1>5
<1>7. Store(mem, new)[p + n] = Zero
  <2>1. n + 1 \in 1 .. n + 1 /\ (n + 1) - 1 = n
    BY <1>2
  <2>2. Store(mem, new)[p + ((n + 1) - 1)] = Byte(all[n + 1])
    BY <1>5, <2>1
  <2>3. QED
    BY <1>3, <2>1, <2>2 DEF Zero
<1>8. QED
  BY <1>1, <1>2, <1>4, <1>6, <1>7 DEF Lies

\* The pointer joins the ones of the strings after it.
LEMMA PlacedOneMore ==
  ASSUME NEW mem, NEW ps, NEW strings \in Seq(Strings), NEW k \in 1 .. Len(strings), NEW lo, NEW hi,
         Placed(mem, ps, strings, k, lo, hi), NEW p \in Int, Lies(mem, p, strings[k], lo, hi)
  PROVE  Placed(mem, <<p>> \o ps, strings, k - 1, lo, hi)
<1>1. ps \in Seq(Int) /\ Len(ps) = Len(strings) - k /\ Len(strings) \in Nat /\ Len(ps) \in Nat
  BY DEF Placed
<1>2. PICK one : one = <<p>>
  OBVIOUS
<1>3. one \in Seq(Int) /\ Len(one) = 1 /\ one[1] = p
  BY <1>2
<1>4. PICK q : q = one \o ps
  OBVIOUS
<1>5. /\ q \in Seq(Int) /\ Len(q) = 1 + Len(ps) /\ q[1] = p
      /\ \A i \in 1 .. Len(ps) : q[1 + i] = ps[i]
  <2>1. /\ one \o ps \in Seq(Int) /\ Len(one \o ps) = Len(one) + Len(ps)
        /\ \A i \in 1 .. Len(one) : (one \o ps)[i] = one[i]
        /\ \A i \in 1 .. Len(ps) : (one \o ps)[Len(one) + i] = ps[i]
    <3>1. one \in Seq(Int) /\ ps \in Seq(Int)
      BY <1>1, <1>3
    <3>2. PICK T : T = Int
      OBVIOUS
    <3>3. one \in Seq(T) /\ ps \in Seq(T)
      BY <3>1, <3>2
    <3>4. /\ one \o ps \in Seq(T) /\ Len(one \o ps) = Len(one) + Len(ps)
          /\ \A i \in 1 .. Len(one) : (one \o ps)[i] = one[i]
          /\ \A i \in 1 .. Len(ps) : (one \o ps)[Len(one) + i] = ps[i]
      BY <3>3, ConcatFacts
    <3>5. QED
      BY <3>2, <3>4
  <2>2. q[1] = p
    BY <1>3, <1>4, <2>1
  <2>3. QED
    BY <1>3, <1>4, <2>1, <2>2
<1>6. ASSUME NEW i \in 1 .. Len(q) PROVE Lies(mem, q[i], strings[(k - 1) + i], lo, hi)
  <2>1. CASE i = 1
    <3>1. (k - 1) + i = k
      BY <2>1
    <3>2. QED
      BY <1>5, <2>1, <3>1
  <2>2. CASE i # 1
    <3>1. PICK j \in Int : j = i - 1
      BY <1>5
    <3>2. j \in 1 .. Len(ps) /\ i = 1 + j /\ (k - 1) + i = k + j
      BY <1>1, <1>5, <2>2, <3>1
    <3>3. Lies(mem, ps[j], strings[k + j], lo, hi)
      BY <3>2 DEF Placed
    <3>4. QED
      BY <1>5, <3>2, <3>3
  <2>3. QED
    BY <2>1, <2>2
<1>7. Len(q) = Len(strings) - (k - 1)
  BY <1>1, <1>5
<1>8. QED
  BY <1>2, <1>4, <1>5, <1>6, <1>7 DEF Placed

\* Nothing is on the stack when the call begins.
LEMMA ArgInit == Init => ArgInv
<1> SUFFICES ASSUME Init PROVE ArgInv
  OBVIOUS
<1>1. /\ pc \in {"vectors", "image"} /\ (pc = "vectors" <=> call.caller = "user")
      /\ ptrs = [args |-> <<>>, envs |-> <<>>] /\ off = PageSize /\ PageSize \in Nat
  BY ElfAssumption DEF Init
<1>2. Delivered
  BY <1>1 DEF Delivered
<1>3. <<>> \in Seq(Int)
  OBVIOUS
<1>4. ptrs \in [args : Seq(Int), envs : Seq(Int)] /\ ptrs.args = <<>> /\ ptrs.envs = <<>>
  BY <1>1, <1>3
<1>5. QED
  BY <1>1, <1>2, <1>4 DEF ArgInv, Shaped, Before

\* The call goes on or ends before anything is on the stack.
LEMMA ArgPasses ==
  ASSUME Inv, ArgInv, pc \in Before, pc' \in Before, UNCHANGED <<off, ptrs>>,
         \/ pc' \in {"refused", "panic"}
         \/ args' = StringsOf(call.argv) /\ envs' = StringsOf(call.envp) /\ call' = call
         \/ /\ UNCHANGED <<call, args, envs>>
            /\ \/ pc = "segments"
               \/ pc = "create"
               \/ pc = "image" /\ (pc' = "create" <=> call.caller = "user") /\ pc' \in {"create", "vectors"}
  PROVE  ArgInv'
<1>1. Delivered'
  BY DEF Delivered, Before
<1>2. /\ ptrs' \in [args : Seq(Int), envs : Seq(Int)] /\ ptrs'.args = <<>> /\ ptrs'.envs = <<>>
      /\ off' <= PageSize
  BY DEF ArgInv
<1>3. pc' # "envs" /\ pc' # "args"
  BY DEF Before
<1>4. pc' \in {"create"} \cup Shaped \/ (pc' = "image" /\ call'.caller = "user") =>
        args' = StringsOf(call'.argv) /\ envs' = StringsOf(call'.envp)
  BY DEF ArgInv, Shaped
<1>5. QED
  BY <1>1, <1>2, <1>3, <1>4 DEF ArgInv

\* The first string can be pushed: nothing is on the page.
LEMMA ArgStarts == Inv /\ ImageInv /\ ArgInv /\ SegmentsLoaded => ArgInv'
<1> SUFFICES ASSUME Inv, ImageInv, ArgInv, SegmentsLoaded PROVE ArgInv'
  OBVIOUS
<1>1. /\ pc = "segments" /\ pc' = "envs" /\ next' = Len(envs)
      /\ UNCHANGED <<call, args, envs, pages, memory, off, ptrs>>
  BY DEF SegmentsLoaded
<1>2. ptrs'.args = <<>> /\ ptrs'.envs = <<>> /\ ptrs' \in [args : Seq(Int), envs : Seq(Int)]
  BY <1>1 DEF ArgInv, Before
<1>3. Delivered'
  BY <1>1 DEF Delivered
<1>4. envs \in Seq(Strings) /\ Len(envs) \in Nat
  BY DEF Inv, VectorsInv
<1>5. \A mem, lo, hi : Placed(mem, <<>>, envs, Len(envs), lo, hi)
  <2>1. <<>> \in Seq(Int) /\ Len(<<>>) = Len(envs) - Len(envs)
    BY <1>4
  <2>2. QED
    BY <2>1 DEF Placed
<1>6. Placed(memory, ptrs.envs, envs, next, StackBase + off, pages * PageSize)'
  BY <1>1, <1>2, <1>5
<1>7. args' = StringsOf(call'.argv) /\ envs' = StringsOf(call'.envp) /\ off' <= PageSize
  BY <1>1 DEF ArgInv, Shaped
<1>8. QED
  BY <1>1, <1>2, <1>3, <1>6, <1>7 DEF ArgInv, Before

\* A string is pushed below the others.
LEMMA ArgPushed ==
  ASSUME Inv, ImageInv, ArgInv, PushEnv \/ PushArg
  PROVE  ArgInv'
<1>1. PICK str \in Strings, list \in {"args", "envs"} :
        /\ Push(list, str) /\ Pushed(str) \in Int /\ Pushed(str) >= 0
        /\ next \in Nat \ {0} /\ list = pc
        /\ pc = "envs" => str = envs[next] /\ next <= Len(envs)
        /\ pc = "args" => str = args[next] /\ next <= Len(args)
  BY NextString
<1>2. pages \in Nat /\ pages > 1 /\ DOMAIN memory = 0 .. pages * PageSize - 1
  BY <1>1 DEF ImageInv, Shaped
<1>3. PICK base \in Int : base = StackBase
  BY <1>2, StackIsLast
<1>4. PICK hi \in Int : hi = pages * PageSize
  BY <1>2, StackIsLast
<1>5. PICK lo \in Int : lo = base + off
  BY DEF Inv, StackInv
<1>6. PICK p \in Int : p = base + Pushed(str)
  BY <1>1
<1>7. PICK n \in Nat : n = Len(str)
  BY DEF Strings
<1>8. base > 0 /\ base + PageSize = hi /\ off \in Int /\ off <= PageSize /\ PageSize \in Nat
  BY <1>2, <1>3, <1>4, StackIsLast, ElfAssumption DEF Inv, StackInv, ArgInv
<1>9. p + n + 1 = lo /\ p >= 0 /\ p <= lo /\ lo >= 0 /\ p + n < hi /\ off' = Pushed(str) /\ off' <= PageSize
  <2>1. off' = Pushed(str)
    BY <1>1 DEF Push
  <2>2. Pushed(str) = off - (n + 1)
    BY <1>7 DEF Pushed
  <2>3. PICK q \in Int : q = Pushed(str)
    BY <1>1
  <2>4. q >= 0 /\ q = off - (n + 1) /\ p = base + q
    BY <1>1, <1>6, <2>2, <2>3
  <2>5. p + n + 1 = lo /\ p >= 0 /\ p <= lo /\ lo >= 0 /\ p + n < hi /\ q <= PageSize
    BY <1>5, <1>8, <2>4
  <2>6. QED
    BY <2>1, <2>3, <2>5
<1>10. PICK mem : mem = memory
  OBVIOUS
<1>11. PICK new : new = BytesFrom(p, Append(str, 0))
  OBVIOUS
<1>12. PICK m2 : m2 = Store(mem, new)
  OBVIOUS
<1>13. /\ memory' = m2 /\ pc' = pc /\ next' = next - 1 /\ UNCHANGED <<call, args, envs, pages>>
       /\ ptrs' = [ptrs EXCEPT ![list] = <<p>> \o ptrs[list]]
  BY <1>1, <1>3, <1>6, <1>10, <1>11, <1>12 DEF Push
<1>14. (StackBase + off)' = p /\ (pages * PageSize)' = hi /\ DOMAIN mem = 0 .. hi - 1
       /\ StackBase + off = lo
  BY <1>2, <1>3, <1>4, <1>5, <1>6, <1>9, <1>10, <1>13 DEF StackBase
<1>15. \A a \in DOMAIN new : a \in Int /\ a < lo
  <2>1. Len(Append(str, 0)) = n + 1
    BY <1>7 DEF Strings
  <2>2. DOMAIN new = p .. p + (n + 1) - 1
    BY <1>11, <2>1 DEF BytesFrom
  <2>3. QED
    BY <1>9, <2>2
<1>16. Lies(m2, p, str, p, hi)
  BY <1>7, <1>9, <1>11, <1>12, <1>14, LiesNew
<1>17. args \in Seq(Strings) /\ envs \in Seq(Strings) /\ ptrs \in [args : Seq(Int), envs : Seq(Int)]
  BY DEF Inv, VectorsInv, ArgInv
<1>18. PICK ea : ea = args
  OBVIOUS
<1>19. PICK ee : ee = envs
  OBVIOUS
<1>20. PICK k \in Nat : k = next
  BY <1>1
<1>21. args' = ea /\ envs' = ee /\ next' = k - 1 /\ k # 0 /\ ea \in Seq(Strings) /\ ee \in Seq(Strings)
  BY <1>1, <1>13, <1>17, <1>18, <1>19, <1>20
<1>22. \A ps, strings, j : strings \in Seq(Strings) /\ j \in Nat /\ Placed(mem, ps, strings, j, lo, hi)
                             => Placed(m2, ps, strings, j, p, hi)
  BY <1>9, <1>12, <1>14, <1>15, PlacedStill
<1>23. Delivered'
  BY <1>1, <1>13 DEF Delivered
<1>24. args' = StringsOf(call'.argv) /\ envs' = StringsOf(call'.envp)
  BY <1>1, <1>13 DEF ArgInv, Shaped
<1>25. CASE pc = "envs"
  <2>1. PICK ps : ps = ptrs.envs
    OBVIOUS
  <2>2. Placed(mem, ps, ee, k, lo, hi) /\ k \in 1 .. Len(ee) /\ str = ee[k]
    BY <1>1, <1>4, <1>10, <1>14, <1>19, <1>20, <1>25, <2>1 DEF ArgInv
  <2>3. Placed(m2, ps, ee, k, p, hi)
    BY <1>21, <1>22, <2>2
  <2>4. Placed(m2, <<p>> \o ps, ee, k - 1, p, hi)
    BY <1>16, <1>21, <2>2, <2>3, PlacedOneMore
  <2>5. list = "envs" /\ ptrs.args = <<>>
    BY <1>1, <1>25 DEF ArgInv
  <2>6. ptrs'.envs = <<p>> \o ps /\ ptrs'.args = <<>>
    BY <1>13, <1>17, <2>1, <2>5
  <2>7. ptrs' \in [args : Seq(Int), envs : Seq(Int)]
    <3>1. <<p>> \o ps \in Seq(Int)
      BY <2>4 DEF Placed
    <3>2. QED
      BY <1>13, <1>17, <2>1, <2>5, <3>1
  <2>8. QED
    BY <1>9, <1>13, <1>14, <1>21, <1>23, <1>24, <1>25, <2>4, <2>6, <2>7 DEF ArgInv, Before
<1>26. CASE pc = "args"
  <2>1. PICK ps : ps = ptrs.args
    OBVIOUS
  <2>2. PICK qs : qs = ptrs.envs
    OBVIOUS
  <2>3. Placed(mem, ps, ea, k, lo, hi) /\ k \in 1 .. Len(ea) /\ str = ea[k] /\ Placed(mem, qs, ee, 0, lo, hi)
    BY <1>1, <1>4, <1>10, <1>14, <1>18, <1>19, <1>20, <1>26, <2>1, <2>2 DEF ArgInv
  <2>4. Placed(m2, ps, ea, k, p, hi) /\ Placed(m2, qs, ee, 0, p, hi)
    BY <1>21, <1>22, <2>3
  <2>5. Placed(m2, <<p>> \o ps, ea, k - 1, p, hi)
    BY <1>16, <1>21, <2>3, <2>4, PlacedOneMore
  <2>6. list = "args"
    BY <1>1, <1>26
  <2>7. ptrs'.args = <<p>> \o ps /\ ptrs'.envs = qs
    BY <1>13, <1>17, <2>1, <2>2, <2>6
  <2>8. ptrs' \in [args : Seq(Int), envs : Seq(Int)]
    <3>1. <<p>> \o ps \in Seq(Int)
      BY <2>5 DEF Placed
    <3>2. QED
      BY <1>13, <1>17, <2>1, <2>6, <3>1
  <2>9. QED
    BY <1>9, <1>13, <1>14, <1>21, <1>23, <1>24, <1>26, <2>4, <2>5, <2>7, <2>8 DEF ArgInv, Before
<1>27. QED
  BY <1>1, <1>25, <1>26

\* The environment is on the stack; the arguments follow below it.
LEMMA ArgTurns == Inv /\ ImageInv /\ ArgInv /\ EnvsPushed => ArgInv'
<1> SUFFICES ASSUME Inv, ImageInv, ArgInv, EnvsPushed PROVE ArgInv'
  OBVIOUS
<1>1. /\ pc = "envs" /\ next = 0 /\ pc' = "args" /\ next' = Len(args)
      /\ UNCHANGED <<call, args, envs, pages, memory, off, ptrs>>
  BY DEF EnvsPushed
<1>2. ptrs.args = <<>> /\ Placed(memory, ptrs.envs, envs, 0, StackBase + off, pages * PageSize)
  BY <1>1 DEF ArgInv
<1>3. args \in Seq(Strings) /\ Len(args) \in Nat
  BY DEF Inv, VectorsInv
<1>4. \A mem, lo, hi : Placed(mem, <<>>, args, Len(args), lo, hi)
  <2>1. <<>> \in Seq(Int) /\ Len(<<>>) = Len(args) - Len(args)
    BY <1>3
  <2>2. QED
    BY <2>1 DEF Placed
<1>5. Placed(memory, ptrs.args, args, next, StackBase + off, pages * PageSize)'
  BY <1>1, <1>2, <1>4
<1>6. Placed(memory, ptrs.envs, envs, 0, StackBase + off, pages * PageSize)'
  BY <1>1, <1>2 DEF StackBase
<1>7. Delivered'
  BY <1>1 DEF Delivered
<1>8. /\ args' = StringsOf(call'.argv) /\ envs' = StringsOf(call'.envp) /\ off' <= PageSize
      /\ ptrs' \in [args : Seq(Int), envs : Seq(Int)]
  BY <1>1 DEF ArgInv, Shaped
<1>9. QED
  BY <1>1, <1>5, <1>6, <1>7, <1>8 DEF ArgInv, Before

\* A multiple of d is divided by d without a rest.
LEMMA Multiple ==
  ASSUME NEW k \in Int, NEW d \in Nat \ {0}
  PROVE  (k * d) % d = 0 /\ (k * d) \div d = k
<1>1. PICK x \in Int : x = k * d
  OBVIOUS
<1>2. PICK q \in Int : q = x \div d
  OBVIOUS
<1>3. PICK r \in Int : r = x % d
  OBVIOUS
<1>4. x = (d * q) + r /\ 0 <= r /\ r < d
  BY <1>2, <1>3
<1>5. d * q \in Int
  OBVIOUS
<1>6. k >= q + 1 => k * d >= d * q + d
  <2>1. k >= q + 1 => k * d >= (q + 1) * d
    OBVIOUS
  <2>2. (q + 1) * d = d * q + d
    OBVIOUS
  <2>3. QED
    BY <2>1, <2>2
<1>7. k <= q - 1 => k * d <= d * q - d
  <2>1. k <= q - 1 => k * d <= (q - 1) * d
    OBVIOUS
  <2>2. (q - 1) * d = d * q - d
    OBVIOUS
  <2>3. QED
    BY <2>1, <2>2
<1>8. ~(k >= q + 1) /\ ~(k <= q - 1)
  BY <1>1, <1>4, <1>5, <1>6, <1>7
<1>9. k = q
  BY <1>8
<1>10. r = 0
  BY <1>1, <1>4, <1>5, <1>9
<1>11. QED
  BY <1>1, <1>2, <1>3, <1>9, <1>10

\* The words of the two tables, in their order.
Table(c, pa, pe) == <<c>> \o pa \o <<0>> \o pe \o <<0>>

InOrder(ws, c, pa, pe) ==
  /\ ws = Table(c, pa, pe) /\ Len(ws) = Len(pa) + Len(pe) + 3 /\ ws[1] = c
  /\ \A i \in 1 .. Len(pa) : ws[1 + i] = pa[i]
  /\ ws[Len(pa) + 2] = 0
  /\ \A i \in 1 .. Len(pe) : ws[Len(pa) + 2 + i] = pe[i]
  /\ ws[Len(pa) + Len(pe) + 3] = 0

\* The words that BuildTables stores: argc, the arguments, NULL, the
\* environment, NULL.
LEMMA TableWords ==
  ASSUME NEW c \in Int, NEW pa \in Seq(Int), NEW pe \in Seq(Int)
  PROVE  \E ws \in Seq(Int) : InOrder(ws, c, pa, pe)
<1>0. PICK ws : ws = Table(c, pa, pe)
  OBVIOUS
<1>1. PICK T : T = Int
  OBVIOUS
<1>2. PICK one : one = <<c>>
  OBVIOUS
<1>3. PICK nul : nul = <<0>>
  OBVIOUS
<1>4. one \in Seq(T) /\ nul \in Seq(T) /\ pa \in Seq(T) /\ pe \in Seq(T)
  BY <1>1, <1>2, <1>3
<1>5. Len(one) = 1 /\ one[1] = c /\ Len(nul) = 1 /\ nul[1] = 0
  BY <1>2, <1>3
<1>6. PICK A \in Nat : A = Len(pa)
  OBVIOUS
<1>7. PICK E \in Nat : E = Len(pe)
  OBVIOUS
<1>8. PICK w1 : w1 = one \o pa
  OBVIOUS
<1>9. /\ w1 \in Seq(T) /\ Len(w1) = 1 + A /\ w1[1] = c
      /\ \A i \in 1 .. A : w1[1 + i] = pa[i]
  <2>1. /\ one \o pa \in Seq(T) /\ Len(one \o pa) = Len(one) + Len(pa)
        /\ \A i \in 1 .. Len(one) : (one \o pa)[i] = one[i]
        /\ \A i \in 1 .. Len(pa) : (one \o pa)[Len(one) + i] = pa[i]
    BY <1>4, ConcatFacts
  <2>2. 1 \in 1 .. Len(one)
    BY <1>5
  <2>3. QED
    BY <1>5, <1>6, <1>8, <2>1, <2>2
<1>10. PICK w2 : w2 = w1 \o nul
  OBVIOUS
<1>11. /\ w2 \in Seq(T) /\ Len(w2) = A + 2 /\ w2[A + 2] = 0
       /\ \A i \in 1 .. A + 1 : w2[i] = w1[i]
  <2>1. /\ w1 \o nul \in Seq(T) /\ Len(w1 \o nul) = Len(w1) + Len(nul)
        /\ \A i \in 1 .. Len(w1) : (w1 \o nul)[i] = w1[i]
        /\ \A i \in 1 .. Len(nul) : (w1 \o nul)[Len(w1) + i] = nul[i]
    <3>1. w1 \in Seq(T) /\ nul \in Seq(T)
      BY <1>4, <1>9
    <3>2. QED
      BY <3>1, ConcatFacts
  <2>2. 1 \in 1 .. Len(nul) /\ Len(w1) = A + 1 /\ (A + 1) + 1 = A + 2
    BY <1>5, <1>9
  <2>3. QED
    BY <1>5, <1>10, <2>1, <2>2
<1>12. PICK w3 : w3 = w2 \o pe
  OBVIOUS
<1>13. /\ w3 \in Seq(T) /\ Len(w3) = A + E + 2
       /\ \A i \in 1 .. A + 2 : w3[i] = w2[i]
       /\ \A i \in 1 .. E : w3[A + 2 + i] = pe[i]
  <2>1. /\ w2 \o pe \in Seq(T) /\ Len(w2 \o pe) = Len(w2) + Len(pe)
        /\ \A i \in 1 .. Len(w2) : (w2 \o pe)[i] = w2[i]
        /\ \A i \in 1 .. Len(pe) : (w2 \o pe)[Len(w2) + i] = pe[i]
    <3>1. w2 \in Seq(T) /\ pe \in Seq(T)
      BY <1>4, <1>11
    <3>2. QED
      BY <3>1, ConcatFacts
  <2>2. (A + 2) + E = A + E + 2
    OBVIOUS
  <2>3. QED
    BY <1>7, <1>11, <1>12, <2>1, <2>2
<1>14. /\ ws \in Seq(T) /\ Len(ws) = A + E + 3 /\ ws[A + E + 3] = 0
       /\ \A i \in 1 .. A + E + 2 : ws[i] = w3[i]
  <2>1. /\ w3 \o nul \in Seq(T) /\ Len(w3 \o nul) = Len(w3) + Len(nul)
        /\ \A i \in 1 .. Len(w3) : (w3 \o nul)[i] = w3[i]
        /\ \A i \in 1 .. Len(nul) : (w3 \o nul)[Len(w3) + i] = nul[i]
    <3>1. w3 \in Seq(T) /\ nul \in Seq(T)
      BY <1>4, <1>13
    <3>2. QED
      BY <3>1, ConcatFacts
  <2>2. 1 \in 1 .. Len(nul) /\ (A + E + 2) + 1 = A + E + 3
    BY <1>5
  <2>3. ws = w3 \o nul
    BY <1>0, <1>2, <1>3, <1>8, <1>10, <1>12 DEF Table
  <2>4. ws \in Seq(T) /\ Len(ws) = A + E + 3
    BY <1>5, <1>13, <2>1, <2>2, <2>3
  <2>5. ws[(A + E + 2) + 1] = nul[1]
    BY <1>13, <2>1, <2>2, <2>3
  <2>6. \A i \in 1 .. A + E + 2 : ws[i] = w3[i]
    BY <1>13, <2>1, <2>3
  <2>7. QED
    BY <1>5, <2>2, <2>4, <2>5, <2>6
<1>15. ws[1] = c
  <2>1. 1 \in 1 .. A + E + 2 /\ 1 \in 1 .. A + 2 /\ 1 \in 1 .. A + 1
    OBVIOUS
  <2>2. QED
    BY <1>9, <1>11, <1>13, <1>14, <2>1
<1>16. ASSUME NEW i \in 1 .. A PROVE ws[1 + i] = pa[i]
  <2>1. 1 + i \in 1 .. A + E + 2 /\ 1 + i \in 1 .. A + 2 /\ 1 + i \in 1 .. A + 1
    OBVIOUS
  <2>2. QED
    BY <1>9, <1>11, <1>13, <1>14, <2>1
<1>17. ws[A + 2] = 0
  <2>1. A + 2 \in 1 .. A + E + 2 /\ A + 2 \in 1 .. A + 2
    OBVIOUS
  <2>2. QED
    BY <1>11, <1>13, <1>14, <2>1
<1>18. ASSUME NEW i \in 1 .. E PROVE ws[A + 2 + i] = pe[i]
  <2>1. A + 2 + i \in 1 .. A + E + 2
    OBVIOUS
  <2>2. QED
    BY <1>13, <1>14, <2>1
<1>19. QED
  BY <1>0, <1>1, <1>6, <1>7, <1>14, <1>15, <1>16, <1>17, <1>18 DEF InOrder

\* A table of words that fits is stored whole.
Upper(words, base) == [x \in {y \in DOMAIN words : y >= base} |-> words[x]]

\* After the stores each word is where it belongs.
LEMMA WordsStored ==
  ASSUME NEW mem, NEW hi \in Int, DOMAIN mem = 0 .. hi - 1, NEW base \in Nat, NEW a \in Int, a >= base,
         NEW ws \in Seq(Int), a + Len(ws) * WordSize <= hi
  PROVE  \E new :
           /\ new = Upper(WordsFrom(a, ws), base)
           /\ \A x \in DOMAIN new : x \in Int /\ x < a + Len(ws) * WordSize
           /\ \A k \in 1 .. Len(ws) : Store(mem, new)[a + (k - 1) * WordSize] = Word(ws[k])
<1>9. PICK words : words = WordsFrom(a, ws)
  OBVIOUS
<1>10. PICK new : new = Upper(words, base)
  OBVIOUS
<1>11. new = [x \in {y \in DOMAIN words : y >= base} |-> words[x]]
  BY <1>10 DEF Upper
<1>1. PICK d \in Nat \ {0} : d = WordSize
  BY StartAssumption
<1>2. PICK n \in Nat : n = Len(ws)
  OBVIOUS
<1>3. PICK z \in Int : z = n * d
  OBVIOUS
<1>4. a + Len(ws) * WordSize = a + z /\ a + z <= hi
  BY <1>1, <1>2, <1>3
<1>5. DOMAIN words = a .. a + z - 1
  BY <1>9, <1>1, <1>2, <1>3 DEF WordsFrom
<1>6. \A x \in DOMAIN new : x \in Int /\ x < a + z
  BY <1>11, <1>5
<1>7. ASSUME NEW k \in 1 .. n PROVE Store(mem, new)[a + (k - 1) * d] = Word(ws[k])
  <2>1. PICK y \in Int : y = (k - 1) * d
    OBVIOUS
  <2>2. y >= 0 /\ y < z
    <3>1. (k - 1) * d >= 0
      OBVIOUS
    <3>2. k * d <= n * d /\ k * d = (k - 1) * d + d
      OBVIOUS
    <3>3. QED
      BY <1>3, <2>1, <3>1, <3>2
  <2>3. PICK x \in Int : x = a + y
    OBVIOUS
  <2>4. x \in a .. a + z - 1 /\ x >= base /\ x \in 0 .. hi - 1 /\ x - a = y
    BY <1>4, <2>2, <2>3
  <2>5. y % d = 0 /\ y \div d = k - 1
    BY <2>1, Multiple
  <2>6. words[x] = Word(ws[k])
    <3>1. words[x] = IF (x - a) % WordSize = 0 THEN Word(ws[(x - a) \div WordSize + 1]) ELSE Rest
      BY <1>9, <1>1, <1>2, <1>3, <2>4 DEF WordsFrom
    <3>2. (k - 1) + 1 = k
      OBVIOUS
    <3>3. QED
      BY <1>1, <2>4, <2>5, <3>1, <3>2
  <2>7. x \in DOMAIN new /\ new[x] = Word(ws[k]) /\ x \in DOMAIN mem
    BY <1>11, <1>5, <2>4, <2>6
  <2>8. Store(mem, new)[x] = Word(ws[k])
    BY <2>7 DEF Store
  <2>9. QED
    BY <2>1, <2>3, <2>8
<1>8. QED
  BY <1>9, <1>10, <1>1, <1>2, <1>4, <1>6, <1>7

\* The tables below the strings, and argc below the tables.
LEMMA ArgTables == Inv /\ ImageInv /\ ArgInv /\ BuildTables => ArgInv'
<1> SUFFICES ASSUME Inv, ImageInv, ArgInv, BuildTables PROVE ArgInv'
  OBVIOUS
<1>1. /\ pc = "args" /\ next = 0 /\ pc' = "ready" /\ off' = ArgcAt
      /\ UNCHANGED <<call, args, envs, pages, ptrs>>
  BY DEF BuildTables
<1>2. ArgcAt \in Int /\ ArgcAt >= 0
  <2>1. Next
    BY DEF Next
  <2>2. Inv'
    BY <2>1, NextInv
  <2>3. QED
    BY <1>1, <2>2 DEF Inv, StackInv
<1>3. pages \in Nat /\ pages > 1 /\ DOMAIN memory = 0 .. pages * PageSize - 1
  BY <1>1 DEF ImageInv, Shaped
<1>4. PICK base \in Int : base = StackBase
  BY <1>3, StackIsLast
<1>5. PICK hi \in Int : hi = pages * PageSize
  BY <1>3, StackIsLast
<1>6. base > 0 /\ base + PageSize = hi /\ off \in Int /\ off <= PageSize /\ PageSize \in Nat
  BY <1>3, <1>4, <1>5, StackIsLast, ElfAssumption DEF Inv, StackInv, ArgInv
<1>7. PICK d \in Nat \ {0} : d = WordSize
  BY StartAssumption
<1>8. PICK A \in Nat : A = Len(args)
  BY DEF Inv, VectorsInv
<1>9. PICK E \in Nat : E = Len(envs)
  BY DEF Inv, VectorsInv
<1>10. PICK al \in Int : al = (off \div Align) * Align /\ al <= off
  <2>1. PICK g \in Nat \ {0} : g = Align
    BY StartAssumption
  <2>2. off \div g \in Int /\ g * (off \div g) <= off /\ g * (off \div g) \in Int
    BY <1>6, Quotient
  <2>3. (off \div g) * g = g * (off \div g)
    BY <2>2
  <2>4. QED
    BY <2>1, <2>2, <2>3
<1>11. PICK e \in Int : e = EnvpAt
  <2>1. EnvpAt = al - (E + 1) * d
    BY <1>7, <1>9, <1>10 DEF EnvpAt
  <2>2. QED
    BY <2>1
<1>12. PICK v \in Int : v = ArgvAt
  <2>1. ArgvAt = e - (A + 1) * d
    BY <1>7, <1>8, <1>11 DEF ArgvAt
  <2>2. QED
    BY <2>1
<1>13. PICK c \in Int : c = ArgcAt
  BY <1>2
<1>14. e = al - (E + 1) * d /\ v = e - (A + 1) * d /\ c = v - d /\ c >= 0
  BY <1>2, <1>7, <1>8, <1>9, <1>10, <1>11, <1>12, <1>13 DEF EnvpAt, ArgvAt, ArgcAt
<1>15. PICK mem : mem = memory
  OBVIOUS
<1>16. PICK pa : pa = ptrs.args
  OBVIOUS
<1>17. PICK pe : pe = ptrs.envs
  OBVIOUS
<1>18. PICK lo \in Int : lo = base + off
  BY <1>6
<1>19. PICK as : as = args
  OBVIOUS
<1>20. PICK es : es = envs
  OBVIOUS
<1>21. /\ as \in Seq(Strings) /\ es \in Seq(Strings) /\ A = Len(as) /\ E = Len(es)
       /\ Placed(mem, pa, as, 0, lo, hi) /\ Placed(mem, pe, es, 0, lo, hi)
  BY <1>1, <1>4, <1>5, <1>8, <1>9, <1>15, <1>16, <1>17, <1>18, <1>19, <1>20 DEF ArgInv, Inv, VectorsInv
<1>22. pa \in Seq(Int) /\ Len(pa) = A /\ pe \in Seq(Int) /\ Len(pe) = E
  BY <1>21 DEF Placed
<1>23. PICK ws \in Seq(Int) : InOrder(ws, A, pa, pe)
  <2>1. A \in Int
    OBVIOUS
  <2>2. pa \in Seq(Int) /\ pe \in Seq(Int)
    BY <1>22
  <2>3. QED
    BY <2>1, <2>2, TableWords
<1>24. /\ Len(ws) = A + E + 3 /\ ws[1] = A
       /\ \A i \in 1 .. A : ws[1 + i] = pa[i]
       /\ ws[A + 2] = 0
       /\ \A i \in 1 .. E : ws[A + 2 + i] = pe[i]
       /\ ws[A + E + 3] = 0
  BY <1>22, <1>23 DEF InOrder
<1>25. PICK a \in Int : a = base + c
  OBVIOUS
<1>26. PICK end \in Int : end = a + Len(ws) * WordSize
  BY <1>7, <1>24
<1>27. end = base + al /\ end <= lo /\ end <= hi /\ a >= base /\ lo >= 0 /\ base <= lo
  <2>1. (A + E + 3) * d = (E + 1) * d + (A + 1) * d + d
    OBVIOUS
  <2>2. PICK x, y, z \in Int : x = (E + 1) * d /\ y = (A + 1) * d /\ z = (A + E + 3) * d
    OBVIOUS
  <2>3. z = x + y + d /\ e = al - x /\ v = e - y /\ c = v - d /\ c >= 0 /\ x >= 0 /\ y >= 0 /\ end = a + z
    BY <1>7, <1>14, <1>24, <1>26, <2>1, <2>2
  <2>4. al <= off /\ off \in Int /\ PageSize \in Int /\ off <= PageSize /\ base + PageSize = hi /\ base > 0
    BY <1>6, <1>10
  <2>5. QED
    BY <1>18, <1>25, <2>3, <2>4
<1>28. DOMAIN mem = 0 .. hi - 1 /\ base \in Nat
  BY <1>3, <1>5, <1>6, <1>15
<1>29. a + Len(ws) * WordSize <= hi
  BY <1>26, <1>27
<1>30. PICK new :
         /\ new = Upper(WordsFrom(a, ws), base)
         /\ \A x \in DOMAIN new : x \in Int /\ x < a + Len(ws) * WordSize
         /\ \A k \in 1 .. Len(ws) : Store(mem, new)[a + (k - 1) * WordSize] = Word(ws[k])
  BY <1>27, <1>28, <1>29, WordsStored
<1>31. PICK m2 : m2 = Store(mem, new)
  OBVIOUS
<1>32. memory' = m2
  BY <1>4, <1>8, <1>13, <1>15, <1>16, <1>17, <1>23, <1>25, <1>30, <1>31 DEF BuildTables, StoreWords, Upper, Table, InOrder
<1>33. /\ \A x \in DOMAIN new : x \in Int /\ x < end
       /\ \A k \in 1 .. Len(ws) : m2[a + (k - 1) * WordSize] = Word(ws[k])
  BY <1>26, <1>30, <1>31
<1>34. \A k \in 1 .. A + E + 3 : m2[a + (k - 1) * d] = Word(ws[k])
  BY <1>7, <1>24, <1>33
<1>35. Placed(m2, pa, as, 0, base, hi) /\ Placed(m2, pe, es, 0, base, hi)
  <2>1. \A x \in DOMAIN new : x \in Int /\ x < lo
    BY <1>18, <1>27, <1>33
  <2>2. 0 \in Nat
    OBVIOUS
  <2>3. QED
    BY <1>21, <1>27, <1>28, <1>31, <2>1, <2>2, PlacedStill
<1>36. m2[a] = Word(A)
  <2>1. 1 \in 1 .. A + E + 3 /\ a + (1 - 1) * d = a
    OBVIOUS
  <2>2. QED
    BY <1>24, <1>34, <2>1
<1>37. PICK av \in Int : av = base + v
  OBVIOUS
<1>38. PICK ev \in Int : ev = base + e
  OBVIOUS
<1>39. av = a + d /\ ev = a + (A + 2) * d
  <2>1. (A + 2) * d = (A + 1) * d + d
    OBVIOUS
  <2>2. PICK y, z \in Int : y = (A + 1) * d /\ z = (A + 2) * d
    OBVIOUS
  <2>3. z = y + d /\ v = e - y /\ c = v - d
    BY <1>14, <2>1, <2>2
  <2>4. QED
    BY <1>25, <1>37, <1>38, <2>2, <2>3
<1>40. Points(m2, av, pa)
  <2>1. ASSUME NEW i \in 1 .. A PROVE m2[av + (i - 1) * d] = Word(pa[i])
    <3>1. 1 + i \in 1 .. A + E + 3
      OBVIOUS
    <3>2. ((1 + i) - 1) * d = d + (i - 1) * d
      OBVIOUS
    <3>3. a + ((1 + i) - 1) * d = av + (i - 1) * d
      BY <1>39, <3>2
    <3>4. QED
      BY <1>24, <1>34, <3>1, <3>3
  <2>2. m2[av + A * d] = Word(0)
    <3>1. A + 2 \in 1 .. A + E + 3
      OBVIOUS
    <3>2. ((A + 2) - 1) * d = d + A * d
      OBVIOUS
    <3>3. a + ((A + 2) - 1) * d = av + A * d
      BY <1>39, <3>2
    <3>4. QED
      BY <1>24, <1>34, <3>1, <3>3
  <2>3. QED
    BY <1>7, <1>22, <2>1, <2>2 DEF Points
<1>41. Points(m2, ev, pe)
  <2>1. ASSUME NEW i \in 1 .. E PROVE m2[ev + (i - 1) * d] = Word(pe[i])
    <3>1. A + 2 + i \in 1 .. A + E + 3
      OBVIOUS
    <3>2. ((A + 2 + i) - 1) * d = (A + 2) * d + (i - 1) * d
      OBVIOUS
    <3>3. a + ((A + 2 + i) - 1) * d = ev + (i - 1) * d
      BY <1>39, <3>2
    <3>4. QED
      BY <1>24, <1>34, <3>1, <3>3
  <2>2. m2[ev + E * d] = Word(0)
    <3>1. A + E + 3 \in 1 .. A + E + 3
      OBVIOUS
    <3>2. ((A + E + 3) - 1) * d = (A + 2) * d + E * d
      OBVIOUS
    <3>3. a + ((A + E + 3) - 1) * d = ev + E * d
      BY <1>39, <3>2
    <3>4. QED
      BY <1>24, <1>34, <3>1, <3>3
  <2>3. QED
    BY <1>7, <1>22, <2>1, <2>2 DEF Points
<1>42. /\ regs'.argc = A /\ regs'.rsp = a /\ regs'.argv = av /\ regs'.envp = ev
  BY <1>4, <1>8, <1>11, <1>12, <1>13, <1>25, <1>37, <1>38 DEF BuildTables
<1>43. /\ StackBase' = base /\ (pages * PageSize)' = hi
       /\ ptrs'.args = pa /\ ptrs'.envs = pe /\ args' = as /\ envs' = es
  BY <1>1, <1>4, <1>5, <1>16, <1>17, <1>19, <1>20 DEF StackBase
<1>44. Delivered'
  BY <1>21, <1>32, <1>35, <1>36, <1>40, <1>41, <1>42, <1>43 DEF Delivered
<1>45. /\ args' = StringsOf(call'.argv) /\ envs' = StringsOf(call'.envp)
       /\ ptrs' \in [args : Seq(Int), envs : Seq(Int)]
  BY <1>1 DEF ArgInv, Shaped
<1>46. off' <= PageSize
  <2>1. c <= al
    <3>1. PICK x, y \in Int : x = (E + 1) * d /\ y = (A + 1) * d
      OBVIOUS
    <3>2. x >= 0 /\ y >= 0 /\ e = al - x /\ v = e - y /\ c = v - d
      BY <1>14, <3>1
    <3>3. QED
      BY <3>2
  <2>2. QED
    BY <1>1, <1>6, <1>10, <1>13, <2>1
<1>47. QED
  BY <1>1, <1>44, <1>45, <1>46 DEF ArgInv, Before

\* Nothing changes.
LEMMA ArgStays == ArgInv /\ UNCHANGED vars => ArgInv'
<1> SUFFICES ASSUME ArgInv, UNCHANGED vars PROVE ArgInv'
  OBVIOUS
<1> USE DEF vars
<1>1. Delivered'
  BY DEF ArgInv, Delivered, StackBase
<1>2. QED
  BY <1>1 DEF ArgInv, StackBase

\* A program that follows a pointer finds the string: no byte of it is 0, and
\* the NUL is where it ends.
LEMMA StringFound ==
  ASSUME NEW p, NEW str \in Strings, NEW hi \in Int, hi = pages * PageSize, NEW lo \in Int,
         Lies(memory, p, str, lo, hi)
  PROVE  StringAt(p) = [j \in 1 .. Len(str) |-> Byte(str[j])]
<1>1. PICK n \in Nat : n = Len(str)
  BY DEF Strings
<1>2. p \in Int /\ lo <= p /\ p + n < hi /\ memory[p + n] = Zero
  BY <1>1 DEF Lies
<1>3. \A j \in 1 .. n : memory[p + (j - 1)] = Byte(str[j])
  BY <1>1 DEF Lies
<1>4. ASSUME NEW j \in 0 .. n - 1 PROVE memory[p + j] # Zero
  <2>1. j + 1 \in 1 .. n /\ (j + 1) - 1 = j
    OBVIOUS
  <2>2. memory[p + j] = Byte(str[j + 1])
    BY <1>3, <2>1
  <2>3. str[j + 1] # 0
    BY <1>1, <2>1 DEF Strings
  <2>4. Byte(str[j + 1]) # Byte(0)
    BY <2>3 DEF Byte
  <2>5. QED
    BY <2>2, <2>4 DEF Zero
<1> DEFINE Ends(k) == /\ k < hi - p => memory[p + k] = Zero
                      /\ \A j \in 0 .. k - 1 : memory[p + j] # Zero
<1>5. n \in 0 .. hi - p /\ Ends(n)
  BY <1>2, <1>4
<1>6. ASSUME NEW k \in 0 .. hi - p, Ends(k) PROVE k = n
  <2>1. ~(k < n)
    <3>1. k < n => k \in 0 .. n - 1 /\ k < hi - p
      BY <1>2
    <3>2. QED
      BY <1>4, <1>6, <3>1
  <2>2. ~(n < k)
    <3>1. n < k => n \in 0 .. k - 1
      OBVIOUS
    <3>2. QED
      BY <1>2, <1>6, <3>1
  <2>3. QED
    BY <2>1, <2>2
<1> DEFINE m == CHOOSE k \in 0 .. hi - p : Ends(k)
<1>7. m = n
  <2>1. m \in 0 .. hi - p /\ Ends(m)
    <3> HIDE DEF Ends
    <3>1. QED
      BY <1>5
  <2> HIDE DEF Ends, m
  <2>2. QED
    BY <1>6, <2>1
<1>8. StringAt(p) = [j \in 1 .. m |-> memory[p + j - 1]]
  BY DEF StringAt
<1> HIDE DEF m
<1>9. \A j \in 1 .. n : p + j - 1 = p + (j - 1)
  BY <1>2
<1>10. QED
  BY <1>1, <1>3, <1>7, <1>8, <1>9

\* A table of pointers that lead to the strings holds them, as the program
\* reads it.
LEMMA TableHolds ==
  ASSUME NEW b, NEW ps, NEW strings \in Seq(Strings), pages \in Nat, pages > 1,
         Placed(memory, ps, strings, 0, StackBase, pages * PageSize), Points(memory, b, ps)
  PROVE  Holds(b, strings)
<1>1. StackBase \in Int /\ pages * PageSize \in Int
  BY StackIsLast
<1>2. PICK lo \in Int : lo = StackBase
  BY <1>1
<1>3. PICK hi \in Int : hi = pages * PageSize
  BY <1>1
<1>4. ps \in Seq(Int) /\ Len(ps) = Len(strings) /\ Len(strings) \in Nat
  BY DEF Placed
<1>5. \A i \in 1 .. Len(strings) : Lies(memory, ps[i], strings[i], lo, hi)
  <2> TAKE i \in 1 .. Len(strings)
  <2>1. i \in 1 .. Len(ps) /\ 0 + i = i
    BY <1>4
  <2>2. Lies(memory, ps[i], strings[0 + i], lo, hi)
    BY <1>2, <1>3, <2>1 DEF Placed
  <2>3. QED
    BY <2>1, <2>2
<1>6. ASSUME NEW i \in 1 .. Len(strings)
      PROVE  /\ memory[b + (i - 1) * WordSize] \in {Word(p) : p \in lo .. hi - 1}
             /\ StringAt(memory[b + (i - 1) * WordSize][2]) = [j \in 1 .. Len(strings[i]) |-> Byte(strings[i][j])]
  <2>1. memory[b + (i - 1) * WordSize] = Word(ps[i])
    BY <1>4 DEF Points
  <2>2. strings[i] \in Strings
    OBVIOUS
  <2>3. PICK str \in Strings : str = strings[i]
    BY <2>2
  <2>4. Lies(memory, ps[i], str, lo, hi)
    BY <1>5, <2>3
  <2>5. ps[i] \in lo .. hi - 1
    <3>1. Len(str) \in Nat
      BY DEF Strings
    <3>2. ps[i] \in Int /\ lo <= ps[i] /\ ps[i] + Len(str) < hi
      BY <2>4 DEF Lies
    <3>3. QED
      BY <3>1, <3>2
  <2>6. StringAt(ps[i]) = [j \in 1 .. Len(str) |-> Byte(str[j])]
    BY <1>3, <2>4, StringFound
  <2>7. Word(ps[i])[2] = ps[i]
    BY DEF Word
  <2>8. QED
    BY <2>1, <2>3, <2>5, <2>6, <2>7
<1>7. memory[b + Len(strings) * WordSize] = Word(0)
  BY <1>4 DEF Points
<1>8. QED
  BY <1>2, <1>3, <1>6, <1>7 DEF Holds

\* Every step keeps the invariant about the stack.
LEMMA ArgStep == Inv /\ ImageInv /\ ArgInv /\ [Next]_vars => ArgInv'
<1> SUFFICES ASSUME Inv, ImageInv, ArgInv, [Next]_vars PROVE ArgInv'
  OBVIOUS
<1>1. CASE RefuseVectors \/ RefuseImage \/ RefuseExec \/ ImagePanics \/ SegmentPanics
  <2>1. /\ pc \in Before /\ pc' \in {"refused", "panic"} /\ pc' \in Before /\ UNCHANGED <<off, ptrs>>
    BY <1>1 DEF RefuseVectors, RefuseImage, RefuseExec, ImagePanics, SegmentPanics, Refuse, Stop, Before
  <2>2. QED
    BY <2>1, ArgPasses
<1>2. CASE CopyVectors
  <2>1. /\ pc \in Before /\ pc' \in Before /\ UNCHANGED <<off, ptrs>>
        /\ args' = StringsOf(call.argv) /\ envs' = StringsOf(call.envp) /\ call' = call
    BY <1>2 DEF CopyVectors, Before
  <2>2. QED
    BY <2>1, ArgPasses
<1>3. CASE LoadImage
  <2>1. /\ pc \in Before /\ pc' \in Before /\ UNCHANGED <<off, ptrs, call, args, envs>> /\ pc = "image"
        /\ (pc' = "create" <=> call.caller = "user") /\ pc' \in {"create", "vectors"}
    BY <1>3 DEF LoadImage, Before
  <2>2. QED
    BY <2>1, ArgPasses
<1>4. CASE PreparePages \/ LoadSegment
  <2>1. /\ pc \in Before /\ pc' \in Before /\ UNCHANGED <<off, ptrs, call, args, envs>>
        /\ pc \in {"create", "segments"}
    <3>1. CASE PreparePages
      BY <3>1 DEF PreparePages, Stop, Before
    <3>2. CASE LoadSegment
      BY <3>2 DEF LoadSegment, Before
    <3>3. QED
      BY <1>4, <3>1, <3>2
  <2>2. QED
    BY <2>1, ArgPasses
<1>5. CASE SegmentsLoaded \/ EnvsPushed \/ BuildTables
  BY <1>5, ArgStarts, ArgTurns, ArgTables
<1>6. CASE PushEnv \/ PushArg
  BY <1>6, ArgPushed
<1>7. CASE Over \/ UNCHANGED vars
  BY <1>7, ArgStays DEF Over
<1>8. QED
  BY <1>1, <1>2, <1>3, <1>4, <1>5, <1>6, <1>7 DEF Next

\* Every pointer that a program starts with leads to the string its caller
\* passed, and both tables end in NULL, although the strings are pushed last
\* first and the tables stored without a check against the page.
THEOREM ArgumentsAlwaysArrive == Spec => []ArgumentsArrive
<1>1. Inv /\ ImageInv /\ ArgInv => ArgumentsArrive
  <2> SUFFICES ASSUME Inv, ImageInv, ArgInv, pc = "ready" PROVE ArgumentsArrive
    BY DEF ArgumentsArrive
  <2>1. /\ args = StringsOf(call.argv) /\ envs = StringsOf(call.envp) /\ Delivered
        /\ pages \in Nat /\ pages > 1
    BY DEF ArgInv, ImageInv, Shaped
  <2>2. args \in Seq(Strings) /\ envs \in Seq(Strings)
    BY DEF Inv, VectorsInv
  <2>3. /\ Placed(memory, ptrs.args, args, 0, StackBase, pages * PageSize)
        /\ Placed(memory, ptrs.envs, envs, 0, StackBase, pages * PageSize)
        /\ regs.argc = Len(args) /\ memory[regs.rsp] = Word(Len(args))
        /\ Points(memory, regs.argv, ptrs.args) /\ Points(memory, regs.envp, ptrs.envs)
    BY <2>1 DEF Delivered
  <2>4. Holds(regs.argv, args) /\ Holds(regs.envp, envs)
    BY <2>1, <2>2, <2>3, TableHolds
  <2>5. QED
    BY <2>1, <2>3, <2>4 DEF ArgumentsArrive
<1>2. QED
  BY InitInv, NextInv, ImageInit, ImageStep, ArgInit, ArgStep, <1>1, PTL DEF Spec
=============================================================================
