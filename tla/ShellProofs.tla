---------------------------- MODULE ShellProofs ----------------------------
(***************************************************************************)
(* Theorems about Shell.tla: what a command leaves behind, and what the    *)
(* current directory means, for every archive, every line typed and every  *)
(* number of process slots.                                                *)
(*                                                                         *)
(* The second rests on a fact about vfs_normalize_path alone: whenever its *)
(* result has no doubled or trailing slash, it is what the components of   *)
(* the path mean (CleanIsCanonical).                                       *)
(***************************************************************************)
EXTENDS Shell, SequenceTheorems, WellFoundedInduction, TLAPS

-----------------------------------------------------------------------------
(***************************************************************************)
(* Loops over the components of a path.                                    *)
(***************************************************************************)

\* A non-empty set of numbers has a least one.
LEMMA LeastNatural ==
  ASSUME NEW S \in SUBSET Nat, S # {}
  PROVE  \E m \in S : \A n \in S : m <= n
<1> DEFINE L == {p \in Nat \X Nat : p[1] < p[2]}
<1>1. IsWellFoundedOn(L, Nat)
  BY NatLessThanWellFounded DEF OpToRel
<1>2. \E m \in S : \A n \in S : <<n, m>> \notin L
  <2> HIDE DEF L
  <2>1. QED
    BY <1>1, WFMin
<1>3. \A m, n \in Nat : n < m => <<n, m>> \in L
  OBVIOUS
<1>4. PICK m \in S : \A n \in S : <<n, m>> \notin L
  BY <1>2
<1>5. \A n \in S : n \in Nat /\ m \in Nat /\ ~(n < m)
  BY <1>3, <1>4
<1>6. QED
  BY <1>4, <1>5

\* The values f of a loop over p that starts with s0 and has the step F.
Turns(f, F, s0, p) == f[0] = s0 /\ \A k \in 1 .. Len(p) : f[k] = F[<<f[k - 1], p[k]>>]

\* Such a loop has a value after every turn.
LEMMA LoopValues ==
  ASSUME NEW S, NEW T, NEW s0 \in S, NEW F \in [S \X T -> S], NEW p \in Seq(T)
  PROVE  \E f \in [0 .. Len(p) -> S] : Turns(f, F, s0, p)
<1> DEFINE Good(m) == \E f \in [0 .. m -> S] :
                        f[0] = s0 /\ \A k \in 1 .. m : f[k] = F[<<f[k - 1], p[k]>>]
           Bad == {m \in 0 .. Len(p) : ~Good(m)}
<1>1. SUFFICES ASSUME Bad # {} PROVE FALSE
  <2>1. Len(p) \in 0 .. Len(p)
    OBVIOUS
  <2> QED
    BY <1>1, <2>1 DEF Turns
<1>2. PICK m \in Bad : \A n \in Bad : m <= n
  <2>1. Bad \in SUBSET Nat
    OBVIOUS
  <2> HIDE DEF Bad
  <2> QED
    BY <1>1, <2>1, LeastNatural
<1>3. m \in 0 .. Len(p) /\ ~Good(m)
  BY <1>2
<1>4. CASE m = 0
  <2> DEFINE g == [k \in 0 .. 0 |-> s0]
  <2>1. g \in [0 .. 0 -> S] /\ g[0] = s0
    OBVIOUS
  <2>2. \A k \in 1 .. 0 : g[k] = F[<<g[k - 1], p[k]>>]
    OBVIOUS
  <2> HIDE DEF g
  <2>3. Good(0)
    BY <2>1, <2>2
  <2> QED
    BY <1>3, <1>4, <2>3
<1>5. CASE m # 0
  <2>1. m - 1 \in 0 .. Len(p) /\ ~(m <= m - 1) /\ m \in Nat /\ m \in 1 .. Len(p)
    BY <1>3, <1>5
  <2>2. Good(m - 1)
    BY <1>2, <2>1
  <2>3. PICK g \in [0 .. m - 1 -> S] :
          g[0] = s0 /\ \A k \in 1 .. m - 1 : g[k] = F[<<g[k - 1], p[k]>>]
    BY <2>2
  <2>4. PICK v \in S : v = F[<<g[m - 1], p[m]>>]
    <3>1. g[m - 1] \in S /\ p[m] \in T
      BY <2>1, <2>3
    <3> QED
      BY <3>1
  <2> DEFINE h == [k \in 0 .. m |-> IF k = m THEN v ELSE g[k]]
  <2>5. h \in [0 .. m -> S]
    BY <2>1, <2>3
  <2>6. h[0] = s0
    BY <1>5, <2>1, <2>3
  <2>7. ASSUME NEW k \in 1 .. m PROVE h[k] = F[<<h[k - 1], p[k]>>]
    <3>1. CASE k = m
      <4>1. h[k - 1] = g[m - 1] /\ h[k] = v
        BY <2>1, <3>1
      <4> QED
        BY <2>4, <3>1, <4>1
    <3>2. CASE k # m
      <4>1. k \in 1 .. m - 1 /\ k - 1 \in 0 .. m /\ k - 1 # m
        BY <2>1, <3>2
      <4>2. h[k] = g[k] /\ h[k - 1] = g[k - 1]
        BY <3>2, <4>1
      <4> QED
        BY <2>3, <4>1, <4>2
    <3> QED
      BY <3>1, <3>2
  <2> HIDE DEF h
  <2>8. Good(m)
    BY <2>5, <2>6, <2>7
  <2> QED
    BY <1>3, <2>8
<1> QED
  BY <1>4, <1>5

\* A path has no component, one, or more.
LEMMA LengthIs ==
  ASSUME NEW q \in Seq(Components)
  PROVE  Len(q) \in Nat /\ (Len(q) = 0 \/ Len(q) = 1 \/ Len(q) > 1)
<1>1. PICK n \in Nat : n = Len(q)
  OBVIOUS
<1>2. n = 0 \/ n = 1 \/ n > 1
  OBVIOUS
<1> QED
  BY <1>1, <1>2

\* A path without its last component, which is what ".." is to leave.
LEMMA FrontIs ==
  ASSUME NEW q \in Seq(Components), q # << >>
  PROVE  /\ Front(q) \in Seq(Components) /\ Len(Front(q)) = Len(q) - 1
         /\ \A k \in 1 .. Len(q) - 1 : Front(q)[k] = q[k]
<1>1. PICK n \in Int : n = Len(q) - 1
  OBVIOUS
<1>2. n >= 0 /\ \A i \in 1 .. n : q[i] \in Components
  BY <1>1
<1>3. /\ SubSeq(q, 1, n) \in Seq(Components)
      /\ Len(SubSeq(q, 1, n)) = IF 1 <= n THEN n - 1 + 1 ELSE 0
      /\ \A i \in 1 .. n - 1 + 1 : SubSeq(q, 1, n)[i] = q[1 + i - 1]
  BY <1>2, SubSeqProperties
<1>4. \A i \in 1 .. n : i \in 1 .. n - 1 + 1 /\ 1 + i - 1 = i
  OBVIOUS
<1>5. Front(q) = SubSeq(q, 1, n)
  BY <1>1 DEF Front
<1> QED
  BY <1>1, <1>2, <1>3, <1>4, <1>5

\* A path with one more component.
LEMMA AppendIs ==
  ASSUME NEW q \in Seq(Components), NEW c \in Components
  PROVE  /\ Append(q, c) \in Seq(Components) /\ Len(Append(q, c)) = Len(q) + 1
         /\ \A k \in 1 .. Len(q) : Append(q, c)[k] = q[k]
         /\ Append(q, c)[Len(q) + 1] = c
OBVIOUS

\* The root, "/", is the path without components.
LEMMA EmptyIs ==
  /\ << >> \in Seq(Components) /\ Len(<< >>) = 0
  /\ \A q \in Seq(Components) : Len(q) = 0 <=> q = << >>
OBVIOUS

\* The empty component, kept apart from the arithmetic on lengths.
Void(x) == x = ""

\* A path is clean when no component is empty: no doubled, no trailing slash.
LEMMA CleanIs ==
  ASSUME NEW q
  PROVE  Clean(q) <=> \A k \in 1 .. Len(q) : ~Void(q[k])
BY DEF Clean, Void

\* The root is clean.
LEMMA EmptyIsClean == Clean(<< >>)
<1>1. 1 .. Len(<< >>) = {}
  OBVIOUS
<1> QED
  BY <1>1 DEF Clean

\* A path that ends in a slash is not clean.
LEMMA LastVoid ==
  ASSUME NEW q \in Seq(Components), Len(q) # 0, Void(q[Len(q)])
  PROVE  ~Clean(q)
<1>1. Len(q) \in 1 .. Len(q)
  OBVIOUS
<1> QED
  BY <1>1, CleanIs

\* Cutting back to the last slash: behind a slash nothing happens, a single
\* component goes, and otherwise the slash before the last component stays.
LEMMA BackToSlashIs ==
  ASSUME NEW q \in Seq(Components)
  PROVE  /\ BackToSlash(q) \in Seq(Components)
         /\ Len(q) = 0 => Len(BackToSlash(q)) = 0
         /\ Len(q) # 0 /\ Void(q[Len(q)]) => BackToSlash(q) = q
         /\ Len(q) = 1 /\ ~Void(q[Len(q)]) => Len(BackToSlash(q)) = 0
         /\ Len(q) > 1 /\ ~Void(q[Len(q)]) =>
              ~Clean(BackToSlash(q)) /\ Len(BackToSlash(q)) = Len(q)
<1>1. CASE Len(q) = 0
  <2>1. q = << >>
    BY <1>1, EmptyIs
  <2>2. BackToSlash(q) = q
    BY <2>1 DEF BackToSlash
  <2> QED
    BY <1>1, <2>2
<1>2. CASE Len(q) # 0 /\ Void(q[Len(q)])
  <2>1. BackToSlash(q) = q
    BY <1>2 DEF BackToSlash, Void
  <2> QED
    BY <1>2, <2>1
<1>3. CASE Len(q) = 1 /\ ~Void(q[Len(q)])
  <2>1. q # << >>
    BY <1>3, EmptyIs
  <2>2. BackToSlash(q) = << >>
    BY <1>3, <2>1 DEF BackToSlash, Void
  <2> QED
    BY <1>3, <2>2, EmptyIs
<1>4. CASE Len(q) > 1 /\ ~Void(q[Len(q)])
  <2>1. q # << >> /\ Len(q) # 1 /\ Len(q) # 0
    BY <1>4, EmptyIs
  <2>2. PICK r \in Seq(Components) : r = Front(q) /\ Len(r) = Len(q) - 1
    BY <2>1, FrontIs
  <2>3. PICK e \in Components : e = ""
    BY NamesAssumption
  <2>4. Void(e)
    BY <2>3 DEF Void
  <2>5. BackToSlash(q) = Append(r, e)
    BY <1>4, <2>1, <2>2, <2>3 DEF BackToSlash, Void
  <2>6. PICK s \in Seq(Components) : s = Append(r, e) /\ Len(s) = Len(r) + 1 /\ s[Len(r) + 1] = e
    BY AppendIs
  <2>7. Len(s) = Len(q) /\ Len(s) # 0 /\ Void(s[Len(s)])
    BY <2>1, <2>2, <2>4, <2>6
  <2>8. ~Clean(s)
    BY <2>7, LastVoid
  <2> QED
    BY <1>4, <2>5, <2>6, <2>7, <2>8
<1>5. Len(q) = 0 \/ Len(q) = 1 \/ Len(q) > 1
  BY LengthIs
<1>6. Len(q) \in Nat
  BY LengthIs
<1> QED
  BY <1>1, <1>2, <1>3, <1>4, <1>5, <1>6

\* What the step for ".." leaves: nothing, or a path that is not clean and
\* shorter only if it was not clean before.
LEMMA DotDotIs ==
  ASSUME NEW q \in Seq(Components)
  PROVE  /\ DotDot(q) \in Seq(Components)
         /\ \/ Len(DotDot(q)) = 0 /\ Len(q) <= 1
            \/ Len(DotDot(q)) = 0 /\ Len(q) = 2 /\ ~Clean(q)
            \/ ~Clean(DotDot(q)) /\ Len(DotDot(q)) = Len(q)
            \/ ~Clean(DotDot(q)) /\ ~Clean(q) /\ Len(DotDot(q)) = Len(q) - 1
<1>1. CASE Len(q) = 0
  <2>1. DotDot(q) = q
    BY <1>1, EmptyIs DEF DotDot
  <2> QED
    BY <1>1, <2>1
<1>2. CASE Len(q) # 0 /\ ~Void(q[Len(q)])
  <2>1. DotDot(q) = BackToSlash(q)
    <3>1. q # << >>
      BY <1>2, EmptyIs
    <3> QED
      BY <1>2, <3>1 DEF DotDot, Void
  <2>2. Len(q) = 1 \/ Len(q) > 1
    BY <1>2
  <2> QED
    BY <1>2, <2>1, <2>2, BackToSlashIs
<1>3. CASE Len(q) # 0 /\ Void(q[Len(q)])
  <2>1. q # << >>
    BY <1>3, EmptyIs
  <2>2. PICK r \in Seq(Components) : r = Front(q) /\ Len(r) = Len(q) - 1
    BY <2>1, FrontIs
  <2>3. DotDot(q) = BackToSlash(r)
    BY <1>3, <2>1, <2>2 DEF DotDot, Void
  <2>4. ~Clean(q)
    BY <1>3, LastVoid
  <2>5. PICK d \in Seq(Components) : d = BackToSlash(r)
    BY BackToSlashIs
  <2>6. CASE Len(r) = 0
    <3>1. Len(d) = 0 /\ Len(q) <= 1
      <4>1. \A n \in Nat : n - 1 = 0 => n <= 1
        OBVIOUS
      <4>2. Len(q) <= 1
        BY <2>2, <2>6, <4>1, LengthIs
      <4> QED
        BY <2>5, <2>6, <4>2, BackToSlashIs
    <3> QED
      BY <2>3, <2>5, <3>1
  <2>7. CASE Len(r) # 0 /\ Void(r[Len(r)])
    <3>1. d = r /\ ~Clean(r)
      BY <2>5, <2>7, BackToSlashIs, LastVoid
    <3> QED
      BY <2>2, <2>3, <2>4, <2>5, <3>1
  <2>8. CASE Len(r) = 1 /\ ~Void(r[Len(r)])
    <3>1. Len(d) = 0 /\ Len(q) = 2
      <4>1. \A n \in Nat : n - 1 = 1 => n = 2
        OBVIOUS
      <4>2. Len(q) = 2
        BY <2>2, <2>8, <4>1, LengthIs
      <4> QED
        BY <2>5, <2>8, <4>2, BackToSlashIs
    <3> QED
      BY <2>3, <2>4, <2>5, <3>1
  <2>9. CASE Len(r) > 1 /\ ~Void(r[Len(r)])
    <3>1. ~Clean(d) /\ Len(d) = Len(q) - 1
      BY <2>2, <2>5, <2>9, BackToSlashIs
    <3> QED
      BY <2>3, <2>4, <2>5, <3>1
  <2>10. Len(r) = 0 \/ Len(r) = 1 \/ Len(r) > 1
    BY LengthIs
  <2> QED
    BY <2>6, <2>7, <2>8, <2>9, <2>10
<1> QED
  BY <1>1, <1>2, <1>3

\* How the output q of vfs_normalize_path and the meaning c of the components
\* so far are related: they agree while q is clean, and otherwise q is longer,
\* by the slashes that ".." left behind.
Related(q, c) ==
  /\ Clean(q) => c = q
  /\ ~Clean(q) => Len(c) < Len(q)

\* The step for ".." keeps them related.
LEMMA DotDotRelated ==
  ASSUME NEW q \in Seq(Components), NEW c \in Seq(Components), Related(q, c),
         NEW d \in Seq(Components), Len(d) = IF Len(c) = 0 THEN 0 ELSE Len(c) - 1
  PROVE  Related(DotDot(q), d)
<1>1. PICK r \in Seq(Components) : r = DotDot(q)
  BY DotDotIs
<1>2. \/ Len(r) = 0 /\ Len(q) <= 1
      \/ Len(r) = 0 /\ Len(q) = 2 /\ ~Clean(q)
      \/ ~Clean(r) /\ Len(r) = Len(q)
      \/ ~Clean(r) /\ ~Clean(q) /\ Len(r) = Len(q) - 1
  BY <1>1, DotDotIs
<1>3. Len(c) <= Len(q) /\ (~Clean(q) => Len(c) <= Len(q) - 1)
  BY DEF Related
<1>4. Len(r) = 0 => Clean(r)
  BY EmptyIs, EmptyIsClean
<1>5. CASE Clean(r)
  <2>1. Len(r) = 0 /\ Len(d) = 0
    <3>1. Len(r) \in Nat /\ Len(q) \in Nat /\ Len(c) \in Nat
      BY LengthIs
    <3>2. Len(r) = 0 /\ Len(c) <= 1
      BY <1>2, <1>3, <1>5, <3>1
    <3>3. Len(c) = 0 \/ Len(c) = 1
      BY <3>1, <3>2, LengthIs
    <3> QED
      BY <3>2, <3>3
  <2>2. d = r
    BY <2>1, EmptyIs
  <2> QED
    BY <1>1, <1>5, <2>2 DEF Related
<1>6. CASE ~Clean(r)
  <2>1. Len(d) < Len(r)
    BY <1>2, <1>3, <1>4, <1>6
  <2> QED
    BY <1>1, <1>6, <2>1 DEF Related
<1> QED
  BY <1>5, <1>6

\* One component keeps them related.
LEMMA StepRelated ==
  ASSUME NEW q \in Seq(Components), NEW c \in Seq(Components), NEW x \in Components, Related(q, c)
  PROVE  /\ NormalizeStep(q, x) \in Seq(Components) /\ CanonicalStep(c, x) \in Seq(Components)
         /\ Related(NormalizeStep(q, x), CanonicalStep(c, x))
<1>1. CASE x \in {"", "."}
  BY <1>1 DEF NormalizeStep, CanonicalStep
<1>2. CASE x = ".."
  <2>1. NormalizeStep(q, x) = DotDot(q) /\ CanonicalStep(c, x) = IF c = << >> THEN c ELSE Front(c)
    BY <1>2 DEF NormalizeStep, CanonicalStep
  <2>2. PICK d \in Seq(Components) : d = IF c = << >> THEN c ELSE Front(c)
    BY FrontIs
  <2>3. Len(d) = IF Len(c) = 0 THEN 0 ELSE Len(c) - 1
    BY <2>2, FrontIs, EmptyIs
  <2> QED
    BY <2>1, <2>2, <2>3, DotDotIs, DotDotRelated
<1>3. CASE x \notin {"", ".", ".."}
  <2>1. PICK r \in Seq(Components), d \in Seq(Components) : r = Append(q, x) /\ d = Append(c, x)
    BY AppendIs
  <2>2. NormalizeStep(q, x) = r /\ CanonicalStep(c, x) = d
    BY <1>3, <2>1 DEF NormalizeStep, CanonicalStep
  <2>3. Len(r) = Len(q) + 1 /\ Len(d) = Len(c) + 1 /\ \A k \in 1 .. Len(q) : r[k] = q[k]
    BY <2>1, AppendIs
  <2>4. Clean(r) => Clean(q)
    <3>1. \A k \in 1 .. Len(q) : k \in 1 .. Len(r)
      BY <2>3
    <3> QED
      BY <2>3, <3>1, CleanIs
  <2>5. Clean(q) => Clean(r)
    <3>1. r[Len(q) + 1] = x
      BY <2>1, AppendIs
    <3>2. \A k \in 1 .. Len(r) : k \in 1 .. Len(q) \/ k = Len(q) + 1
      BY <2>3
    <3>3. ~Void(x)
      BY <1>3 DEF Void
    <3> QED
      BY <2>3, <3>1, <3>2, <3>3, CleanIs
  <2>6. Related(r, d)
    <3>1. Clean(q) => d = r
      BY <2>1 DEF Related
    <3>2. ~Clean(q) => Len(d) < Len(r)
      BY <2>3 DEF Related
    <3> QED
      BY <2>4, <2>5, <3>1, <3>2 DEF Related
  <2> QED
    BY <2>2, <2>6
<1> QED
  BY <1>1, <1>2, <1>3

\* Both steps make paths of paths.
LEMMA StepTypes ==
  ASSUME NEW q \in Seq(Components), NEW x \in Components
  PROVE  NormalizeStep(q, x) \in Seq(Components) /\ CanonicalStep(q, x) \in Seq(Components)
<1>1. DotDot(q) \in Seq(Components) /\ Append(q, x) \in Seq(Components)
  BY DotDotIs, AppendIs
<1>2. q # << >> => Front(q) \in Seq(Components)
  BY FrontIs
<1> QED
  BY <1>1, <1>2 DEF NormalizeStep, CanonicalStep

\* vfs_normalize_path turn by turn.
LEMMA NormalizeRuns ==
  ASSUME NEW p \in Seq(Components)
  PROVE  \E f \in [0 .. Len(p) -> Seq(Components)] :
           /\ f[0] = << >> /\ \A k \in 1 .. Len(p) : f[k] = NormalizeStep(f[k - 1], p[k])
           /\ Normalize(p) = f[Len(p)]
<1> DEFINE S == Seq(Components)
           F == [z \in S \X Components |-> NormalizeStep(z[1], z[2])]
           Fits(g) == g = [k \in 0 .. Len(p) |->
                             IF k = 0 THEN << >> ELSE NormalizeStep(g[k - 1], p[k])]
<1>1. F \in [S \X Components -> S] /\ << >> \in S
  BY StepTypes, EmptyIs
<1>2. \A q \in S, x \in Components : F[<<q, x>>] = NormalizeStep(q, x)
  OBVIOUS
<1>3. PICK f \in [0 .. Len(p) -> S] :
        f[0] = << >> /\ \A k \in 1 .. Len(p) : f[k] = F[<<f[k - 1], p[k]>>]
  <2> HIDE DEF F, S
  <2>1. \E f \in [0 .. Len(p) -> S] : Turns(f, F, << >>, p)
    BY <1>1, LoopValues
  <2> QED
    BY <2>1 DEF Turns
<1>4. \A k \in 1 .. Len(p) : f[k - 1] \in S /\ p[k] \in Components
  OBVIOUS
<1>5. \A k \in 1 .. Len(p) : f[k] = NormalizeStep(f[k - 1], p[k])
  <2> HIDE DEF F, S
  <2> QED
    BY <1>2, <1>3, <1>4
<1>6. Fits(f)
  <2>1. f = [k \in 0 .. Len(p) |-> f[k]]
    OBVIOUS
  <2>2. \A k \in 0 .. Len(p) : f[k] = IF k = 0 THEN << >> ELSE NormalizeStep(f[k - 1], p[k])
    BY <1>3, <1>5
  <2> QED
    BY <2>1, <2>2
<1> DEFINE h == CHOOSE g : Fits(g)
<1>7. Normalize(p) = h[Len(p)]
  BY DEF Normalize
<1>8. Fits(h)
  BY <1>6
<1> HIDE DEF h
<1>9. h[0] = << >> /\ \A k \in 1 .. Len(p) : h[k] = NormalizeStep(h[k - 1], p[k])
  BY <1>8
<1>10. \A k \in 0 .. Len(p) : h[k] = f[k]
  <2> DEFINE Bad == {k \in 0 .. Len(p) : h[k] # f[k]}
  <2>1. SUFFICES ASSUME Bad # {} PROVE FALSE
    OBVIOUS
  <2>2. PICK m \in Bad : \A n \in Bad : m <= n
    <3>1. Bad \in SUBSET Nat
      OBVIOUS
    <3> HIDE DEF Bad
    <3> QED
      BY <2>1, <3>1, LeastNatural
  <2>3. m \in 0 .. Len(p) /\ h[m] # f[m]
    BY <2>2
  <2>4. m # 0
    BY <1>3, <1>9, <2>3
  <2>5. m \in 1 .. Len(p) /\ m - 1 \in 0 .. Len(p) /\ ~(m <= m - 1)
    BY <2>3, <2>4
  <2>6. h[m - 1] = f[m - 1]
    BY <2>2, <2>5
  <2> QED
    BY <1>5, <1>9, <2>3, <2>5, <2>6
<1>11. Normalize(p) = f[Len(p)]
  BY <1>7, <1>10
<1> QED
  BY <1>3, <1>5, <1>11

\* The meaning of the components, one after the other.
LEMMA CanonicalRuns ==
  ASSUME NEW p \in Seq(Components)
  PROVE  \E f \in [0 .. Len(p) -> Seq(Components)] :
           /\ f[0] = << >> /\ \A k \in 1 .. Len(p) : f[k] = CanonicalStep(f[k - 1], p[k])
           /\ Canonical(p) = f[Len(p)]
<1> DEFINE S == Seq(Components)
           F == [z \in S \X Components |-> CanonicalStep(z[1], z[2])]
           Fits(g) == g = [k \in 0 .. Len(p) |->
                             IF k = 0 THEN << >> ELSE CanonicalStep(g[k - 1], p[k])]
<1>1. F \in [S \X Components -> S] /\ << >> \in S
  BY StepTypes, EmptyIs
<1>2. \A q \in S, x \in Components : F[<<q, x>>] = CanonicalStep(q, x)
  OBVIOUS
<1>3. PICK f \in [0 .. Len(p) -> S] :
        f[0] = << >> /\ \A k \in 1 .. Len(p) : f[k] = F[<<f[k - 1], p[k]>>]
  <2> HIDE DEF F, S
  <2>1. \E f \in [0 .. Len(p) -> S] : Turns(f, F, << >>, p)
    BY <1>1, LoopValues
  <2> QED
    BY <2>1 DEF Turns
<1>4. \A k \in 1 .. Len(p) : f[k - 1] \in S /\ p[k] \in Components
  OBVIOUS
<1>5. \A k \in 1 .. Len(p) : f[k] = CanonicalStep(f[k - 1], p[k])
  <2> HIDE DEF F, S
  <2> QED
    BY <1>2, <1>3, <1>4
<1>6. Fits(f)
  <2>1. f = [k \in 0 .. Len(p) |-> f[k]]
    OBVIOUS
  <2>2. \A k \in 0 .. Len(p) : f[k] = IF k = 0 THEN << >> ELSE CanonicalStep(f[k - 1], p[k])
    BY <1>3, <1>5
  <2> QED
    BY <2>1, <2>2
<1> DEFINE h == CHOOSE g : Fits(g)
<1>7. Canonical(p) = h[Len(p)]
  BY DEF Canonical
<1>8. Fits(h)
  BY <1>6
<1> HIDE DEF h
<1>9. h[0] = << >> /\ \A k \in 1 .. Len(p) : h[k] = CanonicalStep(h[k - 1], p[k])
  BY <1>8
<1>10. \A k \in 0 .. Len(p) : h[k] = f[k]
  <2> DEFINE Bad == {k \in 0 .. Len(p) : h[k] # f[k]}
  <2>1. SUFFICES ASSUME Bad # {} PROVE FALSE
    OBVIOUS
  <2>2. PICK m \in Bad : \A n \in Bad : m <= n
    <3>1. Bad \in SUBSET Nat
      OBVIOUS
    <3> HIDE DEF Bad
    <3> QED
      BY <2>1, <3>1, LeastNatural
  <2>3. m \in 0 .. Len(p) /\ h[m] # f[m]
    BY <2>2
  <2>4. m # 0
    BY <1>3, <1>9, <2>3
  <2>5. m \in 1 .. Len(p) /\ m - 1 \in 0 .. Len(p) /\ ~(m <= m - 1)
    BY <2>3, <2>4
  <2>6. h[m - 1] = f[m - 1]
    BY <2>2, <2>5
  <2> QED
    BY <1>5, <1>9, <2>3, <2>5, <2>6
<1>11. Canonical(p) = f[Len(p)]
  BY <1>7, <1>10
<1> QED
  BY <1>3, <1>5, <1>11

\* Whenever vfs_normalize_path leaves a path without doubled or trailing
\* slashes, it is what the components mean.
LEMMA CleanIsCanonical ==
  ASSUME NEW p \in Seq(Components)
  PROVE  /\ Normalize(p) \in Seq(Components)
         /\ Clean(Normalize(p)) => Normalize(p) = Canonical(p)
<1>1. PICK f \in [0 .. Len(p) -> Seq(Components)] :
           /\ f[0] = << >> /\ \A k \in 1 .. Len(p) : f[k] = NormalizeStep(f[k - 1], p[k])
           /\ Normalize(p) = f[Len(p)]
  BY NormalizeRuns
<1>2. PICK g \in [0 .. Len(p) -> Seq(Components)] :
           /\ g[0] = << >> /\ \A k \in 1 .. Len(p) : g[k] = CanonicalStep(g[k - 1], p[k])
           /\ Canonical(p) = g[Len(p)]
  BY CanonicalRuns
<1>3. \A k \in 0 .. Len(p) : Related(f[k], g[k])
  <2> DEFINE Bad == {k \in 0 .. Len(p) : ~Related(f[k], g[k])}
  <2>1. SUFFICES ASSUME Bad # {} PROVE FALSE
    OBVIOUS
  <2>2. PICK m \in Bad : \A n \in Bad : m <= n
    <3>1. Bad \in SUBSET Nat
      OBVIOUS
    <3> HIDE DEF Bad
    <3> QED
      BY <2>1, <3>1, LeastNatural
  <2>3. m \in 0 .. Len(p) /\ ~Related(f[m], g[m])
    BY <2>2
  <2>4. m # 0
    BY <1>1, <1>2, <2>3, EmptyIsClean DEF Related
  <2>5. m \in 1 .. Len(p) /\ m - 1 \in 0 .. Len(p) /\ ~(m <= m - 1)
    BY <2>3, <2>4
  <2>6. Related(f[m - 1], g[m - 1])
    BY <2>2, <2>5
  <2>7. f[m - 1] \in Seq(Components) /\ g[m - 1] \in Seq(Components) /\ p[m] \in Components
    BY <1>1, <1>2, <2>5
  <2>8. Related(NormalizeStep(f[m - 1], p[m]), CanonicalStep(g[m - 1], p[m]))
    BY <2>6, <2>7, StepRelated
  <2> QED
    BY <1>1, <1>2, <2>3, <2>5, <2>8
<1>4. Len(p) \in 0 .. Len(p)
  OBVIOUS
<1>5. Related(Normalize(p), Canonical(p))
  BY <1>1, <1>2, <1>3, <1>4
<1>6. Normalize(p) \in Seq(Components)
  BY <1>1, <1>4
<1> QED
  BY <1>5, <1>6 DEF Related

-----------------------------------------------------------------------------
(***************************************************************************)
(* The current directory. Only a path that is a directory becomes the      *)
(* current one, and directories have clean names: they have a node, or a   *)
(* file of the archive or one created directly in a directory with a node  *)
(* lies below them.                                                        *)
(***************************************************************************)
FilesInv ==
  /\ files \subseteq Seq(Components)
  /\ \A f \in files : f # << >> => Clean(Front(f))

CwdInv ==
  /\ FilesInv
  /\ cwd \in Seq(Components)
  /\ cmd \in [verb : Verbs \cup {"none"}, path : Seq(Components)]
  /\ IsDirectory(Normalize(cwd))

\* A directory has a clean name.
LEMMA DirectoryClean ==
  ASSUME FilesInv, NEW q \in Seq(Components), IsDirectory(q)
  PROVE  Clean(q)
<1>1. CASE q = << >>
  BY <1>1, EmptyIsClean
<1>2. CASE q \in DirNodes
  BY <1>2, NamesAssumption
<1>3. CASE \E f \in files : Len(f) > Len(q) /\ SubSeq(f, 1, Len(q)) = q
  <2>1. PICK f \in files : Len(f) > Len(q) /\ SubSeq(f, 1, Len(q)) = q
    BY <1>3
  <2>2. f \in Seq(Components)
    BY DEF FilesInv
  <2>3. Len(f) \in Nat /\ Len(q) \in Nat /\ f # << >>
    BY <2>1, <2>2, LengthIs, EmptyIs
  <2>4. Clean(Front(f))
    BY <2>3 DEF FilesInv
  <2>5. /\ Len(Front(f)) = Len(f) - 1
        /\ \A k \in 1 .. Len(f) - 1 : Front(f)[k] = f[k]
    BY <2>2, <2>3, FrontIs
  <2>6. \A k \in 1 .. Len(q) : q[k] = f[k]
    <3>1. PICK n \in Nat : n = Len(q) /\ n < Len(f)
      BY <2>1, <2>3
    <3>2. \A i \in 1 .. n : f[i] \in Components
      BY <2>2, <3>1
    <3>3. \A i \in 1 .. n - 1 + 1 : SubSeq(f, 1, n)[i] = f[1 + i - 1]
      BY <3>2, SubSeqProperties
    <3>4. \A i \in 1 .. n : i \in 1 .. n - 1 + 1 /\ 1 + i - 1 = i
      OBVIOUS
    <3> QED
      BY <2>1, <3>1, <3>3, <3>4
  <2>7. \A k \in 1 .. Len(q) : k \in 1 .. Len(f) - 1
    BY <2>1, <2>3
  <2>8. \A k \in 1 .. Len(q) : ~Void(q[k])
    BY <2>4, <2>5, <2>6, <2>7, CleanIs
  <2> QED
    BY <2>8, CleanIs
<1> QED
  BY <1>1, <1>2, <1>3 DEF IsDirectory

\* No directory goes away: files are created and never removed.
LEMMA DirectoryStays ==
  ASSUME NEW q, IsDirectory(q), files \subseteq files'
  PROVE  IsDirectory(q)'
BY DEF IsDirectory

\* A file is created directly in a directory that has a node.
LEMMA FilesGrow ==
  ASSUME FilesInv, NEW q \in Seq(Components), MayCreate(q), files' = files \cup {q}
  PROVE  FilesInv' /\ files \subseteq files'
<1>1. Clean(Front(q))
  BY NamesAssumption DEF MayCreate
<1> QED
  BY <1>1 DEF FilesInv

\* What a line names is a sequence of components, and so is its normal form.
LEMMA ResolveIs ==
  ASSUME CwdInv, NEW a \in Arguments
  PROVE  /\ Resolve(a) \in Seq(Components) /\ Normalize(Resolve(a)) \in Seq(Components)
         /\ Normalize(a.comps) \in Seq(Components)
<1>1. a.comps \in Seq(Components) /\ cwd \in Seq(Components)
  BY NamesAssumption DEF CwdInv
<1>2. cwd \o a.comps \in Seq(Components)
  BY <1>1, ConcatProperties
<1>3. Resolve(a) \in Seq(Components)
  BY <1>1, <1>2 DEF Resolve
<1> QED
  BY <1>1, <1>3, CleanIsCanonical

\* A step that leaves the current directory alone and removes no file.
LEMMA CwdStays ==
  ASSUME CwdInv, FilesInv', files \subseteq files', cwd' = cwd,
         cmd' \in [verb : Verbs \cup {"none"}, path : Seq(Components)]
  PROVE  CwdInv'
<1>1. PICK q : q = Normalize(cwd)
  OBVIOUS
<1>2. IsDirectory(q)
  BY <1>1 DEF CwdInv
<1>3. IsDirectory(q)'
  BY <1>2, DirectoryStays
<1>4. (Normalize(cwd))' = q
  BY <1>1
<1> QED
  BY <1>3, <1>4 DEF CwdInv

\* The shell starts in the root directory.
LEMMA CwdInit == Init => CwdInv
<1>1. SUFFICES ASSUME Init PROVE CwdInv
  OBVIOUS
<1>2. files = Archive /\ cwd = << >> /\ cmd = NoCommand
  BY <1>1 DEF Init
<1>3. FilesInv
  <2>1. SUFFICES ASSUME NEW f \in Archive, f # << >> PROVE Clean(Front(f))
    BY <1>2, NamesAssumption DEF FilesInv
  <2>2. f \in Seq(Components) /\ Clean(f)
    BY NamesAssumption
  <2>3. /\ Len(Front(f)) = Len(f) - 1 /\ Len(f) \in Nat
        /\ \A k \in 1 .. Len(f) - 1 : Front(f)[k] = f[k]
    BY <2>1, <2>2, FrontIs, LengthIs
  <2>4. \A k \in 1 .. Len(f) - 1 : k \in 1 .. Len(f)
    BY <2>3
  <2> QED
    BY <2>2, <2>3, <2>4, CleanIs
<1>4. Normalize(cwd) = << >>
  <2>1. << >> \in Seq(Components) /\ Len(<< >>) = 0
    BY EmptyIs
  <2>2. \E f : f[0] = << >> /\ Normalize(<< >>) = f[Len(<< >>)]
    BY <2>1, NormalizeRuns
  <2> QED
    BY <1>2, <2>1, <2>2
<1>5. cmd \in [verb : Verbs \cup {"none"}, path : Seq(Components)]
  BY <1>2, EmptyIs DEF NoCommand
<1> QED
  BY <1>2, <1>3, <1>4, <1>5, EmptyIs DEF CwdInv, IsDirectory

\* The files after an open, which may have created one.
LEMMA OpenedFiles ==
  ASSUME CwdInv, NEW verb, NEW q \in Seq(Components),
         files' = IF Creates(verb, q) THEN files \cup {q} ELSE files
  PROVE  FilesInv' /\ files \subseteq files'
<1>1. FilesInv
  BY DEF CwdInv
<1>2. CASE Creates(verb, q)
  <2>1. MayCreate(q) /\ files' = files \cup {q}
    BY <1>2 DEF Creates
  <2> QED
    BY <1>1, <2>1, FilesGrow
<1>3. CASE ~Creates(verb, q)
  BY <1>1, <1>3 DEF FilesInv
<1> QED
  BY <1>2, <1>3

\* Every step keeps the current directory one.
LEMMA CwdStep == CwdInv /\ [Next]_vars => CwdInv'
<1>1. SUFFICES ASSUME CwdInv, [Next]_vars PROVE CwdInv'
  OBVIOUS
<1>2. ASSUME FilesInv', files \subseteq files', cwd' = cwd, cmd' = cmd PROVE CwdInv'
  <2>1. cmd' \in [verb : Verbs \cup {"none"}, path : Seq(Components)]
    BY <1>1, <1>2 DEF CwdInv
  <2> QED
    BY <1>1, <1>2, <2>1, CwdStays
<1>3. ASSUME UNCHANGED <<files, cwd, cmd>> PROVE CwdInv'
  <2>1. FilesInv' /\ files \subseteq files'
    BY <1>1, <1>3 DEF CwdInv, FilesInv
  <2> QED
    BY <1>2, <1>3, <2>1
<1>4. ASSUME NEW a \in Arguments, ExecuteLine(a) PROVE CwdInv'
  <2>1. PICK q \in Seq(Components) : q = Normalize(Resolve(a))
    BY <1>1, ResolveIs
  <2>2. Resolve(a) \in Seq(Components)
    BY <1>1, ResolveIs
  <2>3. CASE PathOverruns(a)
    BY <1>3, <2>3 DEF PathOverruns
  <2>4. ASSUME NEW verb \in Verbs, OpenFails(verb, a) PROVE CwdInv'
    <3>1. /\ UNCHANGED files \/ files' = IF Creates(verb, q) THEN files \cup {q} ELSE files
          /\ cwd' = cwd /\ cmd' = cmd
      BY <2>1, <2>4 DEF OpenFails
    <3>2. CASE UNCHANGED files
      BY <1>3, <3>1, <3>2
    <3>3. CASE files' = IF Creates(verb, q) THEN files \cup {q} ELSE files
      BY <1>1, <1>2, <3>1, <3>3, OpenedFiles
    <3> QED
      BY <3>1, <3>2, <3>3
  <2>5. ASSUME NEW verb \in Verbs, Open(verb, a) PROVE CwdInv'
    <3>1. /\ files' = IF Creates(verb, q) THEN files \cup {q} ELSE files
          /\ cwd' = cwd /\ cmd' = [verb |-> verb, path |-> Resolve(a)]
      BY <2>1, <2>5 DEF Open
    <3>2. FilesInv' /\ files \subseteq files'
      BY <1>1, <3>1, OpenedFiles
    <3>3. cmd' \in [verb : Verbs \cup {"none"}, path : Seq(Components)]
      BY <2>2, <3>1
    <3> QED
      BY <1>1, <3>1, <3>2, <3>3, CwdStays
  <2>6. CASE RunFails(a)
    BY <1>3, <2>6 DEF RunFails, vars
  <2>7. CASE Run(a)
    BY <1>3, <2>7 DEF Run
  <2> QED
    BY <1>4, <2>3, <2>4, <2>5, <2>6, <2>7 DEF ExecuteLine
<1>5. CASE FinishFile
  <2>1. files' = files /\ cwd' = cwd /\ cmd' = NoCommand
    BY <1>5 DEF FinishFile
  <2>2. FilesInv' /\ files \subseteq files'
    BY <1>1, <2>1 DEF CwdInv, FilesInv
  <2>3. cmd' \in [verb : Verbs \cup {"none"}, path : Seq(Components)]
    BY <2>1, EmptyIs DEF NoCommand
  <2> QED
    BY <1>1, <2>1, <2>2, <2>3, CwdStays
<1>6. CASE FinishCd
  <2>1. /\ files' = files /\ cmd' = NoCommand
        /\ cwd' = IF IsDirectory(Normalize(cmd.path)) THEN cmd.path ELSE cwd
    BY <1>6 DEF FinishCd
  <2>2. cmd' \in [verb : Verbs \cup {"none"}, path : Seq(Components)]
    BY <2>1, EmptyIs DEF NoCommand
  <2>3. FilesInv' /\ files \subseteq files'
    BY <1>1, <2>1 DEF CwdInv, FilesInv
  <2>4. CASE IsDirectory(Normalize(cmd.path))
    <3>1. PICK p \in Seq(Components) : p = cmd.path
      BY <1>1 DEF CwdInv
    <3>2. PICK q : q = Normalize(p) /\ IsDirectory(q)
      BY <2>4, <3>1
    <3>3. IsDirectory(q)'
      BY <2>3, <3>2, DirectoryStays
    <3>4. cwd' = p
      BY <2>1, <2>4, <3>1
    <3> QED
      BY <2>2, <2>3, <3>2, <3>3, <3>4 DEF CwdInv
  <2>5. CASE ~IsDirectory(Normalize(cmd.path))
    BY <1>1, <2>1, <2>2, <2>3, <2>5, CwdStays
  <2> QED
    BY <2>4, <2>5
<1>7. CASE RunEnds
  BY <1>3, <1>7 DEF RunEnds
<1>8. ASSUME NEW p \in Slots, ProgramSpawns(p) PROVE CwdInv'
  BY <1>3, <1>8 DEF ProgramSpawns
<1>9. ASSUME NEW p \in Slots, NEW a \in Arguments, ProgramCreates(p, a) PROVE CwdInv'
  <2>1. PICK q \in Seq(Components) : q = Normalize(a.comps)
    BY <1>1, ResolveIs
  <2>2. MayCreate(q) /\ files' = files \cup {q} /\ cwd' = cwd /\ cmd' = cmd
    BY <1>9, <2>1 DEF ProgramCreates, Creates
  <2>3. FilesInv' /\ files \subseteq files'
    BY <1>1, <2>2, FilesGrow DEF CwdInv
  <2> QED
    BY <1>2, <2>2, <2>3
<1>10. ASSUME NEW p \in Slots, NEW e \in Codes, ProgramEnds(p, e) PROVE CwdInv'
  BY <1>3, <1>10 DEF ProgramEnds
<1>11. ASSUME NEW p \in Slots, NEW c \in Slots, ProgramCollects(p, c) PROVE CwdInv'
  BY <1>3, <1>11 DEF ProgramCollects
<1>12. CASE Halted \/ UNCHANGED vars
  BY <1>3, <1>12 DEF Halted, vars
<1> QED
  BY <1>1, <1>4, <1>5, <1>6, <1>7, <1>8, <1>9, <1>10, <1>11, <1>12 DEF Next

\* The shell's current directory always exists and is what its components
\* mean, for every archive and whatever is typed: shell_run_cd keeps the path
\* only if vfs_normalize_path finds a directory there.
THEOREM CurrentDirectoryIsSound == Spec => []CwdMeansDirectory
<1>1. CwdInv => CwdMeansDirectory
  <2>1. SUFFICES ASSUME CwdInv PROVE CwdMeansDirectory
    OBVIOUS
  <2>2. cwd \in Seq(Components) /\ IsDirectory(Normalize(cwd)) /\ FilesInv
    BY <2>1 DEF CwdInv
  <2>3. Normalize(cwd) \in Seq(Components)
    BY <2>2, CleanIsCanonical
  <2>4. Clean(Normalize(cwd))
    BY <2>2, <2>3, DirectoryClean
  <2> QED
    BY <2>2, <2>4, CleanIsCanonical DEF CwdMeansDirectory
<1> QED
  BY CwdInit, CwdStep, <1>1, PTL DEF Spec

-----------------------------------------------------------------------------
(***************************************************************************)
(* What a command leaves behind. A file is open only while a command works *)
(* on it, and of the processes the shell has made only the one it waits    *)
(* for may still have a slot.                                              *)
(***************************************************************************)
HandleInv ==
  /\ pc \in {"prompt", "opened", "waiting"}
  /\ pc = "opened" => handles = 1
  /\ pc # "opened" => handles = 0

OwnInv ==
  /\ life \in [Slots -> {"free", "live", "ended"}] /\ maker \in [Slots -> Slots]
  /\ \A p \in Slots \ {Root} :
       life[p] # "free" /\ maker[p] = Root => pc = "waiting" /\ child = p

PromptInv == HandleInv /\ OwnInv

\* Creating a process: nothing changes but the kernel's state, or a slot that
\* was free has a process of p, and if p is the shell it is the child.
LEMMA SpawnIs ==
  ASSUME OwnInv, NEW p \in Slots, SpawnBy(p)
  PROVE  \/ halted' # "no" /\ UNCHANGED <<life, maker, child>>
         \/ \E c \in Slots :
              /\ halted' = halted /\ life[c] = "free"
              /\ life' = [life EXCEPT ![c] = "live"] /\ maker' = [maker EXCEPT ![c] = p]
              /\ child' = IF p = Root THEN c ELSE child
<1>1. CASE \A s \in Slots : life[s] # "free"
  BY <1>1 DEF SpawnBy, tables
<1>2. CASE ~\A s \in Slots : life[s] # "free"
  BY <1>2 DEF SpawnBy, PT!Create
<1> QED
  BY <1>1, <1>2

\* Every step keeps this.
LEMMA PromptStep == PromptInv /\ [Next]_vars => PromptInv'
<1>1. SUFFICES ASSUME HandleInv, OwnInv, [Next]_vars PROVE HandleInv' /\ OwnInv'
  BY DEF PromptInv
<1>2. ASSUME UNCHANGED <<pc, handles>> PROVE HandleInv'
  BY <1>1, <1>2 DEF HandleInv
<1>3. ASSUME UNCHANGED <<life, maker>>, pc = "waiting" => pc' = "waiting" /\ child' = child
      PROVE  OwnInv'
  BY <1>1, <1>3 DEF OwnInv
<1>4. ASSUME NEW a \in Arguments, ExecuteLine(a) PROVE HandleInv' /\ OwnInv'
  <2>1. CASE PathOverruns(a)
    <3>1. UNCHANGED <<pc, handles, life, maker, child>>
      BY <2>1 DEF PathOverruns, tables
    <3> QED
      BY <1>2, <1>3, <3>1
  <2>2. ASSUME NEW verb \in Verbs, OpenFails(verb, a) PROVE HandleInv' /\ OwnInv'
    <3>1. UNCHANGED <<pc, handles, life, maker, child>>
      BY <2>2 DEF OpenFails, tables
    <3> QED
      BY <1>2, <1>3, <3>1
  <2>3. ASSUME NEW verb \in Verbs, Open(verb, a) PROVE HandleInv' /\ OwnInv'
    <3>1. UNCHANGED <<life, maker, child>> /\ pc = "prompt" /\ pc' = "opened"
      BY <2>3 DEF Open, Typed, tables
    <3>2. handles' = handles + 1
      BY <2>3 DEF Open
    <3>3. handles = 0
      BY <1>1, <3>1 DEF HandleInv
    <3>4. handles' = 1
      BY <3>2, <3>3
    <3> QED
      BY <1>3, <3>1, <3>4 DEF HandleInv
  <2>4. CASE RunFails(a)
    <3>1. UNCHANGED <<pc, handles, life, maker, child>>
      BY <2>4 DEF RunFails, vars
    <3> QED
      BY <1>2, <1>3, <3>1
  <2>5. CASE Run(a)
    <3>1. /\ pc = "prompt" /\ halted = "no" /\ handles' = handles /\ SpawnBy(Root)
          /\ pc' = IF halted' = "no" THEN "waiting" ELSE pc
      BY <2>5 DEF Run, Typed
    <3>2. HandleInv'
      BY <1>1, <3>1 DEF HandleInv
    <3>3. CASE halted' # "no" /\ UNCHANGED <<life, maker, child>>
      BY <1>3, <3>1, <3>2, <3>3
    <3>4. ASSUME NEW c \in Slots, halted' = halted, life[c] = "free",
                 life' = [life EXCEPT ![c] = "live"], maker' = [maker EXCEPT ![c] = Root],
                 child' = c
          PROVE  OwnInv'
      <4>1. pc' = "waiting"
        BY <3>1, <3>4
      <4> QED
        BY <1>1, <3>1, <3>4, <4>1, ShellAssumption DEF OwnInv
    <3> QED
      BY <1>1, <3>1, <3>2, <3>3, <3>4, SpawnIs, ShellAssumption
  <2> QED
    BY <1>4, <2>1, <2>2, <2>3, <2>4, <2>5 DEF ExecuteLine
<1>5. CASE FinishFile \/ FinishCd
  <2>1. UNCHANGED <<life, maker, child>> /\ pc = "opened" /\ pc' = "prompt"
    BY <1>5 DEF FinishFile, FinishCd, tables
  <2>2. handles' = handles - 1
    BY <1>5 DEF FinishFile, FinishCd
  <2>3. handles = 1
    BY <1>1, <2>1 DEF HandleInv
  <2>4. handles' = 0
    BY <2>2, <2>3
  <2> QED
    BY <1>3, <2>1, <2>4 DEF HandleInv
<1>6. CASE RunEnds
  <2>1. /\ pc = "waiting" /\ pc' = "prompt" /\ handles' = handles
        /\ life' = [life EXCEPT ![child] = "free"] /\ maker' = [maker EXCEPT ![child] = Root]
    BY <1>6 DEF RunEnds, PT!Collect
  <2>2. HandleInv'
    BY <1>1, <2>1 DEF HandleInv
  <2>3. OwnInv'
    BY <1>1, <2>1, ShellAssumption DEF OwnInv
  <2> QED
    BY <2>2, <2>3
<1>7. ASSUME NEW p \in Slots, ProgramSpawns(p) PROVE HandleInv' /\ OwnInv'
  <2>1. p # Root /\ UNCHANGED <<pc, handles>> /\ SpawnBy(p)
    BY <1>7 DEF ProgramSpawns, ProgramRuns
  <2>2. ASSUME NEW c \in Slots, life[c] = "free", life' = [life EXCEPT ![c] = "live"],
               maker' = [maker EXCEPT ![c] = p], child' = child
        PROVE  OwnInv'
    BY <1>1, <2>1, <2>2 DEF OwnInv
  <2> QED
    BY <1>1, <1>2, <1>3, <2>1, <2>2, SpawnIs
<1>8. ASSUME NEW p \in Slots, NEW a \in Arguments, ProgramCreates(p, a)
      PROVE  HandleInv' /\ OwnInv'
  <2>1. UNCHANGED <<pc, handles, life, maker, child>>
    BY <1>8 DEF ProgramCreates, tables
  <2> QED
    BY <1>2, <1>3, <2>1
<1>9. ASSUME NEW p \in Slots, NEW e \in Codes, ProgramEnds(p, e) PROVE HandleInv' /\ OwnInv'
  <2>1. /\ UNCHANGED <<pc, handles, maker, child>> /\ life[p] = "live"
        /\ life' = [life EXCEPT ![p] = "ended"]
    BY <1>9 DEF ProgramEnds, PT!End
  <2>2. OwnInv'
    BY <1>1, <2>1 DEF OwnInv
  <2> QED
    BY <1>2, <2>1, <2>2
<1>10. ASSUME NEW p \in Slots, NEW c \in Slots, ProgramCollects(p, c)
       PROVE  HandleInv' /\ OwnInv'
  <2>1. /\ UNCHANGED <<pc, handles, child>>
        /\ life' = [life EXCEPT ![c] = "free"] /\ maker' = [maker EXCEPT ![c] = Root]
    BY <1>10 DEF ProgramCollects, PT!Collect
  <2>2. OwnInv'
    BY <1>1, <2>1, ShellAssumption DEF OwnInv
  <2> QED
    BY <1>2, <2>1, <2>2
<1>11. CASE Halted \/ UNCHANGED vars
  <2>1. UNCHANGED <<pc, handles, life, maker, child>>
    BY <1>11 DEF Halted, vars
  <2> QED
    BY <1>2, <1>3, <2>1
<1> QED
  BY <1>1, <1>4, <1>5, <1>6, <1>7, <1>8, <1>9, <1>10, <1>11 DEF Next

\* At the prompt the shell's spare handle is free again and every program it
\* started has been collected, for every number of slots and whatever the
\* programs do: a full process table is never the shell's own doing.
THEOREM CommandsLeaveNothing == Spec => []PromptClean
<1>1. Init => PromptInv
  BY ShellAssumption DEF Init, PT!TableInit, PromptInv, HandleInv, OwnInv
<1>2. PromptInv => PromptClean
  BY DEF PromptInv, HandleInv, OwnInv, PromptClean
<1> QED
  BY PromptStep, <1>1, <1>2, PTL DEF Spec
=============================================================================
