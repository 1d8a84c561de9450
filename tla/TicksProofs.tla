---------------------------- MODULE TicksProofs ----------------------------
(***************************************************************************)
(* Theorems about Ticks.tla, for every number of tasks and of ticks that   *)
(* the boot tests wait for.                                                *)
(***************************************************************************)
EXTENDS Ticks, FiniteSetTheorems, WellFoundedInduction, TLAPS

\* The counter starts again only before the scheduler is set up.
Inv ==
  /\ counter \in Nat /\ last \in Nat /\ total \in Int /\ base \in Nat
  /\ active <=> phase \in {"scheduler test", "running"}
  /\ active => last = counter /\ total = counter - base

\* The accounting of a clock that is one tick ahead brings it into step.
LEMMA AccountTick ==
  ASSUME counter \in Nat, last = counter, total \in Int, Account(counter + 1)
  PROVE  last' = counter + 1 /\ total' = total + 1
<1>1. ~(counter + 1 <= last) /\ counter + 1 - last = 1
  OBVIOUS
<1> QED
  BY <1>1 DEF Account

\* The accounting of a clock that is in step changes nothing.
LEMMA AccountNothing ==
  ASSUME counter \in Nat, last = counter, Account(counter)
  PROVE  last' = last /\ total' = total
<1>1. counter <= last
  OBVIOUS
<1> QED
  BY <1>1 DEF Account, books

\* Accounting keeps the types.
LEMMA AccountTypes ==
  ASSUME last \in Nat, total \in Int, NEW now \in Nat, Account(now)
  PROVE  last' \in Nat /\ total' \in Int
<1>1. CASE now <= last
  BY <1>1 DEF Account, books
<1>2. CASE ~(now <= last)
  BY <1>2 DEF Account
<1> QED
  BY <1>1, <1>2

\* Every step keeps the invariant.
LEMMA NextInv == Inv /\ [Next]_vars => Inv'
<1> SUFFICES ASSUME Inv, [Next]_vars PROVE Inv'
  OBVIOUS
<1>1. counter \in Nat /\ last \in Nat /\ total \in Int /\ base \in Nat
  BY DEF Inv
<1>2. active <=> phase \in {"scheduler test", "running"}
  BY DEF Inv
<1>3. CASE TimerIrq
  <2>1. counter' = counter + 1 /\ UNCHANGED <<phase, active, base>>
    BY <1>3 DEF TimerIrq
  <2>2. counter' \in Nat
    BY <1>1, <2>1
  <2>3. CASE active
    <3>1. Account(counter + 1)
      BY <1>3, <2>3 DEF TimerIrq, KernelIrq, UserIrq
    <3>2. last = counter /\ total = counter - base
      BY <2>3 DEF Inv
    <3>3. last' = counter + 1 /\ total' = total + 1
      BY <1>1, <3>1, <3>2, AccountTick
    <3>4. last' = counter' /\ total' = counter' - base' /\ total' \in Int
      BY <1>1, <2>1, <3>2, <3>3
    <3> QED
      BY <1>1, <1>2, <2>1, <2>2, <3>4, Zenon DEF Inv
  <2>4. CASE ~active
    <3>1. UNCHANGED books \/ Account(counter + 1)
      BY <1>3, <2>4 DEF TimerIrq, KernelIrq, UserIrq
    <3>2. last' \in Nat /\ total' \in Int
      <4>1. CASE UNCHANGED books
        BY <1>1, <4>1 DEF books
      <4>2. CASE Account(counter + 1)
        BY <1>1, <2>1, <2>2, <4>2, AccountTypes
      <4> QED
        BY <3>1, <4>1, <4>2
    <3> QED
      BY <1>1, <1>2, <2>1, <2>2, <2>4, <3>2, Zenon DEF Inv
  <2> QED
    BY <2>3, <2>4
<1>4. CASE CallReturns
  <2>1. UNCHANGED <<counter, phase, active, base>> /\ active /\ Account(counter)
    BY <1>4 DEF CallReturns, clock
  <2>2. last = counter
    BY <2>1 DEF Inv
  <2>3. last' = last /\ total' = total
    BY <1>1, <2>1, <2>2, AccountNothing
  <2> QED
    BY <2>1, <2>3 DEF Inv
<1>5. CASE InitScheduler
  <2>1. /\ counter' = counter /\ last' = counter /\ total' = 0 /\ base' = counter
        /\ active' = TRUE /\ phase' = "scheduler test"
    BY <1>5 DEF InitScheduler, clock
  <2>2. 0 = counter - counter /\ 0 \in Int
    BY <1>1
  <2> QED
    BY <1>1, <2>1, <2>2, Zenon DEF Inv
<1>6. CASE BeginProbe \/ StartSource
  <2>1. /\ counter' = 0 /\ UNCHANGED <<last, total, base, active>>
        /\ phase \in {"off", "source"} /\ phase' \in {"probe", "time test"}
    BY <1>6 DEF BeginProbe, StartSource, InBoot, KeepTasks, books
  <2> QED
    BY <1>1, <1>2, <2>1 DEF Inv
<1>7. CASE Probe \/ TimeTest
  <2>1. /\ UNCHANGED <<counter, last, total, base, active>>
        /\ phase \in {"probe", "time test"} /\ phase' \in {"probe", "source", "time test", "setup"}
    BY <1>7 DEF Probe, TimeTest, InBoot, KeepTasks, books, clock, Hlt
  <2> QED
    BY <1>1, <1>2, <2>1 DEF Inv
<1>8. CASE SchedulerTest
  <2>1. /\ UNCHANGED <<counter, last, total, base, active>>
        /\ phase = "scheduler test" /\ phase' \in {"scheduler test", "running"}
    BY <1>8 DEF SchedulerTest, InBoot, books, clock
  <2> QED
    BY <2>1 DEF Inv
<1>9. CASE \/ TimerFires \/ WakeUp \/ WaitForEdge \/ CallBegins \/ SwitchTask
           \/ \E u \in Users : NewTask(u) \/ ReleaseTask(u)
           \/ BoundReached \/ UNCHANGED vars
  <2>1. UNCHANGED <<counter, last, total, base, active, phase>>
    BY <1>9 DEF TimerFires, WakeUp, WaitForEdge, CallBegins, SwitchTask, NewTask, ReleaseTask,
                BoundReached, KeepTasks, vars, clock, books, boot
  <2> QED
    BY <2>1 DEF Inv
<1> QED
  BY <1>3, <1>4, <1>5, <1>6, <1>7, <1>8, <1>9 DEF Next, BootStep

\* Once the scheduler is set up its clock is the interrupt counter, in every
\* state: each interrupt is accounted for when it is taken, the return of a
\* call never finds a tick, and the preemption in scheduler_timer_interrupt
\* does not happen.
THEOREM ClockNeverBehind == Spec => []ClockInStep
<1>1. Init => Inv
  BY DEF Init, Inv
<1>2. Inv => ClockInStep
  BY DEF Inv, ClockInStep
<1> QED
  BY <1>1, <1>2, NextInv, PTL DEF Spec

-----------------------------------------------------------------------------
(***************************************************************************)
(* Sums over the task table. MapThenSumSet takes one member of the set     *)
(* after the other; what it computes is shown by the smallest subset for   *)
(* which it would be wrong.                                                *)
(***************************************************************************)
Pick(s) == CHOOSE x \in s : TRUE

Sum(f, S) == MapThenSumSet(LAMBDA t : f[t], S)

\* A set of natural numbers that is not empty has a least element.
LEMMA LeastNatural ==
  ASSUME NEW S \in SUBSET Nat, S # {}
  PROVE  \E m \in S : \A n \in S : m <= n
<1> DEFINE L == {p \in Nat \X Nat : p[1] < p[2]}
<1>1. IsWellFoundedOn(L, Nat)
  BY NatLessThanWellFounded DEF OpToRel
<1>2. \E m \in S : \A n \in S : <<n, m>> \notin L
  <2> HIDE DEF L
  <2>1. QED
    BY <1>1, WFMin
<1>3. \A m, n \in Nat : n < m => <<n, m>> \in L
  OBVIOUS
<1>4. PICK m \in S : \A n \in S : <<n, m>> \notin L
  BY <1>2
<1>5. \A n \in S : n \in Nat /\ m \in Nat /\ ~(n < m)
  BY <1>3, <1>4
<1>6. QED
  BY <1>4, <1>5

\* Taking one member out of a finite set.
LEMMA PickFacts ==
  ASSUME NEW S, IsFiniteSet(S), NEW s \in SUBSET S, s # {}
  PROVE  /\ Pick(s) \in s /\ s \ {Pick(s)} \in SUBSET S
         /\ Cardinality(s) \in Nat /\ Cardinality(s) > 0
         /\ Cardinality(s \ {Pick(s)}) = Cardinality(s) - 1
<1>1. Pick(s) \in s
  BY DEF Pick
<1>2. IsFiniteSet(s)
  BY FS_Subset
<1>3. Cardinality(s) \in Nat /\ Cardinality(s) # 0
  BY <1>2, FS_CardinalityType, FS_EmptySet
<1>4. Cardinality(s \ {Pick(s)}) = Cardinality(s) - 1
  BY <1>1, <1>2, FS_RemoveElement
<1>5. QED
  BY <1>1, <1>3, <1>4

\* What holds of the empty set, and of a set if it holds of it without the
\* member that is taken first, holds of every finite set.
LEMMA PickInduction ==
  ASSUME NEW S, IsFiniteSet(S), NEW Q, {} \in Q,
         \A s \in SUBSET S : s # {} /\ s \ {Pick(s)} \in Q => s \in Q
  PROVE  \A s \in SUBSET S : s \in Q
<1> DEFINE Bad == {Cardinality(s) : s \in (SUBSET S) \ Q}
<1>1. SUFFICES ASSUME NEW b \in SUBSET S, b \notin Q PROVE FALSE
  OBVIOUS
<1>2. Bad \in SUBSET Nat /\ Bad # {}
  <2>1. \A s \in SUBSET S : Cardinality(s) \in Nat
    BY FS_Subset, FS_CardinalityType
  <2>2. QED
    BY <1>1, <2>1
<1>3. PICK m \in Bad : \A n \in Bad : m <= n
  <2> HIDE DEF Bad
  <2>1. QED
    BY <1>2, LeastNatural
<1>4. PICK s \in SUBSET S : s \notin Q /\ m = Cardinality(s)
  BY <1>3
<1>5. s # {}
  <2>1. CASE s = {}
    <3>1. {} \notin Q
      BY <1>4, <2>1, Zenon
    <3>2. QED
      BY <3>1
  <2>2. QED
    BY <2>1
<1>6. /\ s \ {Pick(s)} \in SUBSET S /\ Cardinality(s) \in Nat
      /\ Cardinality(s \ {Pick(s)}) = Cardinality(s) - 1
  BY <1>4, <1>5, PickFacts
<1>7. s \ {Pick(s)} \in Q
  <2> SUFFICES ASSUME s \ {Pick(s)} \notin Q PROVE FALSE
    OBVIOUS
  <2>1. Cardinality(s \ {Pick(s)}) \in Bad
    BY <1>6
  <2>2. m <= m - 1 /\ m \in Nat
    BY <1>3, <1>4, <1>6, <2>1
  <2>3. QED
    BY <2>2
<1>8. QED
  BY <1>4, <1>5, <1>7

\* The table of partial sums that the fold goes through.
SumTable(it, f, S) ==
  it = [s \in SUBSET S |-> IF s = {} THEN 0 ELSE f[Pick(s)] + it[s \ {Pick(s)}]]

\* The fold defines a value for every subset.
LEMMA SumDefined ==
  ASSUME NEW S, IsFiniteSet(S), NEW f
  PROVE  \E it : SumTable(it, f, S)
<1> DEFINE D(n) == {s \in SUBSET S : Cardinality(s) <= n}
           E(g, s) == IF s = {} THEN 0 ELSE f[Pick(s)] + g[s \ {Pick(s)}]
           Good(n) == \E it : it = [s \in D(n) |-> E(it, s)]
           Bad == {n \in Nat : ~Good(n)}
<1>1. \A s \in SUBSET S : Cardinality(s) \in Nat /\ (Cardinality(s) = 0 <=> s = {})
  BY FS_Subset, FS_CardinalityType, FS_EmptySet
<1>2. ASSUME NEW m \in Bad, \A n \in Bad : m <= n
      PROVE  FALSE
  <2>1. m \in Nat /\ ~Good(m)
    OBVIOUS
  <2>2. CASE m = 0
    <3> DEFINE g == [s \in D(0) |-> 0]
    <3>1. \A s \in D(0) : s = {}
      <4> TAKE s \in D(0)
      <4>1. Cardinality(s) \in Nat /\ Cardinality(s) <= 0
        BY <1>1
      <4>2. Cardinality(s) = 0
        BY <4>1
      <4>3. QED
        BY <1>1, <4>2
    <3>2. g = [s \in D(0) |-> E(g, s)]
      <4>1. \A s \in D(0) : E(g, s) = 0
        BY <3>1
      <4> HIDE DEF E, D
      <4>2. QED
        BY <4>1
    <3>3. Good(0)
      <4> HIDE DEF E, D, g
      <4>1. QED
        BY <3>2
    <3> HIDE DEF Good
    <3>4. QED
      BY <2>1, <2>2, <3>3
  <2>3. CASE m # 0
    <3>1. m - 1 \in Nat /\ ~(m <= m - 1)
      BY <2>1, <2>3
    <3>2. Good(m - 1)
      <4> HIDE DEF Good
      <4>1. QED
        BY <1>2, <3>1
    <3>3. PICK g : g = [s \in D(m - 1) |-> E(g, s)]
      BY <3>2
    <3> DEFINE h == [s \in D(m) |-> IF s \in D(m - 1) THEN g[s] ELSE E(g, s)]
    <3>4. \A s \in D(m) : s # {} => s \ {Pick(s)} \in D(m - 1) /\ s \ {Pick(s)} \in D(m)
      <4> SUFFICES ASSUME NEW s \in D(m), s # {}
                   PROVE  s \ {Pick(s)} \in D(m - 1) /\ s \ {Pick(s)} \in D(m)
        OBVIOUS
      <4>1. s \in SUBSET S /\ Cardinality(s) <= m
        OBVIOUS
      <4>2. /\ s \ {Pick(s)} \in SUBSET S /\ Cardinality(s) \in Nat
            /\ Cardinality(s \ {Pick(s)}) = Cardinality(s) - 1
        BY <4>1, PickFacts
      <4>3. Cardinality(s \ {Pick(s)}) <= m - 1 /\ Cardinality(s \ {Pick(s)}) <= m
        BY <2>1, <4>1, <4>2
      <4>4. QED
        BY <4>2, <4>3
    <3>5. \A s \in D(m) : E(h, s) = E(g, s)
      <4> SUFFICES ASSUME NEW s \in D(m) PROVE E(h, s) = E(g, s)
        OBVIOUS
      <4>1. CASE s = {}
        BY <4>1
      <4>2. CASE s # {}
        <5>1. PICK t : t = s \ {Pick(s)}
          OBVIOUS
        <5>2. t \in D(m - 1) /\ t \in D(m)
          BY <3>4, <4>2, <5>1
        <5>3. h[t] = g[t]
          <6> HIDE DEF D, E
          <6>1. QED
            BY <5>2
        <5> HIDE DEF h
        <5>4. QED
          BY <5>1, <5>3
      <4>3. QED
        BY <4>1, <4>2
    <3>6. \A s \in D(m) : h[s] = E(g, s)
      <4> HIDE DEF D, E
      <4>1. QED
        BY <3>3
    <3>7. h = [s \in D(m) |-> E(h, s)]
      <4>1. h = [s \in D(m) |-> h[s]]
        <5> HIDE DEF D, E
        <5>1. QED
          OBVIOUS
      <4> HIDE DEF D, E, h
      <4>2. QED
        BY <3>5, <3>6, <4>1
    <3>8. Good(m)
      <4> HIDE DEF D, E, h
      <4>1. QED
        BY <3>7
    <3> HIDE DEF Good
    <3>9. QED
      BY <2>1, <3>8
  <2>4. QED
    BY <2>2, <2>3
<1>3. \A n \in Nat : Good(n)
  <2>1. Bad \in SUBSET Nat
    OBVIOUS
  <2>2. Bad = {}
    <3> HIDE DEF Bad
    <3>1. QED
      BY <1>2, <2>1, LeastNatural
  <2> HIDE DEF Good
  <2>3. QED
    BY <2>2
<1>4. Cardinality(S) \in Nat
  BY FS_CardinalityType
<1>5. D(Cardinality(S)) = SUBSET S
  <2>1. \A s \in SUBSET S : Cardinality(s) <= Cardinality(S)
    BY FS_Subset
  <2>2. QED
    BY <2>1
<1>6. PICK it : it = [s \in D(Cardinality(S)) |-> E(it, s)]
  BY <1>3, <1>4
<1>7. it = [s \in SUBSET S |-> E(it, s)]
  <2> HIDE DEF D, E
  <2>1. QED
    BY <1>5, <1>6
<1>8. QED
  BY <1>7 DEF SumTable

\* The sum, as the fold computes it.
LEMMA SumRuns ==
  ASSUME NEW S, IsFiniteSet(S), NEW f
  PROVE  \E it : SumTable(it, f, S) /\ Sum(f, S) = it[S]
<1> DEFINE it == CHOOSE g : SumTable(g, f, S)
<1>1. Sum(f, S) = it[S]
  BY DEF Sum, MapThenSumSet, MapThenFoldSet, Pick, SumTable
<1>2. SumTable(it, f, S)
  BY SumDefined
<1> HIDE DEF it
<1>3. QED
  BY <1>1, <1>2

\* The sum of nothing but zeros.
LEMMA SumOfZeros ==
  ASSUME NEW S, IsFiniteSet(S)
  PROVE  Sum([t \in S |-> 0], S) = 0
<1>1. PICK f : f = [t \in S |-> 0]
  OBVIOUS
<1>2. PICK it : SumTable(it, f, S) /\ Sum(f, S) = it[S]
  BY SumRuns
<1> DEFINE Q == {s \in SUBSET S : it[s] = 0}
<1>3. {} \in Q
  BY <1>2 DEF SumTable
<1>4. ASSUME NEW s \in SUBSET S, s # {}, s \ {Pick(s)} \in Q
      PROVE  s \in Q
  <2>1. it[s] = f[Pick(s)] + it[s \ {Pick(s)}]
    BY <1>2, <1>4 DEF SumTable
  <2>2. f[Pick(s)] = 0
    BY <1>1, <1>4, PickFacts
  <2>3. QED
    BY <1>4, <2>1, <2>2
<1>5. S \in Q
  <2> HIDE DEF Q
  <2>1. QED
    BY <1>3, <1>4, PickInduction
<1>6. QED
  BY <1>1, <1>2, <1>5

\* A sum with one summand changed.
LEMMA SumChanges ==
  ASSUME NEW S, IsFiniteSet(S), NEW f \in [S -> Int], NEW u \in S, NEW v \in Int
  PROVE  /\ Sum(f, S) \in Int
         /\ Sum([f EXCEPT ![u] = v], S) = Sum(f, S) + (v - f[u])
<1>1. PICK g : g = [f EXCEPT ![u] = v]
  OBVIOUS
<1>2. g \in [S -> Int] /\ g[u] = v /\ \A t \in S : t # u => g[t] = f[t]
  BY <1>1
<1>3. PICK a : SumTable(a, f, S) /\ Sum(f, S) = a[S]
  BY SumRuns
<1>4. PICK b : SumTable(b, g, S) /\ Sum(g, S) = b[S]
  BY SumRuns
<1> DEFINE Delta(s) == IF u \in s THEN v - f[u] ELSE 0
           Q == {s \in SUBSET S : a[s] \in Int /\ b[s] = a[s] + Delta(s)}
<1>5. {} \in Q
  BY <1>3, <1>4 DEF SumTable
<1>6. ASSUME NEW s \in SUBSET S, s # {}, s \ {Pick(s)} \in Q
      PROVE  s \in Q
  <2>1. PICK x \in S : x = Pick(s) /\ x \in s
    BY <1>6, PickFacts
  <2>2. PICK r : r = s \ {x}
    OBVIOUS
  <2>3. a[s] = f[x] + a[r] /\ b[s] = g[x] + b[r]
    BY <1>3, <1>4, <1>6, <2>1, <2>2 DEF SumTable
  <2>4. a[r] \in Int /\ b[r] = a[r] + Delta(r)
    BY <1>6, <2>1, <2>2
  <2>5. f[x] \in Int /\ g[x] \in Int /\ f[u] \in Int
    BY <1>2
  <2>6. CASE x = u
    <3>1. Delta(r) = 0 /\ Delta(s) = v - f[u]
      BY <2>1, <2>2, <2>6
    <3>2. b[s] = a[s] + (v - f[u]) /\ a[s] \in Int
      BY <1>2, <2>3, <2>4, <2>5, <2>6, <3>1
    <3>3. QED
      BY <3>1, <3>2
  <2>7. CASE x # u
    <3>1. Delta(r) = Delta(s) /\ g[x] = f[x] /\ Delta(s) \in Int
      BY <1>2, <2>1, <2>2, <2>5, <2>7
    <3> HIDE DEF Delta
    <3>2. b[s] = a[s] + Delta(s) /\ a[s] \in Int
      BY <2>3, <2>4, <2>5, <3>1
    <3>3. QED
      BY <3>2
  <2>8. QED
    BY <2>6, <2>7
<1>7. S \in Q
  <2> HIDE DEF Q
  <2>1. QED
    BY <1>5, <1>6, PickInduction
<1>8. QED
  BY <1>1, <1>3, <1>4, <1>7

-----------------------------------------------------------------------------
(***************************************************************************)
(* The accounts. A slot that is empty has no ticks, so that its next task  *)
(* starts at nothing without any being lost; and no task is released       *)
(* before the scheduler's accounts are opened.                             *)
(***************************************************************************)
ChargeInv ==
  /\ runtime \in [Tasks -> Int] /\ retired \in Int /\ idleTicks \in Int
  /\ used \subseteq Tasks /\ current \in used /\ Idle \in used
  /\ \A t \in Tasks \ used : runtime[t] = 0
  /\ phase # "running" => retired = 0
  /\ total = retired + Sum(runtime, Tasks)
  /\ idleTicks = runtime[Idle]

\* There are finitely many tasks, so their ticks have a sum.
LEMMA TasksFinite == IsFiniteSet(Tasks)
<1>1. IsFiniteSet({Idle}) /\ IsFiniteSet({Kernel})
  BY FS_Singleton
<1>2. IsFiniteSet({Idle} \cup {Kernel})
  BY <1>1, FS_Union
<1>3. IsFiniteSet(Users \cup ({Idle} \cup {Kernel}))
  BY <1>2, TicksAssumption, FS_Union
<1>4. Tasks = Users \cup ({Idle} \cup {Kernel})
  BY DEF Tasks
<1>5. QED
  BY <1>3, <1>4

\* Nothing that the accounts are about changes but the task that runs.
LEMMA BooksKept ==
  ASSUME ChargeInv, UNCHANGED <<runtime, retired, idleTicks, used, total>>,
         current' \in used, phase' # "running" => phase # "running"
  PROVE  ChargeInv'
<1>1. PICK r : r = runtime
  OBVIOUS
<1>2. Sum(runtime, Tasks)' = Sum(r, Tasks) /\ Sum(runtime, Tasks) = Sum(r, Tasks)
  BY <1>1
<1>3. QED
  BY <1>2 DEF ChargeInv, Tasks

\* scheduler_account_tick charges one task.
LEMMA AccountCharges ==
  ASSUME ChargeInv, last \in Nat, total \in Int, NEW now \in Nat, Account(now),
         UNCHANGED <<retired, used>>, current' \in used,
         phase' # "running" => phase # "running"
  PROVE  ChargeInv'
<1>1. CASE now <= last
  <2>1. UNCHANGED <<runtime, idleTicks, total>>
    BY <1>1 DEF Account, books
  <2>2. QED
    BY <2>1, BooksKept
<1>2. CASE ~(now <= last)
  <2>1. PICK d \in Int : d = now - last
    OBVIOUS
  <2>2. /\ total' = total + d
        /\ runtime' = [runtime EXCEPT ![current] = @ + d]
        /\ idleTicks' = IF current = Idle THEN idleTicks + d ELSE idleTicks
    BY <1>2, <2>1 DEF Account
  <2>3. /\ runtime \in [Tasks -> Int] /\ retired \in Int /\ idleTicks \in Int
        /\ current \in Tasks /\ Idle \in Tasks /\ idleTicks = runtime[Idle]
        /\ total = retired + Sum(runtime, Tasks)
    BY DEF ChargeInv
  <2>4. PICK f \in [Tasks -> Int] : f = runtime
    BY <2>3
  <2>5. PICK c \in Tasks : c = current
    BY <2>3
  <2>6. PICK r : r = [f EXCEPT ![c] = f[c] + d]
    OBVIOUS
  <2>7. f[c] \in Int /\ f[c] + d \in Int
    BY <2>4, <2>5
  <2>8. Sum(f, Tasks) \in Int /\ Sum(r, Tasks) = Sum(f, Tasks) + ((f[c] + d) - f[c])
    BY <2>6, <2>7, TasksFinite, SumChanges
  <2>9. runtime' = r /\ r \in [Tasks -> Int]
    BY <2>2, <2>4, <2>5, <2>6, <2>7
  <2>10. Sum(runtime, Tasks)' = Sum(r, Tasks) /\ Sum(runtime, Tasks) = Sum(f, Tasks)
    BY <2>4, <2>9
  <2>11. Sum(r, Tasks) = Sum(f, Tasks) + d
    BY <2>7, <2>8
  <2>12. total' = retired + Sum(r, Tasks)
    BY <2>2, <2>3, <2>8, <2>10, <2>11
  <2>13. idleTicks' = r[Idle] /\ idleTicks' \in Int
    BY <2>2, <2>3, <2>4, <2>5, <2>6
  <2>14. \A t \in Tasks \ used : r[t] = 0
    <3> TAKE t \in Tasks \ used
    <3>1. t # c /\ f[t] = 0
      BY <2>4, <2>5 DEF ChargeInv
    <3>2. QED
      BY <2>4, <2>6, <3>1
  <2>15. QED
    BY <2>9, <2>10, <2>12, <2>13, <2>14 DEF ChargeInv, Tasks
<1>3. QED
  BY <1>1, <1>2

\* A slot changes hands: its ticks are set to zero and move to the retired.
LEMMA SlotCleared ==
  ASSUME ChargeInv, total \in Int, NEW u \in Users, current # u,
         runtime' = [runtime EXCEPT ![u] = 0], retired' = retired + runtime[u],
         UNCHANGED <<total, idleTicks, current, phase>>,
         used' \in SUBSET Tasks, used \ {u} \subseteq used', phase = "running"
  PROVE  ChargeInv'
<1>1. /\ runtime \in [Tasks -> Int] /\ retired \in Int /\ idleTicks \in Int
      /\ current \in used /\ Idle \in used /\ idleTicks = runtime[Idle]
      /\ total = retired + Sum(runtime, Tasks) /\ used \subseteq Tasks
  BY DEF ChargeInv
<1>2. u \in Tasks /\ u # Idle
  BY TicksAssumption DEF Tasks
<1>3. PICK f \in [Tasks -> Int] : f = runtime
  BY <1>1
<1>4. PICK r : r = [f EXCEPT ![u] = 0]
  OBVIOUS
<1>5. f[u] \in Int
  BY <1>2, <1>3
<1>6. Sum(f, Tasks) \in Int /\ Sum(r, Tasks) = Sum(f, Tasks) + (0 - f[u])
  <2>1. PICK v \in Int : v = 0
    OBVIOUS
  <2>2. r = [f EXCEPT ![u] = v]
    BY <1>4, <2>1
  <2>3. Sum(f, Tasks) \in Int /\ Sum(r, Tasks) = Sum(f, Tasks) + (v - f[u])
    BY <1>2, <2>2, TasksFinite, SumChanges
  <2>4. QED
    BY <2>1, <2>3
<1>7. runtime' = r /\ r \in [Tasks -> Int] /\ r[Idle] = f[Idle]
  BY <1>1, <1>2, <1>3, <1>4
<1>8. Sum(runtime, Tasks)' = Sum(r, Tasks) /\ Sum(runtime, Tasks) = Sum(f, Tasks)
  BY <1>3, <1>7
<1>9. retired' \in Int /\ total' = retired' + Sum(r, Tasks)
  <2>1. retired' = retired + f[u]
    BY <1>3
  <2>2. total = retired + Sum(f, Tasks) /\ total' = total /\ retired \in Int
    BY <1>1, <1>8
  <2>3. QED
    BY <1>5, <1>6, <2>1, <2>2
<1>10. \A t \in Tasks \ used' : r[t] = 0
  <2> TAKE t \in Tasks \ used'
  <2>1. CASE t = u
    BY <1>2, <1>3, <1>4, <2>1
  <2>2. CASE t # u
    <3>1. t \in Tasks \ used
      BY <2>2
    <3>2. f[t] = 0
      BY <1>3, <3>1 DEF ChargeInv
    <3>3. QED
      BY <1>3, <1>4, <2>2, <3>2
  <2>3. QED
    BY <2>1, <2>2
<1>11. current' \in used' /\ Idle \in used'
  BY <1>1, <1>2
<1>12. QED
  BY <1>1, <1>3, <1>7, <1>8, <1>9, <1>10, <1>11 DEF ChargeInv, Tasks

\* No tick has been charged at power-on.
LEMMA ChargeInit == Init => ChargeInv
<1> SUFFICES ASSUME Init PROVE ChargeInv
  OBVIOUS
<1>1. Sum(runtime, Tasks) = 0
  <2>1. Sum([t \in Tasks |-> 0], Tasks) = 0
    BY TasksFinite, SumOfZeros
  <2>2. QED
    BY <2>1 DEF Init
<1>2. Idle \in Tasks /\ {Idle, Kernel} \subseteq Tasks
  BY DEF Tasks
<1>3. QED
  BY <1>1, <1>2 DEF Init, ChargeInv

\* Every step keeps the accounts.
LEMMA ChargeStep ==
  ASSUME Inv, ChargeInv, [Next]_vars
  PROVE  ChargeInv'
<1>1. counter \in Nat /\ last \in Nat /\ total \in Int
  BY DEF Inv
<1>2. current \in used /\ used \subseteq Tasks /\ Idle \in used
  BY DEF ChargeInv
<1>3. CASE TimerIrq
  <2>1. UNCHANGED <<retired, used, phase>> /\ counter + 1 \in Nat
    BY <1>1, <1>3 DEF TimerIrq
  <2>2. current' \in used
    BY <1>2, <1>3 DEF TimerIrq, KernelIrq, UserIrq, GoOnWith
  <2>3. CASE Account(counter + 1)
    BY <1>1, <2>1, <2>2, <2>3, AccountCharges
  <2>4. CASE UNCHANGED books
    BY <2>1, <2>2, <2>4, BooksKept DEF books
  <2>5. QED
    BY <1>3, <2>3, <2>4 DEF TimerIrq, KernelIrq, UserIrq
<1>4. CASE CallReturns
  <2>1. UNCHANGED <<retired, used, phase>> /\ Account(counter)
    BY <1>4 DEF CallReturns
  <2>2. current' \in used
    BY <1>2, <1>4 DEF CallReturns, GoOnWith
  <2>3. QED
    BY <1>1, <2>1, <2>2, AccountCharges
<1>5. CASE InitScheduler
  <2>1. /\ total' = 0 /\ idleTicks' = 0 /\ runtime' = [t \in Tasks |-> 0]
        /\ UNCHANGED <<current, used, retired>> /\ phase = "setup"
    BY <1>5 DEF InitScheduler, InBoot
  <2>2. retired = 0
    BY <2>1 DEF ChargeInv
  <2>3. PICK r : r = [t \in Tasks |-> 0]
    OBVIOUS
  <2>4. Sum(r, Tasks) = 0
    BY <2>3, TasksFinite, SumOfZeros
  <2>5. Sum(runtime, Tasks)' = 0
    BY <2>1, <2>3, <2>4
  <2>6. runtime' \in [Tasks -> Int] /\ \A t \in Tasks : runtime'[t] = 0
    BY <2>1
  <2>7. QED
    BY <1>2, <2>1, <2>2, <2>5, <2>6 DEF ChargeInv, Tasks
<1>6. CASE SchedulerTest
  <2>1. UNCHANGED <<runtime, retired, idleTicks, used, total>> /\ phase # "running"
    BY <1>6 DEF SchedulerTest, books, InBoot
  <2>2. current' \in used
    BY <1>6 DEF SchedulerTest, GoOnWith
  <2>3. QED
    BY <2>1, <2>2, BooksKept
<1>7. CASE SwitchTask
  <2>1. UNCHANGED <<runtime, retired, idleTicks, used, total, phase>>
    BY <1>7 DEF SwitchTask, books
  <2>2. current' \in used
    BY <1>7 DEF SwitchTask, GoOnWith
  <2>3. QED
    BY <2>1, <2>2, BooksKept
<1>8. CASE BeginProbe \/ Probe \/ StartSource \/ TimeTest
  <2>1. UNCHANGED <<runtime, retired, idleTicks, used, total, current>> /\ phase # "running"
    BY <1>8 DEF BeginProbe, Probe, StartSource, TimeTest, InBoot, KeepTasks, books
  <2>2. QED
    BY <1>2, <2>1, BooksKept
<1>9. CASE \/ TimerFires \/ WakeUp \/ WaitForEdge \/ CallBegins
           \/ BoundReached \/ UNCHANGED vars
  <2>1. UNCHANGED <<runtime, retired, idleTicks, used, total, current, phase>>
    BY <1>9 DEF TimerFires, WakeUp, WaitForEdge, CallBegins, BoundReached, KeepTasks,
                vars, books, boot
  <2>2. QED
    BY <1>2, <2>1, BooksKept
<1>10. ASSUME NEW u \in Users, NewTask(u)
       PROVE  ChargeInv'
  <2>1. /\ phase = "running" /\ u \notin used /\ used' = used \cup {u}
        /\ runtime' = [runtime EXCEPT ![u] = 0]
        /\ UNCHANGED <<total, idleTicks, current, phase, retired>>
    BY <1>10 DEF NewTask, Running, boot
  <2>2. u \in Tasks /\ current # u
    BY <1>2, <2>1 DEF Tasks
  <2>3. runtime[u] = 0 /\ retired \in Int
    BY <2>1, <2>2 DEF ChargeInv
  <2>4. retired' = retired + runtime[u]
    BY <2>1, <2>3
  <2>5. used' \in SUBSET Tasks /\ used \ {u} \subseteq used'
    BY <1>2, <2>1, <2>2
  <2>6. QED
    BY <1>1, <2>1, <2>2, <2>4, <2>5, SlotCleared
<1>11. ASSUME NEW u \in Users, ReleaseTask(u)
       PROVE  ChargeInv'
  <2>1. /\ phase = "running" /\ used' = used \ {u} /\ current # u
        /\ runtime' = [runtime EXCEPT ![u] = 0] /\ retired' = retired + runtime[u]
        /\ UNCHANGED <<total, idleTicks, current, phase>>
    BY <1>11 DEF ReleaseTask, Running, boot
  <2>2. used' \in SUBSET Tasks /\ used \ {u} \subseteq used'
    BY <1>2, <2>1
  <2>3. QED
    BY <1>1, <2>1, <2>2, SlotCleared
<1>12. QED
  BY <1>3, <1>4, <1>5, <1>6, <1>7, <1>8, <1>9, <1>10, <1>11 DEF Next, BootStep

\* Every tick since init_scheduler is on exactly one account: for any number of
\* tasks, created, preempted and released in any order, what
\* scheduler_account_tick wrote adds up to the ticks of the clock, and the
\* count of idle ticks is the idle task's.
THEOREM TicksAddUp == Spec => []EveryTickCharged
<1>1. Init => Inv /\ ChargeInv
  BY ChargeInit DEF Init, Inv
<1>2. Inv /\ ChargeInv /\ [Next]_vars => Inv' /\ ChargeInv'
  BY NextInv, ChargeStep
<1>3. Inv /\ ChargeInv => EveryTickCharged
  BY DEF Inv, ChargeInv, EveryTickCharged, ClockInStep, Sum
<1>4. QED
  BY <1>1, <1>2, <1>3, PTL DEF Spec
=============================================================================
