---------------------------- MODULE HandlesProofs ----------------------------
(***************************************************************************)
(* Proofs about Handles.tla, for every number of tasks, handles and        *)
(* descriptors that its assumptions allow.                                 *)
(*                                                                         *)
(* Inv, the inductive invariant, adds to the properties that the idle task *)
(* keeps its console and the self-test its descriptor. It implies          *)
(* PoolSuffices by counting: every open descriptor but the first Std + 1   *)
(* has a handle of its own among the (MaxTasks - 1) * Fds of the other     *)
(* tasks.                                                                  *)
(***************************************************************************)
EXTENDS Handles, FiniteSetTheorems, FunctionTheorems, TLAPS

BootKept ==
  /\ fds[Idle] = ConsoleFrom(1)
  /\ state[Idle] = "runnable"
  /\ SelfTestLeft \in open

Inv == TypeOK /\ HandlesExact /\ BootKept /\ ~halted

\* The handles of the tasks that make calls.
Callers == Tasks \ {Idle}
CallerHandles == Callers \X Slots

-----------------------------------------------------------------------------
(***************************************************************************)
(* Counting.                                                               *)
(***************************************************************************)

\* How many handles the tasks other than the idle one have, with or without
\* one of them.
LEMMA HandleCount ==
  /\ IsFiniteSet(CallerHandles)
  /\ Cardinality(CallerHandles) = (MaxTasks - 1) * Fds
  /\ \A c \in Callers : /\ IsFiniteSet((Callers \ {c}) \X Slots)
                        /\ Cardinality((Callers \ {c}) \X Slots) = (MaxTasks - 2) * Fds
<1>1. IsFiniteSet(Slots) /\ Cardinality(Slots) = Fds
  BY FS_Interval, HandlesAssumption DEF Slots
<1>2. Callers = 1 .. MaxTasks - 1
  BY HandlesAssumption DEF Callers, Tasks, Idle
<1>3. IsFiniteSet(Callers) /\ Cardinality(Callers) = MaxTasks - 1
  BY <1>2, FS_Interval, HandlesAssumption
<1>4. IsFiniteSet(CallerHandles) /\ Cardinality(CallerHandles) = (MaxTasks - 1) * Fds
  BY <1>1, <1>3, FS_Product DEF CallerHandles
<1>5. ASSUME NEW c \in Callers
      PROVE  /\ IsFiniteSet((Callers \ {c}) \X Slots)
             /\ Cardinality((Callers \ {c}) \X Slots) = (MaxTasks - 2) * Fds
  <2>1. IsFiniteSet(Callers \ {c}) /\ Cardinality(Callers \ {c}) = MaxTasks - 2
    BY <1>3, <1>5, FS_RemoveElement, HandlesAssumption
  <2> QED BY <2>1, <1>1, FS_Product
<1> QED BY <1>4, <1>5

\* If all handles in use lie in U, the open descriptors are at most those and
\* the Std + 1 of the idle task and the self-test; the rest is closed.
LEMMA ClosedCount ==
  ASSUME Inv,
         NEW U \in SUBSET CallerHandles, IsFiniteSet(U),
         \A t \in Callers : \A f \in Slots : fds[t][f] # 0 => <<t, f>> \in U
  PROVE  /\ IsFiniteSet(ClosedDescs)
         /\ Cardinality(ClosedDescs) >= (MaxTasks - 1) * Fds - Cardinality(U)
<1> DEFINE First == 1 .. Std + 1
           X == open \ First
           H == {p \in U : fds[p[1]][p[2]] \in X}
           h == [p \in H |-> fds[p[1]][p[2]]]
<1>1. ASSUME NEW d \in X
      PROVE  \E p \in H : h[p] = d
  <2>1. d \in open \ {SelfTestLeft} /\ d \in Descs /\ d > Std + 1
    BY HandlesAssumption DEF Inv, TypeOK, Descs, SelfTestLeft
  <2>2. PICK t \in Tasks, f \in Slots : fds[t][f] = d
    BY <2>1 DEF Inv, HandlesExact
  <2>3. t # Idle
    BY <2>1, <2>2, HandlesAssumption DEF Inv, BootKept, ConsoleFrom, Slots, Descs
  <2>4. <<t, f>> \in U
    BY <2>1, <2>2, <2>3 DEF Callers, Descs
  <2> QED BY <2>2, <2>4
<1>2. h \in Surjection(H, X)
  BY <1>1 DEF Surjection
<1>3. IsFiniteSet(H) /\ Cardinality(H) <= Cardinality(U)
  BY FS_Subset
<1>4. IsFiniteSet(X) /\ Cardinality(X) <= Cardinality(H)
  BY <1>2, <1>3, FS_Surjection
<1>5. IsFiniteSet(First) /\ Cardinality(First) = Std + 1
  BY FS_Interval, HandlesAssumption
<1>6. /\ IsFiniteSet(First \cup X)
      /\ Cardinality(First \cup X) = Cardinality(First) + Cardinality(X)
  <2>1. First \cap X = {}
    OBVIOUS
  <2>2. Cardinality(First \cap X) = 0
    BY <2>1, FS_EmptySet
  <2>3. Cardinality(First) \in Nat /\ Cardinality(X) \in Nat
    BY <1>4, <1>5, FS_CardinalityType
  <2> HIDE DEF First, X
  <2>4. /\ IsFiniteSet(First \cup X)
        /\ Cardinality(First \cup X) =
             Cardinality(First) + Cardinality(X) - Cardinality(First \cap X)
    BY <1>4, <1>5, FS_Union
  <2> QED BY <2>2, <2>3, <2>4
<1>7. IsFiniteSet(open) /\ Cardinality(open) <= Cardinality(First \cup X)
  <2>1. open \subseteq First \cup X
    OBVIOUS
  <2> HIDE DEF First, X
  <2> QED BY <2>1, <1>6, FS_Subset
<1>8. IsFiniteSet(Descs) /\ Cardinality(Descs) = DescCap
  BY FS_Interval, HandlesAssumption DEF Descs
<1>9. /\ IsFiniteSet(ClosedDescs)
      /\ Cardinality(ClosedDescs) = DescCap - Cardinality(open)
  <2>1. Descs \cap open = open
    BY DEF Inv, TypeOK
  <2> QED BY <2>1, <1>8, FS_Difference DEF ClosedDescs
<1>10. /\ Cardinality(open) \in Nat /\ Cardinality(X) \in Nat
       /\ Cardinality(H) \in Nat /\ Cardinality(U) \in Nat
  BY <1>3, <1>4, <1>7, FS_CardinalityType
<1>11. Cardinality(open) <= Std + 1 + Cardinality(U)
  <2> HIDE DEF First, X, H
  <2> QED BY <1>3, <1>4, <1>5, <1>6, <1>7, <1>10, HandlesAssumption
<1>12. (MaxTasks - 1) * Fds \in Int
  BY HandlesAssumption
<1> QED
  <2> HIDE DEF First, X, H
  <2> QED BY <1>9, <1>10, <1>11, <1>12, HandlesAssumption, RoomAssumption

\* With a free handle, or an empty slot, there are closed descriptors.
LEMMA Room ==
  ASSUME Inv
  PROVE  /\ \A t \in Callers : HasFreeFd(t) => ClosedDescs # {}
         /\ \A c \in Tasks : state[c] = "empty" => Cardinality(ClosedDescs) >= Fds
<1>1. ASSUME NEW t \in Callers, HasFreeFd(t)
      PROVE  ClosedDescs # {}
  <2>1. PICK f \in Slots : fds[t][f] = 0
    BY <1>1 DEF HasFreeFd
  <2> DEFINE U == CallerHandles \ {<<t, f>>}
  <2>2. <<t, f>> \in CallerHandles
    BY DEF CallerHandles
  <2>3. IsFiniteSet(U) /\ Cardinality(U) = (MaxTasks - 1) * Fds - 1
    BY <2>2, HandleCount, FS_RemoveElement
  <2>4. \A s \in Callers : \A g \in Slots : fds[s][g] # 0 => <<s, g>> \in U
    BY <2>1 DEF CallerHandles
  <2>5. U \in SUBSET CallerHandles
    OBVIOUS
  <2>6. /\ IsFiniteSet(ClosedDescs)
        /\ Cardinality(ClosedDescs) >= (MaxTasks - 1) * Fds - Cardinality(U)
    <3> HIDE DEF U
    <3> QED BY <2>3, <2>4, <2>5, ClosedCount
  <2>7. (MaxTasks - 1) * Fds \in Int
    BY HandlesAssumption
  <2>8. Cardinality(ClosedDescs) # 0
    <3> HIDE DEF U
    <3> QED BY <2>3, <2>6, <2>7, FS_CardinalityType
  <2> QED BY <2>8, FS_EmptySet
<1>2. ASSUME NEW c \in Tasks, state[c] = "empty"
      PROVE  Cardinality(ClosedDescs) >= Fds
  <2>1. c \in Callers
    BY <1>2 DEF Callers, Inv, BootKept
  <2> DEFINE U == (Callers \ {c}) \X Slots
  <2>2. IsFiniteSet(U) /\ Cardinality(U) = (MaxTasks - 2) * Fds
    BY <2>1, HandleCount
  <2>3. \A f \in Slots : fds[c][f] = 0
    BY <1>2 DEF Inv, HandlesExact
  <2>4. \A s \in Callers : \A g \in Slots : fds[s][g] # 0 => <<s, g>> \in U
    BY <2>3
  <2>5. U \in SUBSET CallerHandles
    BY DEF CallerHandles
  <2>6. Cardinality(ClosedDescs) >= (MaxTasks - 1) * Fds - Cardinality(U)
    <3> HIDE DEF U
    <3> QED BY <2>2, <2>4, <2>5, ClosedCount
  <2>7. IsFiniteSet(ClosedDescs)
    <3> HIDE DEF U
    <3> QED BY <2>2, <2>4, <2>5, ClosedCount
  <2>8. (MaxTasks - 1) * Fds - (MaxTasks - 2) * Fds = Fds
    BY HandlesAssumption
  <2> QED
    <3> HIDE DEF U
    <3> QED BY <2>2, <2>6, <2>7, <2>8
<1> QED BY <1>1, <1>2

-----------------------------------------------------------------------------
(***************************************************************************)
(* The invariant.                                                          *)
(***************************************************************************)

\* The invariant holds after the self-test and the start of the two kernel tasks.
LEMMA InitInv == Init => Inv
<1> SUFFICES ASSUME Init PROVE Inv
  OBVIOUS
<1> USE HandlesAssumption
<1>1. 2 * Std + 1 <= DescCap
  <2>1. (MaxTasks - 1) * Fds >= Fds
    OBVIOUS
  <2>2. (MaxTasks - 1) * Fds \in Int
    OBVIOUS
  <2> QED BY <2>1, <2>2, RoomAssumption
<1>2. /\ Idle \in Tasks /\ KernelTask \in Tasks /\ Idle # KernelTask
      /\ \A t \in Tasks : \A f \in Slots :
           fds[t][f] = IF t = Idle /\ f < Std THEN 1 + f
                       ELSE IF t = KernelTask /\ f < Std THEN Std + 2 + f ELSE 0
  BY DEF Init, ConsoleFrom, NoFds, Idle, KernelTask, Tasks
<1>3. TypeOK
  <2>1. fds \in [Tasks -> [Slots -> 0 .. DescCap]]
    BY <1>1 DEF Init, ConsoleFrom, NoFds, Slots
  <2>2. open \subseteq Descs
    BY <1>1 DEF Init, Descs
  <2>3. state \in [Tasks -> {"empty", "runnable", "exited"}]
    BY DEF Init
  <2> QED BY <2>1, <2>2, <2>3 DEF TypeOK, Init
<1>4. HandlesExact
  <2>1. ASSUME NEW t \in Tasks, NEW f \in Slots, fds[t][f] # 0
        PROVE  /\ fds[t][f] \in open \ {SelfTestLeft}
               /\ state[t] # "empty"
               /\ \A u \in Tasks : \A g \in Slots : fds[u][g] = fds[t][f] => u = t /\ g = f
    <3>1. t \in {Idle, KernelTask} /\ f \in Nat /\ f < Std
      BY <1>2, <2>1 DEF Slots
    <3>2. fds[t][f] \in open \ {SelfTestLeft}
      BY <1>2, <3>1 DEF Init, SelfTestLeft
    <3>3. state[t] # "empty"
      BY <3>1 DEF Init
    <3>4. ASSUME NEW u \in Tasks, NEW g \in Slots, fds[u][g] = fds[t][f]
          PROVE  u = t /\ g = f
      <4>1. u \in {Idle, KernelTask} /\ g \in Nat /\ g < Std
        BY <1>2, <2>1, <3>4 DEF Slots
      <4> QED BY <1>2, <3>1, <3>4, <4>1
    <3> QED BY <3>2, <3>3, <3>4
  <2>2. ASSUME NEW d \in open \ {SelfTestLeft}
        PROVE  \E t \in Tasks : \E f \in Slots : fds[t][f] = d
    <3>1. d \in 1 .. 2 * Std + 1 /\ d # Std + 1
      BY DEF Init, SelfTestLeft
    <3>2. CASE d <= Std
      <4>1. d - 1 \in Slots /\ fds[Idle][d - 1] = d
        BY <1>2, <3>1, <3>2 DEF Slots
      <4> QED BY <4>1, <1>2
    <3>3. CASE d > Std
      <4>1. d - Std - 2 \in Slots /\ fds[KernelTask][d - Std - 2] = d
        BY <1>2, <3>1, <3>3 DEF Slots
      <4> QED BY <4>1, <1>2
    <3> QED BY <3>1, <3>2, <3>3
  <2> QED BY <2>1, <2>2 DEF HandlesExact
<1>5. BootKept
  <2>1. fds[Idle] = ConsoleFrom(1)
    BY <1>2 DEF Init
  <2>2. state[Idle] = "runnable" /\ SelfTestLeft \in open
    BY <1>2 DEF Init, SelfTestLeft
  <2> QED BY <2>1, <2>2 DEF BootKept
<1> QED BY <1>3, <1>4, <1>5 DEF Inv, Init

\* Every call keeps the invariant.
LEMMA NextInv == Inv /\ [Next]_vars => Inv'
<1> SUFFICES ASSUME Inv, [Next]_vars PROVE Inv'
  OBVIOUS
<1> USE HandlesAssumption
<1>0. Idle \in Tasks /\ Slots \subseteq Nat
  BY DEF Idle, Tasks, Slots
<1>1. ASSUME NEW t \in Tasks, NEW d \in Descs, NEW f \in Slots, Open(t, d, f)
      PROVE  Inv'
  <2>1. TypeOK'
    BY <1>1 DEF Open, Inv, TypeOK, Descs
  <2>2. d \notin open /\ d # 0
    BY <1>1 DEF Open, FirstClosed, ClosedDescs, Descs
  <2>3. \A s \in Tasks : \A g \in Slots :
          fds'[s][g] = IF s = t /\ g = f THEN d ELSE fds[s][g]
    BY <1>1 DEF Open, Inv, TypeOK
  <2>4. fds[t][f] = 0 /\ t # Idle /\ state[t] # "empty"
    BY <1>1 DEF Open, FreeFd, Calls
  <2>5. SelfTestLeft \in open
    BY DEF Inv, BootKept
  <2>6. HandlesExact'
    <3>1. ASSUME NEW s \in Tasks, NEW g \in Slots, fds'[s][g] # 0
          PROVE  /\ fds'[s][g] \in open' \ {SelfTestLeft}
                 /\ state'[s] # "empty"
                 /\ \A u \in Tasks : \A k \in Slots :
                      fds'[u][k] = fds'[s][g] => u = s /\ k = g
      BY <1>1, <2>2, <2>3, <2>4, <2>5, <3>1 DEF Open, Inv, HandlesExact, TypeOK
    <3>2. ASSUME NEW e \in open' \ {SelfTestLeft}
          PROVE  \E s \in Tasks : \E g \in Slots : fds'[s][g] = e
      <4>1. CASE e = d
        BY <4>1, <2>3
      <4>2. CASE e # d
        <5>1. e \in open \ {SelfTestLeft} /\ e # 0
          BY <1>1, <3>2, <4>2 DEF Open, Inv, TypeOK, Descs
        <5>2. PICK s \in Tasks, g \in Slots : fds[s][g] = e
          BY <5>1 DEF Inv, HandlesExact
        <5> QED BY <5>1, <5>2, <2>3, <2>4
      <4> QED BY <4>1, <4>2
    <3> QED BY <3>1, <3>2 DEF HandlesExact
  <2>7. BootKept' /\ ~halted'
    BY <1>1, <2>4, <1>0 DEF Open, Inv, BootKept, TypeOK, ConsoleFrom
  <2> QED BY <2>1, <2>6, <2>7 DEF Inv
<1>2. ASSUME NEW t \in Tasks, NEW d \in Descs, OpenNoHandle(t, d)
      PROVE  Inv'
  <2>1. open' = open
    BY <1>2 DEF OpenNoHandle, OpenUndone, FirstClosed, ClosedDescs
  <2> QED BY <1>2, <2>1 DEF OpenNoHandle, Inv, TypeOK, HandlesExact, BootKept, ConsoleFrom
<1>3. ASSUME NEW t \in Tasks, NEW f \in Slots, Close(t, f)
      PROVE  Inv'
  <2>1. TypeOK'
    <3>1. 0 \in 0 .. DescCap
      OBVIOUS
    <3>2. fds' \in [Tasks -> [Slots -> 0 .. DescCap]]
      BY <1>3, <3>1 DEF Close, HandleCleared, Inv, TypeOK
    <3> QED BY <1>3, <3>2 DEF Close, Inv, TypeOK
  <2>2. \A s \in Tasks : \A g \in Slots :
          fds'[s][g] = IF s = t /\ g = f THEN 0 ELSE fds[s][g]
    BY <1>3 DEF Close, HandleCleared, Inv, TypeOK
  <2>3. t # Idle /\ fds[t][f] # 0
    BY <1>3 DEF Close, Calls
  <2>4. HandlesExact'
    <3>1. ASSUME NEW s \in Tasks, NEW g \in Slots, fds'[s][g] # 0
          PROVE  /\ fds'[s][g] \in open' \ {SelfTestLeft}
                 /\ state'[s] # "empty"
                 /\ \A u \in Tasks : \A k \in Slots :
                      fds'[u][k] = fds'[s][g] => u = s /\ k = g
      BY <1>3, <2>2, <2>3, <3>1 DEF Close, Inv, HandlesExact, TypeOK
    <3>2. ASSUME NEW e \in open' \ {SelfTestLeft}
          PROVE  \E s \in Tasks : \E g \in Slots : fds'[s][g] = e
      <4>1. e \in open \ {SelfTestLeft} /\ e # fds[t][f]
        BY <1>3, <3>2 DEF Close
      <4>2. PICK s \in Tasks, g \in Slots : fds[s][g] = e
        BY <4>1 DEF Inv, HandlesExact
      <4> QED BY <4>1, <4>2, <2>2
    <3> QED BY <3>1, <3>2 DEF HandlesExact
  <2>5. BootKept' /\ ~halted'
    <3>1. fds[t][f] # SelfTestLeft
      BY <2>3 DEF Inv, HandlesExact
    <3>2. fds'[Idle] = fds[Idle]
      BY <1>3, <2>3, <1>0 DEF Close, HandleCleared, Inv, TypeOK
    <3> QED BY <1>3, <3>1, <3>2 DEF Close, Inv, BootKept, ConsoleFrom
  <2> QED BY <2>1, <2>4, <2>5 DEF Inv
<1>4. ASSUME NEW t \in Tasks, NEW c \in Tasks, Spawn(t, c)
      PROVE  Inv'
  <2>1. state[c] = "empty" /\ c # Idle
    BY <1>4 DEF Spawn, Inv, BootKept
  <2>2. ~(Cardinality(ClosedDescs) < Std)
    <3>1. Cardinality(ClosedDescs) >= Fds
      BY <2>1, Room
    <3>2. IsFiniteSet(ClosedDescs)
      <4>1. IsFiniteSet(Descs)
        BY FS_Interval DEF Descs
      <4> QED BY <4>1, FS_Difference DEF ClosedDescs
    <3> QED BY <3>1, <3>2, FS_CardinalityType
  <2>3. PICK g \in [0 .. Std - 1 -> ClosedDescs] :
          /\ FirstStd(g)
          /\ open' = open \cup {g[i] : i \in 0 .. Std - 1}
          /\ fds' = [fds EXCEPT ![c] = [f \in Slots |-> IF f < Std THEN g[f] ELSE 0]]
    BY <1>4, <2>2 DEF Spawn
  <2>4. state' = [state EXCEPT ![c] = "runnable"] /\ halted' = halted
    BY <1>4, <2>2 DEF Spawn
  <2>5. \A i \in 0 .. Std - 1 : g[i] \in Descs /\ g[i] \notin open /\ g[i] # 0
    BY DEF ClosedDescs, Descs
  <2>6. \A i, j \in 0 .. Std - 1 : g[i] = g[j] => i = j
    <3>1. \A i \in 0 .. Std - 1 : g[i] \in Nat
      BY <2>5 DEF Descs
    <3> QED BY <2>3, <3>1 DEF FirstStd
  <2>7. TypeOK'
    <3>1. [f \in Slots |-> IF f < Std THEN g[f] ELSE 0] \in [Slots -> 0 .. DescCap]
      BY <2>5 DEF Slots, Descs
    <3> QED BY <2>3, <2>4, <2>5, <3>1 DEF Inv, TypeOK
  <2>8. \A s \in Tasks : \A f \in Slots :
          fds'[s][f] = IF s = c THEN (IF f < Std THEN g[f] ELSE 0) ELSE fds[s][f]
    BY <2>3 DEF Inv, TypeOK
  <2>9. \A f \in Slots : fds[c][f] = 0
    BY <2>1 DEF Inv, HandlesExact
  <2>10. \A f \in Slots : f < Std => f \in 0 .. Std - 1
    BY DEF Slots
  <2>11. SelfTestLeft \in open
    BY DEF Inv, BootKept
  <2>12. HandlesExact'
    <3>1. ASSUME NEW s \in Tasks, NEW f \in Slots, fds'[s][f] # 0
          PROVE  /\ fds'[s][f] \in open' \ {SelfTestLeft}
                 /\ state'[s] # "empty"
                 /\ \A u \in Tasks : \A k \in Slots :
                      fds'[u][k] = fds'[s][f] => u = s /\ k = f
      <4>1. CASE s = c
        BY <4>1, <3>1, <2>3, <2>4, <2>5, <2>6, <2>8, <2>10, <2>11 DEF Inv, HandlesExact, TypeOK
      <4>2. CASE s # c
        BY <4>2, <3>1, <2>3, <2>4, <2>5, <2>8, <2>10, <2>11 DEF Inv, HandlesExact, TypeOK
      <4> QED BY <4>1, <4>2
    <3>2. ASSUME NEW e \in open' \ {SelfTestLeft}
          PROVE  \E s \in Tasks : \E f \in Slots : fds'[s][f] = e
      <4>1. CASE e \in open
        <5>1. PICK s \in Tasks, f \in Slots : fds[s][f] = e
          BY <4>1, <3>2 DEF Inv, HandlesExact
        <5>2. e # 0
          BY <4>1 DEF Inv, TypeOK, Descs
        <5> QED BY <5>1, <5>2, <2>8, <2>9
      <4>2. CASE e \notin open
        <5>1. PICK i \in 0 .. Std - 1 : e = g[i]
          BY <4>2, <3>2, <2>3
        <5>2. i \in Slots /\ i < Std
          BY DEF Slots
        <5> QED BY <5>1, <5>2, <2>8
      <4> QED BY <4>1, <4>2
    <3> QED BY <3>1, <3>2 DEF HandlesExact
  <2>13. BootKept' /\ ~halted'
    BY <2>1, <2>3, <2>4, <1>0 DEF Inv, BootKept, TypeOK, ConsoleFrom
  <2> QED BY <2>7, <2>12, <2>13 DEF Inv
<1>5. ASSUME NEW t \in Tasks, NEW c \in Tasks, Collect(t, c)
      PROVE  Inv'
  <2>1. state[c] = "exited" /\ c # Idle
    BY <1>5 DEF Collect, Inv, BootKept
  <2>2. \A s \in Tasks : \A f \in Slots : fds'[s][f] = IF s = c THEN 0 ELSE fds[s][f]
    BY <1>5 DEF Collect, NoFds, Inv, TypeOK
  <2>3. TypeOK'
    <3>1. NoFds \in [Slots -> 0 .. DescCap]
      BY DEF NoFds
    <3> QED BY <1>5, <3>1 DEF Collect, Inv, TypeOK
  <2>4. HandlesExact'
    <3>1. ASSUME NEW s \in Tasks, NEW f \in Slots, fds'[s][f] # 0
          PROVE  /\ fds'[s][f] \in open' \ {SelfTestLeft}
                 /\ state'[s] # "empty"
                 /\ \A u \in Tasks : \A k \in Slots :
                      fds'[u][k] = fds'[s][f] => u = s /\ k = f
      <4>1. s # c /\ fds'[s][f] = fds[s][f] /\ fds[s][f] # 0
        BY <2>2, <3>1
      <4>2. fds[s][f] \notin Releases(c)
        BY <4>1 DEF Releases, Inv, HandlesExact
      <4> QED BY <1>5, <2>2, <4>1, <4>2 DEF Collect, Inv, HandlesExact, TypeOK
    <3>2. ASSUME NEW e \in open' \ {SelfTestLeft}
          PROVE  \E s \in Tasks : \E f \in Slots : fds'[s][f] = e
      <4>1. e \in open \ {SelfTestLeft} /\ e \notin Releases(c)
        BY <1>5, <3>2 DEF Collect
      <4>2. PICK s \in Tasks, f \in Slots : fds[s][f] = e
        BY <4>1 DEF Inv, HandlesExact
      <4>3. s # c
        BY <4>1, <4>2 DEF Releases
      <4> QED BY <4>2, <4>3, <2>2
    <3> QED BY <3>1, <3>2 DEF HandlesExact
  <2>5. BootKept' /\ ~halted'
    <3>1. SelfTestLeft \notin Releases(c)
      <4>1. SelfTestLeft # 0
        BY DEF SelfTestLeft
      <4> QED BY <4>1 DEF Releases, Inv, HandlesExact
    <3>2. fds'[Idle] = fds[Idle] /\ state'[Idle] = state[Idle]
      BY <1>5, <2>1, <1>0 DEF Collect, Inv, TypeOK
    <3> QED BY <1>5, <3>1, <3>2 DEF Collect, Inv, BootKept, ConsoleFrom
  <2> QED BY <2>3, <2>4, <2>5 DEF Inv
<1>6. ASSUME NEW t \in Tasks, Exit(t)
      PROVE  Inv'
  <2>1. t # Idle
    BY <1>6 DEF Exit, Calls
  <2> QED BY <1>6, <2>1, <1>0 DEF Exit, Inv, TypeOK, HandlesExact, BootKept, ConsoleFrom
<1>7. CASE UNCHANGED vars
  BY <1>7 DEF vars, Inv, TypeOK, HandlesExact, BootKept, ConsoleFrom
<1> QED BY <1>1, <1>2, <1>3, <1>4, <1>5, <1>6, <1>7 DEF Next

\* The inductive invariant holds in every state.
THEOREM Invariance == Spec => []Inv
BY InitInv, NextInv, PTL DEF Spec

-----------------------------------------------------------------------------
\* The handle tables hold descriptors, whatever tasks do.
THEOREM TypeCorrect == Spec => []TypeOK
<1>1. Inv => TypeOK
  BY DEF Inv
<1> QED BY <1>1, Invariance, PTL

\* Handles and open descriptors correspond one to one: open, close, spawn and
\* waitpid neither leak nor share a descriptor.
THEOREM HandlesAreExact == Spec => []HandlesExact
<1>1. Inv => HandlesExact
  BY DEF Inv
<1> QED BY <1>1, Invariance, PTL

\* The shared descriptor table is never the reason that an open or a spawn
\* fails, if it is as large as RoomAssumption says, which it is in the code.
THEOREM PoolIsEnough == Spec => []PoolSuffices
<1>1. Inv => PoolSuffices
  BY Room DEF PoolSuffices, Callers, Inv
<1> QED BY <1>1, Invariance, PTL
=============================================================================
