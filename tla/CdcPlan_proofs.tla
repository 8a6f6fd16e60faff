---------------------------- MODULE CdcPlan_proofs ----------------------------
(***************************************************************************)
(* The write plan, for any keys, changes and knobs: what the passes of the *)
(* knobs make of one key's assignment of changes to checkpoints, and the   *)
(* invariant of the stream and the plan (PlanOK).                          *)
(***************************************************************************)
EXTENDS CdcPlan, LayoutLemmas, SequenceTheorems

-----------------------------------------------------------------------------
\* The passes of the knobs.

\* Assignments of n changes to checkpoints.
Assignments(n) == [1..n -> Nat \ {0}]

\* One step of the out-of-order pass, and of the schema flush.
SwapStep(n, swaps, j) ==
    [a \in Assignments(n) |-> IF j \notin swaps THEN a
                              ELSE [a EXCEPT ![j] = a[j + 1], ![j + 1] = a[j]]]
FlushStep(n, flushes, j) ==
    [a \in Assignments(n) |-> IF j \notin flushes THEN a ELSE [a EXCEPT ![j + 1] = a[j]]]

SwapPasses(n, cks, swaps, f) ==
    /\ f \in [0..n -> Assignments(n)] /\ f[0] = cks /\ Swapped(cks, swaps) = f[n]
    /\ \A j \in 1..n : f[j] = IF j \notin swaps THEN f[j - 1]
                              ELSE [f[j - 1] EXCEPT ![j] = f[j - 1][j + 1], ![j + 1] = f[j - 1][j]]

\* The out-of-order pass, step by step.
LEMMA SwappedIs ==
    ASSUME NEW n \in Nat, NEW cks \in Assignments(n), Len(cks) = n,
           NEW swaps, swaps \subseteq 1..Pairs(n)
    PROVE  \E f : SwapPasses(n, cks, swaps, f)
<1> DEFINE A == Assignments(n)
           body(p) == [j \in 0..n |-> IF j = 0 THEN cks
                                      ELSE IF j \notin swaps THEN p[j - 1]
                                      ELSE [p[j - 1] EXCEPT ![j] = p[j - 1][j + 1], ![j + 1] = p[j - 1][j]]]
           step == [j \in 1..n |-> SwapStep(n, swaps, j)]
<1>1. step \in [1..n -> [A -> A]]
  <2> SUFFICES ASSUME NEW j \in 1..n, NEW a \in A, j \in swaps
               PROVE  [a EXCEPT ![j] = a[j + 1], ![j + 1] = a[j]] \in A
    BY DEF SwapStep
  <2>1. j \in 1..n /\ j + 1 \in 1..n BY DEF Pairs
  <2> QED BY <2>1 DEF Assignments
<1>2. PICK f \in [0..n -> A] : f[0] = cks /\ \A j \in 1..n : f[j] = step[j][f[j - 1]]
  <2> HIDE DEF A, step
  <2>1. PICK f \in [0..n -> A] : IsPass(f, n, cks, step) BY <1>1, Pass DEF A
  <2> QED BY <2>1 DEF IsPass, A
<1>3. \A j \in 1..n : f[j] = IF j \notin swaps THEN f[j - 1]
                             ELSE [f[j - 1] EXCEPT ![j] = f[j - 1][j + 1], ![j + 1] = f[j - 1][j]]
  <2> SUFFICES ASSUME NEW j \in 1..n
               PROVE  f[j] = IF j \notin swaps THEN f[j - 1]
                             ELSE [f[j - 1] EXCEPT ![j] = f[j - 1][j + 1], ![j + 1] = f[j - 1][j]]
    OBVIOUS
  <2>1. f[j - 1] \in A OBVIOUS
  <2>2. f[j] = SwapStep(n, swaps, j)[f[j - 1]] BY <1>2
  <2> HIDE DEF A
  <2> QED BY <2>1, <2>2 DEF SwapStep, A
<1>4. f = body(f)
  <2>1. ASSUME NEW j \in 0..n PROVE f[j] = body(f)[j]
    <3>1. CASE j = 0 BY <3>1, <1>2
    <3>2. CASE j # 0
      <4>1. j \in 1..n BY <3>2
      <4> QED BY <4>1, <3>2, <1>3
    <3> QED BY <3>1, <3>2
  <2>2. f = [j \in 0..n |-> f[j]] OBVIOUS
  <2>3. body(f) = [j \in 0..n |-> body(f)[j]] OBVIOUS
  <2> HIDE DEF body
  <2> QED BY <2>1, <2>2, <2>3
<1>5. \A p : p = body(p) => p = f
  <2> SUFFICES ASSUME NEW p, p = body(p) PROVE p = f OBVIOUS
  <2> DEFINE T == {j \in 0..n : p[j] = f[j]}
  <2>1. \A j \in 0..n : p[j] = body(p)[j] BY p = body(p)
  <2>2. 0 \in T BY <1>2, <2>1
  <2>3. ASSUME NEW j \in 1..n, j - 1 \in T PROVE j \in T
    <3>1. p[j - 1] = f[j - 1] BY <2>3
    <3>2. p[j] = IF j \notin swaps THEN p[j - 1]
                 ELSE [p[j - 1] EXCEPT ![j] = p[j - 1][j + 1], ![j + 1] = p[j - 1][j]]
      <4>1. j \in 0..n /\ j # 0 OBVIOUS
      <4>2. p[j] = body(p)[j] BY <2>1, <4>1
      <4> QED BY <4>1, <4>2
    <3>3. p[j] = f[j] BY <1>3, <3>1, <3>2
    <3> QED BY <3>3
  <2>4. 0..n \subseteq T
    <3> HIDE DEF T
    <3> QED BY <2>2, <2>3, UpTo
  <2>5. p = [j \in 0..n |-> p[j]]
    <3>1. body(p) = [j \in 0..n |-> body(p)[j]] OBVIOUS
    <3> HIDE DEF body
    <3> QED BY <3>1
  <2>6. \A j \in 0..n : p[j] = f[j] BY <2>4
  <2>7. f = [j \in 0..n |-> f[j]] OBVIOUS
  <2> HIDE DEF body
  <2> QED BY <2>5, <2>6, <2>7
<1>6. Swapped(cks, swaps) = (CHOOSE p : p = body(p))[n]
  BY DEF Swapped
<1>7. (CHOOSE p : p = body(p)) = f
  <2> HIDE DEF body
  <2> QED BY <1>4, <1>5
<1> HIDE DEF body, step
<1>8. Swapped(cks, swaps) = f[n] BY <1>6, <1>7
<1>9. f \in [0..n -> Assignments(n)] /\ f[0] = cks BY <1>2
<1> QED BY <1>3, <1>8, <1>9 DEF SwapPasses

FlushPasses(n, cks, flushes, f) ==
    /\ f \in [0..n -> Assignments(n)] /\ f[0] = cks /\ Flushed(cks, flushes) = f[n]
    /\ \A j \in 1..n : f[j] = IF j \notin flushes THEN f[j - 1]
                              ELSE [f[j - 1] EXCEPT ![j + 1] = f[j - 1][j]]

\* The schema flush, step by step.
LEMMA FlushedIs ==
    ASSUME NEW n \in Nat, NEW cks \in Assignments(n), Len(cks) = n,
           NEW flushes, flushes \subseteq 1..Pairs(n)
    PROVE  \E f : FlushPasses(n, cks, flushes, f)
<1> DEFINE A == Assignments(n)
           body(p) == [j \in 0..n |-> IF j = 0 THEN cks
                                      ELSE IF j \notin flushes THEN p[j - 1]
                                      ELSE [p[j - 1] EXCEPT ![j + 1] = p[j - 1][j]]]
           step == [j \in 1..n |-> FlushStep(n, flushes, j)]
<1>1. step \in [1..n -> [A -> A]]
  <2> SUFFICES ASSUME NEW j \in 1..n, NEW a \in A, j \in flushes
               PROVE  [a EXCEPT ![j + 1] = a[j]] \in A
    BY DEF FlushStep
  <2>1. j \in 1..n /\ j + 1 \in 1..n BY DEF Pairs
  <2> QED BY <2>1 DEF Assignments
<1>2. PICK f \in [0..n -> A] : f[0] = cks /\ \A j \in 1..n : f[j] = step[j][f[j - 1]]
  <2> HIDE DEF A, step
  <2>1. PICK f \in [0..n -> A] : IsPass(f, n, cks, step) BY <1>1, Pass DEF A
  <2> QED BY <2>1 DEF IsPass, A
<1>3. \A j \in 1..n : f[j] = IF j \notin flushes THEN f[j - 1]
                             ELSE [f[j - 1] EXCEPT ![j + 1] = f[j - 1][j]]
  <2> SUFFICES ASSUME NEW j \in 1..n
               PROVE  f[j] = IF j \notin flushes THEN f[j - 1]
                             ELSE [f[j - 1] EXCEPT ![j + 1] = f[j - 1][j]]
    OBVIOUS
  <2>1. f[j - 1] \in A OBVIOUS
  <2>2. f[j] = FlushStep(n, flushes, j)[f[j - 1]] BY <1>2
  <2> HIDE DEF A
  <2> QED BY <2>1, <2>2 DEF FlushStep, A
<1>4. f = body(f)
  <2>1. ASSUME NEW j \in 0..n PROVE f[j] = body(f)[j]
    <3>1. CASE j = 0 BY <3>1, <1>2
    <3>2. CASE j # 0
      <4>1. j \in 1..n BY <3>2
      <4> QED BY <4>1, <3>2, <1>3
    <3> QED BY <3>1, <3>2
  <2>2. f = [j \in 0..n |-> f[j]] OBVIOUS
  <2>3. body(f) = [j \in 0..n |-> body(f)[j]] OBVIOUS
  <2> HIDE DEF body
  <2> QED BY <2>1, <2>2, <2>3
<1>5. \A p : p = body(p) => p = f
  <2> SUFFICES ASSUME NEW p, p = body(p) PROVE p = f OBVIOUS
  <2> DEFINE T == {j \in 0..n : p[j] = f[j]}
  <2>1. \A j \in 0..n : p[j] = body(p)[j] BY p = body(p)
  <2>2. 0 \in T BY <1>2, <2>1
  <2>3. ASSUME NEW j \in 1..n, j - 1 \in T PROVE j \in T
    <3>1. p[j - 1] = f[j - 1] BY <2>3
    <3>2. p[j] = IF j \notin flushes THEN p[j - 1]
                 ELSE [p[j - 1] EXCEPT ![j + 1] = p[j - 1][j]]
      <4>1. j \in 0..n /\ j # 0 OBVIOUS
      <4>2. p[j] = body(p)[j] BY <2>1, <4>1
      <4> QED BY <4>1, <4>2
    <3>3. p[j] = f[j] BY <1>3, <3>1, <3>2
    <3> QED BY <3>3
  <2>4. 0..n \subseteq T
    <3> HIDE DEF T
    <3> QED BY <2>2, <2>3, UpTo
  <2>5. p = [j \in 0..n |-> p[j]]
    <3>1. body(p) = [j \in 0..n |-> body(p)[j]] OBVIOUS
    <3> HIDE DEF body
    <3> QED BY <3>1
  <2>6. \A j \in 0..n : p[j] = f[j] BY <2>4
  <2>7. f = [j \in 0..n |-> f[j]] OBVIOUS
  <2> HIDE DEF body
  <2> QED BY <2>5, <2>6, <2>7
<1>6. Flushed(cks, flushes) = (CHOOSE p : p = body(p))[n]
  BY DEF Flushed
<1>7. (CHOOSE p : p = body(p)) = f
  <2> HIDE DEF body
  <2> QED BY <1>4, <1>5
<1> HIDE DEF body, step
<1>8. Flushed(cks, flushes) = f[n] BY <1>6, <1>7
<1>9. f \in [0..n -> Assignments(n)] /\ f[0] = cks BY <1>2
<1> QED BY <1>3, <1>8, <1>9 DEF FlushPasses

-----------------------------------------------------------------------------
\* What the passes preserve.

Monotone(n, a) == \A i, j \in 1..n : i <= j => a[i] <= a[j]

Injective(n, a) == \A i, j \in 1..n : a[i] = a[j] => i = j

\* The last checkpoint used is that of one of the last two changes.
Late(n, a) == \A j \in 1..n : j < n - 1 => a[j] < a[n] \/ a[j] < a[n - 1]

\* A function on an interval is a sequence of its length.
LEMMA FunctionLen ==
    ASSUME NEW n \in Nat, NEW S, NEW a \in [1..n -> S]
    PROVE  a \in Seq(S) /\ Len(a) = n
<1>1. a \in Seq(S) OBVIOUS
<1>2. DOMAIN a = 1..Len(a) /\ Len(a) \in Nat BY <1>1, LenProperties
<1>3. \A i : i \in 1..n <=> i \in 1..Len(a) BY <1>2
<1> DEFINE m == Len(a)
<1> HIDE DEF m
<1>4. m \in Nat /\ \A i : i \in 1..n <=> i \in 1..m BY <1>2, <1>3 DEF m
<1>5. ~(m < n)
  <2> SUFFICES ASSUME m < n PROVE FALSE OBVIOUS
  <2>1. n \in 1..n /\ n \notin 1..m BY <1>4
  <2> QED BY <1>4, <2>1
<1>6. ~(n < m)
  <2> SUFFICES ASSUME n < m PROVE FALSE OBVIOUS
  <2>1. m \in 1..m /\ m \notin 1..n BY <1>4
  <2> QED BY <1>4, <2>1
<1>7. m = n BY <1>4, <1>5, <1>6
<1> QED BY <1>1, <1>7 DEF m

\* An assignment is a sequence of its length.
LEMMA AssignmentLen ==
    ASSUME NEW n \in Nat, NEW a \in Assignments(n)
    PROVE  a \in Seq(Nat \ {0}) /\ Len(a) = n
BY FunctionLen DEF Assignments

\* The clean assignment: each change in a checkpoint of its own, in order.
LEMMA CleanShape ==
    ASSUME NEW n \in Nat
    PROVE  /\ CleanAssign(n) \in Assignments(n)
           /\ Monotone(n, CleanAssign(n)) /\ Injective(n, CleanAssign(n))
BY DEF CleanAssign, Assignments, Monotone, Injective

\* Changes that trade checkpoints stay in checkpoints of their own.
LEMMA SwappedShape ==
    ASSUME NEW n \in Nat, NEW cks \in Assignments(n), NEW swaps, swaps \subseteq 1..Pairs(n)
    PROVE  /\ Swapped(cks, swaps) \in Assignments(n)
           /\ Injective(n, cks) => Injective(n, Swapped(cks, swaps))
           /\ swaps = {} => Swapped(cks, swaps) = cks
<1>0. PICK f : SwapPasses(n, cks, swaps, f) BY AssignmentLen, SwappedIs
<1>1. /\ f \in [0..n -> Assignments(n)] /\ f[0] = cks /\ Swapped(cks, swaps) = f[n]
      /\ \A j \in 1..n : f[j] = IF j \notin swaps THEN f[j - 1]
                                ELSE [f[j - 1] EXCEPT ![j] = f[j - 1][j + 1], ![j + 1] = f[j - 1][j]]
  BY <1>0 DEF SwapPasses
<1>2. ASSUME Injective(n, cks) PROVE Injective(n, f[n])
  <2> DEFINE T == {j \in 0..n : Injective(n, f[j])}
  <2>1. 0 \in T BY <1>1, <1>2
  <2>2. ASSUME NEW j \in 1..n, j - 1 \in T PROVE j \in T
    <3> SUFFICES Injective(n, f[j]) OBVIOUS
    <3>1. CASE j \notin swaps BY <1>1, <2>2, <3>1
    <3>2. CASE j \in swaps
      <4> DEFINE a == f[j - 1]
      <4>1. a \in [1..n -> Nat \ {0}] BY <1>1 DEF Assignments
      <4>2. j + 1 \in 1..n BY <3>2 DEF Pairs
      <4>3. f[j] = [a EXCEPT ![j] = a[j + 1], ![j + 1] = a[j]] BY <1>1, <3>2
      <4>4. Injective(n, a) BY <2>2
      <4> HIDE DEF a
      <4> QED BY <4>1, <4>2, <4>3, <4>4 DEF Injective
    <3> QED BY <3>1, <3>2
  <2>3. 0..n \subseteq T
    <3> HIDE DEF T
    <3> QED BY <2>1, <2>2, UpTo
  <2> QED BY <2>3
<1>3. ASSUME swaps = {} PROVE f[n] = cks
  <2> DEFINE T == {j \in 0..n : f[j] = cks}
  <2>1. 0 \in T BY <1>1
  <2>2. \A j \in 1..n : j - 1 \in T => j \in T BY <1>1, <1>3
  <2>3. 0..n \subseteq T
    <3> HIDE DEF T
    <3> QED BY <2>1, <2>2, UpTo
  <2> QED BY <2>3
<1> QED BY <1>1, <1>2, <1>3

\* The pass leaves the last checkpoint to one of the last two changes: step j leaves
\* checkpoint j + 1 to change j or j + 1, and the changes before them below it.
LEMMA SwappedLate ==
    ASSUME NEW n \in Nat, NEW swaps, swaps \subseteq 1..Pairs(n)
    PROVE  Late(n, Swapped(CleanAssign(n), swaps))
<1>1. CASE n < 2 BY <1>1 DEF Late
<1>2. CASE n >= 2
  <2>0. /\ CleanAssign(n) \in Assignments(n) /\ \A i \in 1..n : CleanAssign(n)[i] = i
    BY CleanShape DEF CleanAssign
  <2>1. PICK f : SwapPasses(n, CleanAssign(n), swaps, f) BY <2>0, AssignmentLen, SwappedIs
  <2>2. /\ f \in [0..n -> Assignments(n)] /\ f[0] = CleanAssign(n)
        /\ Swapped(CleanAssign(n), swaps) = f[n]
        /\ \A j \in 1..n : f[j] = IF j \notin swaps THEN f[j - 1]
                                  ELSE [f[j - 1] EXCEPT ![j] = f[j - 1][j + 1], ![j + 1] = f[j - 1][j]]
    BY <2>1 DEF SwapPasses
  <2> DEFINE Untouched(j) == \A i \in 1..n : i > j + 1 => f[j][i] = i
             Below(j) == \A i \in 1..n : i <= j + 1 => f[j][i] <= j + 1
             Lower(j) == \A i \in 1..n : i < j => f[j][i] <= j
             Found(j) == (j # 0 /\ f[j][j] = j + 1) \/ f[j][j + 1] = j + 1
             T == {j \in 0..n - 1 : Untouched(j) /\ Below(j) /\ Lower(j) /\ Found(j)}
  <2>3. 0 \in T BY <1>2, <2>0, <2>2
  <2>4. ASSUME NEW j \in 1..n - 1, j - 1 \in T PROVE j \in T
    <3> DEFINE a == f[j - 1]
    <3>1. a \in [1..n -> Nat \ {0}] BY <2>2 DEF Assignments
    <3>2. j \in 1..n /\ j + 1 \in 1..n OBVIOUS
    <3>3. (\A i \in 1..n : i > j => a[i] = i) /\ (\A i \in 1..n : i <= j => a[i] <= j)
      BY <2>4
    <3>4. CASE j \notin swaps
      <4>1. f[j] = a BY <2>2, <3>2, <3>4
      <4> HIDE DEF a
      <4>2. Untouched(j) /\ Lower(j) BY <3>3, <4>1
      <4>3. f[j][j + 1] = j + 1 BY <3>2, <3>3, <4>1
      <4>4. Below(j)
        <5> SUFFICES ASSUME NEW i \in 1..n, i <= j + 1 PROVE a[i] <= j + 1 BY <4>1
        <5>1. CASE i <= j BY <3>1, <3>3, <5>1
        <5>2. CASE i = j + 1 BY <3>3, <5>2
        <5> QED BY <5>1, <5>2
      <4> QED BY <4>2, <4>3, <4>4
    <3>5. CASE j \in swaps
      <4>1. f[j] = [a EXCEPT ![j] = a[j + 1], ![j + 1] = a[j]] BY <2>2, <3>2, <3>5
      <4> HIDE DEF a
      <4>2. /\ f[j][j] = a[j + 1] /\ f[j][j + 1] = a[j]
            /\ \A i \in 1..n : i # j /\ i # j + 1 => f[j][i] = a[i]
        BY <3>1, <3>2, <4>1
      <4>3. f[j][j] = j + 1 /\ f[j][j + 1] <= j /\ f[j][j + 1] \in Nat BY <3>1, <3>2, <3>3, <4>2
      <4>4. Untouched(j) /\ Lower(j) BY <3>3, <4>2
      <4>5. Below(j)
        <5> SUFFICES ASSUME NEW i \in 1..n, i <= j + 1 PROVE f[j][i] <= j + 1 OBVIOUS
        <5>1. CASE i = j \/ i = j + 1 BY <4>3, <5>1
        <5>2. CASE i # j /\ i # j + 1
          <6>1. f[j][i] = a[i] /\ a[i] <= j /\ a[i] \in Nat BY <3>1, <3>3, <4>2, <5>2
          <6> QED BY <6>1
        <5> QED BY <5>1, <5>2
      <4> QED BY <4>3, <4>4, <4>5
    <3> QED BY <3>4, <3>5
  <2>5. 0..n - 1 \subseteq T
    <3>1. n - 1 \in Nat BY <1>2
    <3> HIDE DEF T
    <3> QED BY <2>3, <2>4, <3>1, UpTo
  <2>6. n - 1 \in T BY <1>2, <2>5
  <2>7. f[n] = f[n - 1]
    <3>1. Pairs(n) = n - 1 /\ n \notin 1..n - 1 /\ n \in 1..n BY <1>2 DEF Pairs
    <3>2. n \notin swaps BY <3>1
    <3>3. f[n] = IF n \notin swaps THEN f[n - 1]
                 ELSE [f[n - 1] EXCEPT ![n] = f[n - 1][n + 1], ![n + 1] = f[n - 1][n]]
      BY <2>2, <3>1
    <3> QED BY <3>2, <3>3
  <2>8. f[n] \in [1..n -> Nat \ {0}] BY <2>2 DEF Assignments
  <2>9. /\ \A i \in 1..n : i < n - 1 => f[n][i] <= n - 1
        /\ f[n][n - 1] = n \/ f[n][n] = n
    BY <1>2, <2>6, <2>7
  <2>10. Late(n, f[n])
    <3> SUFFICES ASSUME NEW j \in 1..n, j < n - 1 PROVE f[n][j] < f[n][n] \/ f[n][j] < f[n][n - 1]
      BY DEF Late
    <3>1. f[n][j] \in Nat /\ f[n][j] <= n - 1 BY <2>8, <2>9
    <3> QED BY <2>9, <3>1
  <2> QED BY <2>2, <2>10
<1> QED BY <1>1, <1>2

\* Changes flushed into the checkpoint before stay in order.
LEMMA FlushedShape ==
    ASSUME NEW n \in Nat, NEW cks \in Assignments(n), NEW flushes, flushes \subseteq 1..Pairs(n)
    PROVE  /\ Flushed(cks, flushes) \in Assignments(n)
           /\ Monotone(n, cks) => Monotone(n, Flushed(cks, flushes))
           /\ flushes = {} => Flushed(cks, flushes) = cks
<1>0. PICK f : FlushPasses(n, cks, flushes, f) BY AssignmentLen, FlushedIs
<1>1. /\ f \in [0..n -> Assignments(n)] /\ f[0] = cks /\ Flushed(cks, flushes) = f[n]
      /\ \A j \in 1..n : f[j] = IF j \notin flushes THEN f[j - 1]
                                ELSE [f[j - 1] EXCEPT ![j + 1] = f[j - 1][j]]
  BY <1>0 DEF FlushPasses
<1>2. ASSUME Monotone(n, cks) PROVE Monotone(n, f[n])
  <2> DEFINE T == {j \in 0..n : Monotone(n, f[j])}
  <2>1. 0 \in T BY <1>1, <1>2
  <2>2. ASSUME NEW j \in 1..n, j - 1 \in T PROVE j \in T
    <3> SUFFICES Monotone(n, f[j]) OBVIOUS
    <3>1. CASE j \notin flushes BY <1>1, <2>2, <3>1
    <3>2. CASE j \in flushes
      <4> DEFINE a == f[j - 1]
      <4>1. a \in [1..n -> Nat \ {0}] BY <1>1 DEF Assignments
      <4>2. j + 1 \in 1..n BY <3>2 DEF Pairs
      <4>3. f[j] = [a EXCEPT ![j + 1] = a[j]] BY <1>1, <3>2
      <4>4. Monotone(n, a) BY <2>2
      <4> HIDE DEF a
      <4> QED BY <4>1, <4>2, <4>3, <4>4 DEF Monotone
    <3> QED BY <3>1, <3>2
  <2>3. 0..n \subseteq T
    <3> HIDE DEF T
    <3> QED BY <2>1, <2>2, UpTo
  <2> QED BY <2>3
<1>3. ASSUME flushes = {} PROVE f[n] = cks
  <2> DEFINE T == {j \in 0..n : f[j] = cks}
  <2>1. 0 \in T BY <1>1
  <2>2. \A j \in 1..n : j - 1 \in T => j \in T BY <1>1, <1>3
  <2>3. 0..n \subseteq T
    <3> HIDE DEF T
    <3> QED BY <2>1, <2>2, UpTo
  <2> QED BY <2>3
<1> QED BY <1>1, <1>2, <1>3

\* Levels of checkpoints merged: still in order, and unchanged when nothing is merged.
LEMMA CoarsenedShape ==
    ASSUME NEW n \in Nat, NEW cks \in Assignments(n), config.coarsening \in Nat \ {0}
    PROVE  /\ Coarsened(cks) \in Assignments(n)
           /\ Monotone(n, cks) => Monotone(n, Coarsened(cks))
           /\ config.coarsening = 1 => Coarsened(cks) = cks
<1> DEFINE q == config.coarsening
<1>1. cks \in [1..n -> Nat \ {0}] BY DEF Assignments
<1>2. Coarsened(cks) = [j \in 1..n |-> 1 + (cks[j] - 1) \div q] BY <1>1 DEF Coarsened
<1>3. \A x \in Nat : x \div q \in Nat BY config.coarsening \in Nat \ {0}
<1>4. \A x, y \in Nat : x <= y => x \div q <= y \div q BY config.coarsening \in Nat \ {0}
<1>5. q = 1 => \A x \in Nat : x \div q = x OBVIOUS
<1> HIDE DEF q
<1>6. \A j \in 1..n : cks[j] - 1 \in Nat BY <1>1
<1>7. Coarsened(cks) \in Assignments(n)
  <2>1. \A j \in 1..n : (cks[j] - 1) \div q \in Nat BY <1>3, <1>6
  <2>2. \A j \in 1..n : 1 + (cks[j] - 1) \div q \in Nat \ {0} BY <2>1
  <2> QED BY <1>2, <2>2 DEF Assignments
<1>8. ASSUME Monotone(n, cks) PROVE Monotone(n, Coarsened(cks))
  <2> SUFFICES ASSUME NEW i \in 1..n, NEW j \in 1..n, i <= j
               PROVE  Coarsened(cks)[i] <= Coarsened(cks)[j]
    BY DEF Monotone
  <2>1. cks[i] - 1 <= cks[j] - 1 BY <1>1, <1>8 DEF Monotone
  <2>2. (cks[i] - 1) \div q <= (cks[j] - 1) \div q BY <1>4, <1>6, <2>1
  <2>3. (cks[i] - 1) \div q \in Nat /\ (cks[j] - 1) \div q \in Nat BY <1>3, <1>6
  <2> QED BY <1>2, <2>2, <2>3
<1>9. q = 1 => Coarsened(cks) = cks BY <1>1, <1>2, <1>5, <1>6
<1> QED BY <1>7, <1>8, <1>9 DEF q

-----------------------------------------------------------------------------
\* The plan of a run.

Operations == {"r", "c", "u", "d"}

\* A history starts with the snapshot read or an insert, and is read only once.
HistoryOK(h) ==
    /\ h \in Seq(Operations)
    /\ h # <<>> => h[1] \in {"r", "c"}
    /\ \A i \in 2..Len(h) : h[i] # "r"

\* The lsns of a key grow along its history.
LsnsOK(k) ==
    /\ lsns[k] \in Seq(Nat \ {0})
    /\ Len(lsns[k]) <= Len(history[k])
    /\ \A i \in 1..Len(lsns[k]) : lsns[k][i] <= clock
    /\ \A i, j \in 1..Len(lsns[k]) : i < j => lsns[k][i] < lsns[k][j]

\* No checkpoints are merged: only Iceberg's plan is coarsened.
FineGrained == Format # "iceberg" \/ config.coarsening = 1

\* What each knob, or the enforcement, leaves of the clean assignment.
AssignOK(k) ==
    /\ assign[k] \in Assignments(Changes(k))
    /\ copied[k] \subseteq Writes(k)
    /\ ~Perturbed => assign[k] = CleanAssign(Changes(k)) /\ copied[k] = {}
    /\ ~config.outOfOrder => Monotone(Changes(k), assign[k])
    /\ ~config.schema /\ FineGrained =>
           Injective(Changes(k), assign[k]) /\ Late(Changes(k), assign[k])
    /\ ~config.duplicates => copied[k] = {}

Planning == stage \in {"stream", "plan"}

PlanOK ==
    /\ config \in Configs /\ clock \in Nat
    /\ stage \in {"stream", "plan", "apply", "ok", "raised"}
    /\ DOMAIN lsns = Keys /\ DOMAIN assign = Keys
    /\ \A k \in Keys : HistoryOK(history[k]) /\ LsnsOK(k)
    /\ \A k \in Keys : k \notin config.keys => history[k] = <<>>
    /\ stage # "stream" => \A k \in Keys : Len(lsns[k]) = Len(history[k])
    /\ stage # "stream" => ts \in [1..clock -> Nat]
    /\ Planning => copied = [k \in Keys |-> {}]
    /\ ~Planning => \A k \in Keys : AssignOK(k)

\* A sequence with one element put in front.
LEMMA OneMore ==
    ASSUME NEW S, NEW x \in Seq(S), Len(x) = 1, NEW y \in Seq(S)
    PROVE  /\ x \o y \in Seq(S) /\ Len(x \o y) = 1 + Len(y)
           /\ \A i \in 1..1 + Len(y) : (x \o y)[i] = IF i <= 1 THEN x[i] ELSE y[i - 1]
<1>1. x \o y \in Seq(S) BY ConcatProperties
<1>2. Len(x \o y) = Len(x) + Len(y) BY ConcatProperties
<1>3. \A i \in 1..Len(x) + Len(y) : (x \o y)[i] = IF i <= Len(x) THEN x[i] ELSE y[i - Len(x)]
  BY ConcatProperties
<1> QED BY <1>1, <1>2, <1>3

\* Every history the stream generates has that form.
LEMMA HistoriesOK ==
    ASSUME config.updates \in Nat, NEW h \in Histories \cup {<<>>}
    PROVE  HistoryOK(h)
<1>1. CASE h = <<>>
  <2>1. h \in Seq(Operations) /\ Len(h) = 0 BY <1>1, EmptySeq
  <2> QED BY <1>1, <2>1 DEF HistoryOK
<1>2. CASE h = <<"r">>
  <2>1. h \in Seq(Operations) /\ Len(h) = 1 /\ h[1] = "r" BY <1>2 DEF Operations
  <2> QED BY <2>1 DEF HistoryOK
<1>3. ASSUME NEW head \in Heads, NEW n \in 1..config.updates, NEW tail \in Tails,
             h = head \o Updates(n) \o tail
      PROVE  HistoryOK(h)
  <2> DEFINE Later == {"c", "u", "d"}
             u == Updates(n)
             b == u \o tail
  <2>1. u \in Seq(Later) /\ Len(u) = n
    <3>1. u = [i \in 1..n |-> "u"] /\ n \in Nat BY DEF Updates
    <3>2. u \in [1..n -> Later] BY <3>1
    <3>3. u \in Seq(Later) BY <3>1, <3>2
    <3> QED BY <3>1, <3>3
  <2>2. tail \in Seq(Later)
    <3>1. tail \in {<<>>, <<"d">>, <<"d", "c">>} BY DEF Tails
    <3>2. CASE tail = <<>> BY <3>2, EmptySeq
    <3>3. CASE tail = <<"d">> BY <3>3
    <3>4. CASE tail = <<"d", "c">> BY <3>4
    <3> QED BY <3>1, <3>2, <3>3, <3>4
  <2>3. b \in Seq(Later) BY <2>1, <2>2, ConcatProperties
  <2>4. head \in Seq(Operations) /\ Len(head) = 1 /\ head[1] \in {"r", "c"}
    <3>1. CASE head = <<"r">> BY <3>1 DEF Operations
    <3>2. CASE head = <<"c">> BY <3>2 DEF Operations
    <3> QED BY <3>1, <3>2 DEF Heads
  <2>5. Later \subseteq Operations BY DEF Operations
  <2>6. b \in Seq(Operations) /\ u \in Seq(Operations) /\ tail \in Seq(Operations)
    <3> HIDE DEF b, u, Later
    <3> QED BY <2>1, <2>2, <2>3, <2>5, SeqMonotonic
  <2>7. h = head \o b
    <3> HIDE DEF u
    <3> QED BY <1>3, <2>4, <2>6, ConcatAssociative DEF u
  <2> HIDE DEF b, u
  <2>8. /\ h \in Seq(Operations) /\ Len(h) = 1 + Len(b)
        /\ \A i \in 1..1 + Len(b) : h[i] = IF i <= 1 THEN head[i] ELSE b[i - 1]
    BY <2>4, <2>6, <2>7, OneMore
  <2>9. Len(b) \in Nat /\ \A i \in 1..Len(b) : b[i] \in Later BY <2>3, LenProperties
  <2>10. h[1] \in {"r", "c"} BY <2>4, <2>8, <2>9
  <2>11. ASSUME NEW i \in 2..Len(h) PROVE h[i] # "r"
    <3>1. i - 1 \in 1..Len(b) /\ i \in 1..1 + Len(b) /\ ~(i <= 1) BY <2>8, <2>9
    <3>2. h[i] \in Later BY <2>8, <2>9, <3>1
    <3> QED BY <3>2
  <2> QED BY <2>8, <2>10, <2>11 DEF HistoryOK
<1>4. \/ h = <<>> \/ h = <<"r">>
      \/ \E head \in Heads, n \in 1..config.updates, tail \in Tails :
            h = head \o Updates(n) \o tail
  <2> DEFINE Longer == {head \o Updates(n) \o tail : head \in Heads, n \in 1..config.updates, tail \in Tails}
  <2>1. h \in Histories \/ h = <<>> OBVIOUS
  <2>2. Histories = {<<"r">>} \cup Longer BY DEF Histories
  <2>3. h \in Longer => \E head \in Heads, n \in 1..config.updates, tail \in Tails :
                             h = head \o Updates(n) \o tail
     OBVIOUS
  <2> HIDE DEF Longer
  <2> QED BY <2>1, <2>2, <2>3
<1> QED BY <1>1, <1>2, <1>3, <1>4

\* The number of a key's changes, and the changes' places in its history.
LEMMA ChangesIs ==
    ASSUME NEW k, HistoryOK(history[k])
    PROVE  /\ Changes(k) \in Nat
           /\ \A j \in 1..Changes(k) : Index(k, j) \in 1..Len(history[k]) /\ Op(k, j) \in {"c", "u", "d"}
           /\ history[k] = <<>> => Changes(k) = 0
           /\ Len(history[k]) = IF IsRead(k) THEN Changes(k) + 1 ELSE Changes(k)
<1>1. history[k] \in Seq(Operations) /\ Len(history[k]) \in Nat BY LenProperties DEF HistoryOK
<1>2. history[k] # <<>> => Len(history[k]) >= 1 BY <1>1, EmptySeq
<1>3. history[k] = <<>> => Len(history[k]) = 0 /\ ~IsRead(k) BY EmptySeq DEF IsRead
<1>4. Changes(k) \in Nat BY <1>1, <1>2, <1>3 DEF Changes, IsRead
<1>5. Len(history[k]) = IF IsRead(k) THEN Changes(k) + 1 ELSE Changes(k) BY <1>1 DEF Changes
<1>6. ASSUME NEW j \in 1..Changes(k)
      PROVE  Index(k, j) \in 1..Len(history[k]) /\ Op(k, j) \in {"c", "u", "d"}
  <2>1. Index(k, j) \in 1..Len(history[k]) BY <1>1, <1>4, <1>5 DEF Index
  <2>2. Op(k, j) \in Operations BY <1>1, <2>1, ElementOfSeq DEF Op
  <2>3. Op(k, j) # "r"
    <3>1. CASE Index(k, j) = 1
      <4>1. ~IsRead(k) BY <1>4, <3>1 DEF Index
      <4> QED BY <4>1, <3>1, <1>1, <1>3, <2>1 DEF IsRead, Op, HistoryOK
    <3>2. CASE Index(k, j) # 1
      <4>1. Index(k, j) \in 2..Len(history[k]) BY <1>1, <2>1, <3>2
      <4> QED BY <4>1 DEF Op, HistoryOK
    <3> QED BY <3>1, <3>2
  <2> QED BY <2>1, <2>2, <2>3 DEF Operations
<1>7. history[k] = <<>> => Changes(k) = 0 BY <1>3 DEF Changes
<1> QED BY <1>4, <1>5, <1>6, <1>7

\* The configurations are well formed.
LEMMA ConfigIs ==
    ASSUME config \in Configs
    PROVE  /\ config.coarsening \in Nat \ {0} /\ config.updates \in Nat /\ config.skew \in Nat
           /\ config.keys \subseteq Keys
BY ConfigsAssumption DEF RunConfig

\* What the knobs may make of one key.
LEMMA KeyPlanShape ==
    ASSUME config \in Configs, NEW k, HistoryOK(history[k]), NEW plan \in KeyPlans(k)
    PROVE  /\ plan[1] \in Assignments(Changes(k)) /\ plan[2] \subseteq Writes(k)
           /\ ~config.outOfOrder => Monotone(Changes(k), plan[1])
           /\ ~config.schema /\ FineGrained =>
                  Injective(Changes(k), plan[1]) /\ Late(Changes(k), plan[1])
           /\ ~config.duplicates => plan[2] = {}
<1> DEFINE n == Changes(k)
<1>1. n \in Nat BY ChangesIs
<1>2. PICK cks : \E swaps \in Chosen(config.outOfOrder, Pairs(n)), flushes \in Chosen(config.schema, Pairs(n)) :
                    /\ cks = Flushed(Swapped(CleanAssign(n), swaps), flushes)
                    /\ plan[1] = IF Format = "iceberg" THEN Coarsened(cks) ELSE cks
  BY DEF KeyPlans
<1>3. PICK swaps \in Chosen(config.outOfOrder, Pairs(n)), flushes \in Chosen(config.schema, Pairs(n)) :
         /\ cks = Flushed(Swapped(CleanAssign(n), swaps), flushes)
         /\ plan[1] = IF Format = "iceberg" THEN Coarsened(cks) ELSE cks
  BY <1>2
<1>4. plan[2] \in IF config.duplicates THEN SUBSET Writes(k) ELSE {{}} BY DEF KeyPlans
<1> HIDE DEF n
<1> DEFINE a == CleanAssign(n)
           b == Swapped(a, swaps)
<1>19. Late(n, b)
  <2>1. swaps \subseteq 1..Pairs(n) BY DEF Chosen
  <2> QED BY <1>1, <2>1, SwappedLate
<1>5. a \in Assignments(n) /\ Monotone(n, a) /\ Injective(n, a) BY <1>1, CleanShape
<1> HIDE DEF a
<1>6. swaps \subseteq 1..Pairs(n) /\ (~config.outOfOrder => swaps = {}) BY DEF Chosen
<1>7. flushes \subseteq 1..Pairs(n) /\ (~config.schema => flushes = {}) BY DEF Chosen
<1>8. b \in Assignments(n) /\ Injective(n, b) /\ (swaps = {} => b = a) BY <1>1, <1>5, <1>6, SwappedShape
<1> HIDE DEF b
<1>9. cks = Flushed(b, flushes) BY <1>3 DEF a, b
<1>10. /\ cks \in Assignments(n) /\ (Monotone(n, b) => Monotone(n, cks))
       /\ flushes = {} => cks = b
  BY <1>1, <1>7, <1>8, <1>9, FlushedShape
<1>11. config.coarsening \in Nat \ {0} BY ConfigIs
<1>12. /\ Coarsened(cks) \in Assignments(n) /\ (Monotone(n, cks) => Monotone(n, Coarsened(cks)))
       /\ config.coarsening = 1 => Coarsened(cks) = cks
  BY <1>1, <1>10, <1>11, CoarsenedShape
<1>13. ~config.outOfOrder => Monotone(n, cks) BY <1>5, <1>6, <1>8, <1>10
<1>14. ~config.schema => Injective(n, cks) BY <1>7, <1>8, <1>10
<1>15. plan[1] \in Assignments(n) BY <1>3, <1>10, <1>12
<1>16. ~config.outOfOrder => Monotone(n, plan[1]) BY <1>3, <1>12, <1>13
<1>17. ~config.schema /\ FineGrained => Injective(n, plan[1]) /\ Late(n, plan[1])
  BY <1>3, <1>7, <1>10, <1>12, <1>14, <1>19 DEF FineGrained
<1>18. plan[2] \subseteq Writes(k) /\ (~config.duplicates => plan[2] = {}) BY <1>4
<1> QED BY <1>15, <1>16, <1>17, <1>18 DEF n

\* The first state.
LEMMA PlanStarts == PlanInit => PlanOK
<1> SUFFICES ASSUME PlanInit PROVE PlanOK OBVIOUS
<1>1. config \in Configs /\ clock = 0 /\ stage = "stream" BY DEF PlanInit
<1>2. config.updates \in Nat BY <1>1, ConfigIs
<1>3. ASSUME NEW k \in Keys PROVE HistoryOK(history[k]) /\ LsnsOK(k)
  <2>1. history[k] \in Histories \cup {<<>>} BY DEF PlanInit
  <2>2. HistoryOK(history[k]) BY <1>2, <2>1, HistoriesOK
  <2>3. Len(history[k]) \in Nat BY <2>2, LenProperties DEF HistoryOK
  <2>4. lsns[k] = <<>> BY DEF PlanInit
  <2>5. lsns[k] \in Seq(Nat \ {0}) /\ Len(lsns[k]) = 0 BY <2>4, EmptySeq
  <2> QED BY <2>2, <2>3, <2>5 DEF LsnsOK
<1>4. \A k \in Keys : k \notin config.keys => history[k] = <<>> BY DEF PlanInit
<1> QED BY <1>1, <1>3, <1>4 DEF PlanInit, PlanOK, Planning

\* A change of the merged stream.
LEMMA EmitStep == ASSUME PlanOK, NEW k \in Keys, Emit(k) PROVE PlanOK'
<1>1. /\ clock' = clock + 1 /\ clock \in Nat /\ stage = "stream" /\ stage' = stage
      /\ history' = history /\ config' = config /\ copied' = copied /\ assign' = assign
      /\ lsns' = [lsns EXCEPT ![k] = Append(@, clock + 1)] /\ Len(lsns[k]) < Len(history[k])
  BY DEF Emit, PlanOK, Pending
<1>2. ASSUME NEW q \in Keys PROVE HistoryOK(history'[q]) /\ LsnsOK(q)'
  <2>1. HistoryOK(history[q]) /\ LsnsOK(q) BY DEF PlanOK
  <2>2. CASE q # k
    <3>1. lsns'[q] = lsns[q] BY <1>1, <2>2 DEF PlanOK
    <3>2. \A i \in 1..Len(lsns[q]) : lsns[q][i] \in Nat BY <2>1, ElementOfSeq DEF LsnsOK
    <3>3. \A i \in 1..Len(lsns[q]) : lsns[q][i] <= clock BY <2>1 DEF LsnsOK
    <3>4. \A i \in 1..Len(lsns[q]) : lsns[q][i] <= clock + 1 BY <1>1, <3>2, <3>3
    <3> QED BY <1>1, <2>1, <3>1, <3>4 DEF LsnsOK
  <2>3. CASE q = k
    <3> DEFINE old == lsns[k]
               new == Append(old, clock + 1)
    <3>1. old \in Seq(Nat \ {0}) /\ Len(old) \in Nat BY <2>1, <2>3, LenProperties DEF LsnsOK
    <3>2. \A i \in 1..Len(old) : old[i] \in Nat /\ old[i] <= clock
      BY <2>1, <2>3, <3>1, ElementOfSeq DEF LsnsOK
    <3>3. \A i, j \in 1..Len(old) : i < j => old[i] < old[j] BY <2>1, <2>3 DEF LsnsOK
    <3>4. Len(history[k]) \in Nat BY <2>1, <2>3, LenProperties DEF HistoryOK
    <3>5. lsns'[k] = new BY <1>1 DEF PlanOK
    <3> HIDE DEF old
    <3>6. /\ new \in Seq(Nat \ {0}) /\ Len(new) = Len(old) + 1
          /\ \A i \in 1..Len(old) : new[i] = old[i]
          /\ new[Len(old) + 1] = clock + 1
      BY <1>1, <3>1
    <3> HIDE DEF new
    <3>7. ASSUME NEW i \in 1..Len(new) PROVE new[i] <= clock + 1
      <4>1. CASE i \in 1..Len(old) BY <1>1, <3>2, <3>6, <4>1
      <4>2. CASE i = Len(old) + 1 BY <1>1, <3>6, <4>2
      <4> QED BY <3>1, <3>6, <4>1, <4>2
    <3>8. ASSUME NEW i \in 1..Len(new), NEW j \in 1..Len(new), i < j PROVE new[i] < new[j]
      <4>1. i \in 1..Len(old) BY <3>1, <3>6, <3>8
      <4>2. CASE j \in 1..Len(old) BY <3>3, <3>6, <3>8, <4>1, <4>2
      <4>3. CASE j = Len(old) + 1 BY <1>1, <3>2, <3>6, <4>1, <4>3
      <4> QED BY <3>1, <3>6, <4>2, <4>3
    <3>9. Len(new) <= Len(history[k]) BY <1>1, <3>1, <3>4, <3>6 DEF old
    <3> QED BY <1>1, <2>1, <2>3, <3>5, <3>6, <3>7, <3>8, <3>9 DEF LsnsOK
  <2> QED BY <2>2, <2>3
<1>3. DOMAIN lsns' = Keys BY <1>1 DEF PlanOK
<1> QED BY <1>1, <1>2, <1>3 DEF PlanOK, Planning

\* The skew touches the timestamps alone.
LEMMA SkewStep == ASSUME PlanOK, Skew PROVE PlanOK'
<1>1. /\ stage = "stream" /\ stage' = "plan" /\ UNCHANGED <<config, history, lsns, clock, assign, copied>>
      /\ \A k \in Keys : ~(Len(lsns[k]) < Len(history[k]))
  BY DEF Skew, Pending
<1>2. ASSUME NEW k \in Keys PROVE HistoryOK(history'[k]) /\ LsnsOK(k)' /\ Len(lsns[k]) = Len(history[k])
  <2>1. HistoryOK(history[k]) /\ LsnsOK(k) BY DEF PlanOK
  <2>2. Len(lsns[k]) \in Nat /\ Len(history[k]) \in Nat BY <2>1, LenProperties DEF HistoryOK, LsnsOK
  <2>3. Len(lsns[k]) = Len(history[k]) BY <1>1, <2>1, <2>2 DEF LsnsOK
  <2> QED BY <1>1, <2>1, <2>3 DEF LsnsOK
<1>3. ts' \in [1..clock -> Nat]
  <2>1. config.skew \in Nat /\ clock \in Nat BY ConfigIs DEF PlanOK
  <2>2. PICK delta \in [1..clock -> 0..2 * config.skew] : ts' = [i \in 1..clock |-> i + delta[i]]
    BY DEF Skew
  <2>3. \A i \in 1..clock : i + delta[i] \in Nat BY <2>1
  <2> QED BY <2>2, <2>3
<1> QED BY <1>1, <1>2, <1>3 DEF PlanOK, Planning

\* The plan is built.
LEMMA BuildStep == ASSUME PlanOK, BuildPlan PROVE PlanOK'
<1>1. /\ stage = "plan" /\ stage' = "apply" /\ UNCHANGED <<config, history, lsns, clock, ts>>
      /\ config \in Configs /\ copied = [k \in Keys |-> {}]
  BY DEF BuildPlan, PlanOK, Planning
<1>2. \A k \in Keys : HistoryOK(history[k]) /\ LsnsOK(k) BY DEF PlanOK
<1>3. ASSUME NEW k \in Keys PROVE AssignOK(k)'
  <2>1. Changes(k)' = Changes(k) /\ Writes(k)' = Writes(k) /\ (Perturbed' <=> Perturbed)
         /\ (FineGrained' <=> FineGrained)
    BY <1>1 DEF Changes, Writes, IsRead, Op, Index, Enforced, Perturbed, Format, FineGrained
  <2>2. Changes(k) \in Nat BY <1>2, ChangesIs
  <2>3. CASE ~Perturbed
    <3>1. assign'[k] = CleanAssign(Changes(k)) /\ copied'[k] = {} BY <1>1, <2>3 DEF BuildPlan
    <3>2. CleanAssign(Changes(k))' = CleanAssign(Changes(k)) BY <2>1 DEF CleanAssign
    <3>3. /\ CleanAssign(Changes(k)) \in Assignments(Changes(k))
          /\ Monotone(Changes(k), CleanAssign(Changes(k))) /\ Injective(Changes(k), CleanAssign(Changes(k)))
          /\ Late(Changes(k), CleanAssign(Changes(k)))
      BY <2>2, CleanShape DEF Late, CleanAssign
    <3> QED BY <2>1, <3>1, <3>2, <3>3 DEF AssignOK
  <2>4. CASE Perturbed
    <3>1. PICK plans :
             /\ \A q \in config.keys : plans[q] \in KeyPlans(q)
             /\ assign' = [q \in Keys |-> IF q \in config.keys THEN plans[q][1] ELSE <<>>]
             /\ copied' = [q \in Keys |-> IF q \in config.keys THEN plans[q][2] ELSE {}]
      BY <2>4 DEF BuildPlan
    <3>2. CASE k \in config.keys
      <4>1. plans[k] \in KeyPlans(k) /\ assign'[k] = plans[k][1] /\ copied'[k] = plans[k][2] BY <3>1, <3>2
      <4>2. /\ plans[k][1] \in Assignments(Changes(k)) /\ plans[k][2] \subseteq Writes(k)
            /\ ~config.outOfOrder => Monotone(Changes(k), plans[k][1])
            /\ ~config.schema /\ FineGrained =>
                   Injective(Changes(k), plans[k][1]) /\ Late(Changes(k), plans[k][1])
            /\ ~config.duplicates => plans[k][2] = {}
        BY <1>1, <1>2, <4>1, KeyPlanShape
      <4> QED BY <1>1, <2>1, <2>4, <4>1, <4>2 DEF AssignOK
    <3>3. CASE k \notin config.keys
      <4>1. assign'[k] = <<>> /\ copied'[k] = {} BY <3>1, <3>3
      <4>2. Changes(k) = 0 BY <1>2, <3>3, ChangesIs DEF PlanOK
      <4>3. <<>> \in Assignments(0)
        <5>1. <<>> \in Seq(Nat \ {0}) /\ Len(<<>>) = 0 BY EmptySeq
        <5> QED BY <5>1, LenProperties DEF Assignments
      <4>4. Monotone(0, <<>>) /\ Injective(0, <<>>) /\ Late(0, <<>>) BY DEF Monotone, Injective, Late
      <4> QED BY <2>1, <2>4, <4>1, <4>2, <4>3, <4>4 DEF AssignOK
    <3> QED BY <3>2, <3>3
  <2> QED BY <2>3, <2>4
<1>4. \A k \in Keys : LsnsOK(k)' BY <1>1, <1>2 DEF LsnsOK
<1>5. DOMAIN assign' = Keys BY <1>1 DEF BuildPlan
<1>6. (\A k \in Keys : Len(lsns[k]) = Len(history[k])) /\ ts \in [1..clock -> Nat] BY <1>1 DEF PlanOK
<1>7. ~Planning' BY <1>1 DEF Planning
<1> QED BY <1>1, <1>2, <1>3, <1>4, <1>5, <1>6, <1>7 DEF PlanOK

\* The plan stays as it is while it is applied.
LEMMA PlanKept ==
    ASSUME PlanOK, UNCHANGED planVars,
           stage' = stage \/ (~Planning /\ stage' \in {"ok", "raised"})
    PROVE  PlanOK'
<1>1. UNCHANGED <<config, history, lsns, clock, ts, assign, copied>> BY DEF planVars
<1>2. \A k \in Keys : (LsnsOK(k) <=> LsnsOK(k)') /\ (AssignOK(k) <=> AssignOK(k)')
  BY <1>1 DEF LsnsOK, AssignOK, Changes, Writes, IsRead, Op, Index, Enforced, Perturbed, Format,
              FineGrained
<1>3. stage # "stream" \/ stage' = stage BY DEF Planning
<1> QED BY <1>1, <1>2, <1>3 DEF PlanOK, Planning

-----------------------------------------------------------------------------
\* The checkpoints of a plan.

\* A key's changes, their checkpoints and their lsns are positive numbers.
LEMMA PlanNumbers ==
    ASSUME PlanOK, ~Planning, NEW k \in Keys
    PROVE  /\ Changes(k) \in Nat
           /\ \A j \in 1..Changes(k) : assign[k][j] \in Nat \ {0} /\ Lsn(k, j) \in Nat \ {0}
<1>1. HistoryOK(history[k]) /\ AssignOK(k) /\ LsnsOK(k) /\ Len(lsns[k]) = Len(history[k])
  BY DEF PlanOK, Planning
<1>2. Changes(k) \in Nat /\ \A j \in 1..Changes(k) : Index(k, j) \in 1..Len(history[k]) BY <1>1, ChangesIs
<1>3. \A j \in 1..Changes(k) : assign[k][j] \in Nat \ {0} BY <1>1 DEF AssignOK, Assignments
<1>4. \A j \in 1..Changes(k) : Lsn(k, j) \in Nat \ {0} BY <1>1, <1>2, ElementOfSeq DEF LsnsOK, Lsn
<1> QED BY <1>2, <1>3, <1>4

\* The snapshot read of a key is its first operation.
LEMMA ReadIs ==
    ASSUME PlanOK, ~Planning, NEW k \in Keys, IsRead(k)
    PROVE  lsns[k][1] \in Nat \ {0} /\ Len(lsns[k]) = Len(history[k]) /\ 1 \in 1..Len(history[k])
<1>1. HistoryOK(history[k]) /\ LsnsOK(k) /\ Len(lsns[k]) = Len(history[k]) BY DEF PlanOK, Planning
<1>2. Len(history[k]) \in Nat \ {0} BY <1>1, EmptySeq DEF HistoryOK, IsRead
<1>3. 1 \in 1..Len(lsns[k]) BY <1>1, <1>2
<1>4. lsns[k][1] \in Nat \ {0} BY <1>1, <1>3, ElementOfSeq DEF LsnsOK
<1> QED BY <1>1, <1>2, <1>4

\* The rows of a checkpoint, by key.
LEMMA RowsIs ==
    ASSUME PlanOK, ~Planning, NEW c \in Nat, NEW row
    PROVE  row \in Rows(c) <=>
             \E k \in Keys :
                \/ c = 0 /\ IsRead(k) /\ row = [key |-> k, ver |-> lsns[k][1], copy |-> 1]
                \/ \E j \in 1..Changes(k) :
                      /\ c # 0 /\ assign[k][j] = c
                      /\ \/ j \in Writes(k) /\ row = [key |-> k, ver |-> Lsn(k, j), copy |-> 1]
                         \/ j \in copied[k] /\ row = [key |-> k, ver |-> Lsn(k, j), copy |-> 2]
<1>1. CASE c = 0 BY <1>1 DEF Rows
<1>2. CASE c # 0
  <2> DEFINE First(k) == {[key |-> k, ver |-> Lsn(k, j), copy |-> 1] : j \in Carried(k, c) \cap Writes(k)}
             Second(k) == {[key |-> k, ver |-> Lsn(k, j), copy |-> 2] : j \in Carried(k, c) \cap copied[k]}
  <2>1. Rows(c) = UNION {First(k) \cup Second(k) : k \in Keys} BY <1>2 DEF Rows
  <2>2. row \in Rows(c) <=> \E k \in Keys : row \in First(k) \/ row \in Second(k)
    <3> HIDE DEF First, Second
    <3> QED BY <2>1
  <2>3. \A k : row \in First(k) <=> \E j \in 1..Changes(k) :
                  assign[k][j] = c /\ j \in Writes(k) /\ row = [key |-> k, ver |-> Lsn(k, j), copy |-> 1]
    BY DEF Carried
  <2>4. \A k : row \in Second(k) <=> \E j \in 1..Changes(k) :
                  assign[k][j] = c /\ j \in copied[k] /\ row = [key |-> k, ver |-> Lsn(k, j), copy |-> 2]
    BY DEF Carried
  <2> HIDE DEF First, Second
  <2> QED BY <1>2, <2>2, <2>3, <2>4
<1> QED BY <1>1, <1>2

\* No change lies beyond the last checkpoint.
LEMMA LastIs ==
    ASSUME PlanOK, ~Planning
    PROVE  /\ LastCheckpoint \in Nat
           /\ \A k \in Keys : \A j \in 1..Changes(k) : assign[k][j] <= LastCheckpoint
<1> DEFINE Used(k) == {assign[k][j] : j \in 1..Changes(k)}
           P == {Used(k) : k \in Keys}
           S == {0} \cup UNION P
<1>1. ASSUME NEW k \in Keys PROVE IsFiniteSet(Used(k)) /\ Used(k) \subseteq Nat
  <2> DEFINE I == 1..Changes(k)
  <2>1. 1 \in Int /\ Changes(k) \in Int BY PlanNumbers
  <2>2. IsFiniteSet(I) BY <2>1, FS_Interval
  <2>3. /\ [j \in I |-> assign[k][j]] \in [I -> Used(k)]
        /\ \A t \in Used(k) : \E j \in I : [i \in I |-> assign[k][i]][j] = t
    OBVIOUS
  <2>4. Used(k) \subseteq Nat BY PlanNumbers
  <2> HIDE DEF I, Used
  <2> QED BY <2>2, <2>3, <2>4, FiniteImage
<1>2. IsFiniteSet(P)
  <2>1. /\ [k \in Keys |-> Used(k)] \in [Keys -> P]
        /\ \A t \in P : \E k \in Keys : [q \in Keys |-> Used(q)][k] = t
    OBVIOUS
  <2> HIDE DEF P, Used
  <2> QED BY <2>1, KeysAssumption, FiniteImage
<1>3. \A t \in P : IsFiniteSet(t) /\ t \subseteq Nat BY <1>1
<1>4. LastCheckpoint = Max(S) BY DEF LastCheckpoint
<1>5. \A k \in Keys : \A j \in 1..Changes(k) : assign[k][j] \in Used(k) /\ Used(k) \in P OBVIOUS
<1> HIDE DEF Used, P
<1>6. IsFiniteSet(UNION P) /\ UNION P \subseteq Nat BY <1>2, <1>3, FS_UNION
<1>7. S = (UNION P) \cup {0} OBVIOUS
<1>8. IsFiniteSet(S) /\ S \in SUBSET Nat
  <2> DEFINE U == UNION P
  <2>1. IsFiniteSet(U) /\ U \subseteq Nat /\ S = U \cup {0} BY <1>6, <1>7
  <2> HIDE DEF U, S
  <2>2. IsFiniteSet(U \cup {0}) BY <2>1, FS_AddElement
  <2> QED BY <2>1, <2>2
<1>9. 0 \in S /\ \A k \in Keys : \A j \in 1..Changes(k) : assign[k][j] \in S BY <1>5
<1> HIDE DEF S
<1>10. Max(S) \in S /\ \A y \in S : Max(S) >= y BY <1>8, <1>9, MaxMin
<1>11. \A y \in S : y \in Nat BY <1>8
<1> QED BY <1>4, <1>9, <1>10, <1>11

\* The truth of a key and where it is written.
LEMMA TruthIs ==
    ASSUME PlanOK, ~Planning, NEW k \in Keys, Truth(k) # 0
    PROVE  /\ Truth(k) \in Nat
           /\ IsRead(k) => lsns[k][1] <= Truth(k)
           /\ \A j \in 1..Changes(k) : Lsn(k, j) <= Truth(k)
           /\ Changes(k) = 0 => IsRead(k) /\ lsns[k][1] = Truth(k)
           /\ Changes(k) # 0 => Changes(k) \in Writes(k) /\ Lsn(k, Changes(k)) = Truth(k)
<1> DEFINE n == Changes(k)
           last == Len(history[k])
<1>1. /\ HistoryOK(history[k]) /\ LsnsOK(k) /\ Len(lsns[k]) = last /\ lsns[k] \in Seq(Nat \ {0})
  BY DEF PlanOK, Planning, LsnsOK
<1>2. /\ n \in Nat
      /\ \A j \in 1..n : Index(k, j) \in 1..last /\ Op(k, j) \in {"c", "u", "d"}
      /\ last = IF IsRead(k) THEN n + 1 ELSE n
  BY <1>1, ChangesIs
<1>3. history[k] # <<>> /\ history[k][last] # "d" /\ Truth(k) = lsns[k][last] BY DEF Truth
<1>4. last \in Nat \ {0} BY <1>1, <1>3, EmptySeq DEF HistoryOK
<1> HIDE DEF last
<1>5. \A i \in 1..last : lsns[k][i] \in Nat BY <1>1, ElementOfSeq
<1>6. \A i \in 1..last : lsns[k][i] <= lsns[k][last]
  <2> SUFFICES ASSUME NEW i \in 1..last PROVE lsns[k][i] <= lsns[k][last] OBVIOUS
  <2>1. last \in 1..last BY <1>4
  <2>2. \A a, b \in 1..last : a < b => lsns[k][a] < lsns[k][b] BY <1>1 DEF LsnsOK
  <2>3. CASE i = last BY <1>5, <2>1, <2>3
  <2>4. CASE i # last
    <3>1. i < last BY <1>4, <2>4
    <3> QED BY <1>5, <2>1, <2>2, <3>1
  <2> QED BY <2>3, <2>4
<1>7. Truth(k) \in Nat BY <1>3, <1>4, <1>5
<1>8. IsRead(k) => lsns[k][1] <= Truth(k) BY <1>3, <1>4, <1>6
<1>9. \A j \in 1..n : Lsn(k, j) <= Truth(k) BY <1>2, <1>3, <1>6 DEF Lsn
<1>10. n = 0 => IsRead(k) /\ lsns[k][1] = Truth(k) BY <1>2, <1>3, <1>4
<1>11. ASSUME n # 0 PROVE n \in Writes(k) /\ Lsn(k, n) = Truth(k)
  <2>1. n \in 1..n BY <1>2, <1>11
  <2>2. Index(k, n) = last BY <1>2 DEF Index
  <2>3. Op(k, n) # "d" BY <1>3, <2>2 DEF Op
  <2>4. n \in Writes(k) BY <1>2, <2>1, <2>3 DEF Writes
  <2> QED BY <1>3, <2>2, <2>4 DEF Lsn
<1> QED BY <1>7, <1>8, <1>9, <1>10, <1>11

\* The plan frozen, so is every checkpoint.
LEMMA PlanFrozen ==
    ASSUME UNCHANGED planVars
    PROVE  /\ LastCheckpoint' = LastCheckpoint
           /\ \A c : Rows(c)' = Rows(c) /\ Deletes(c)' = Deletes(c)
           /\ \A k : Truth(k)' = Truth(k) /\ Changes(k)' = Changes(k) /\ (IsRead(k)' <=> IsRead(k))
           /\ \A k : Writes(k)' = Writes(k) /\ \A j : Op(k, j)' = Op(k, j) /\ Lsn(k, j)' = Lsn(k, j)
<1>1. UNCHANGED <<config, history, lsns, assign, copied>> BY DEF planVars
<1>2. \A k : (IsRead(k)' <=> IsRead(k)) BY <1>1 DEF IsRead
<1>3. \A k : Changes(k)' = Changes(k) BY <1>1, <1>2 DEF Changes
<1>4. \A k, j : Index(k, j)' = Index(k, j) BY <1>2 DEF Index
<1>5. \A k, j : Op(k, j)' = Op(k, j) /\ Lsn(k, j)' = Lsn(k, j) BY <1>1, <1>4 DEF Op, Lsn
<1>6. \A k : Truth(k)' = Truth(k) BY <1>1 DEF Truth
<1>7. LastCheckpoint' = LastCheckpoint BY <1>1, <1>3 DEF LastCheckpoint
<1>8. \A k, c : Carried(k, c)' = Carried(k, c) BY <1>1, <1>3 DEF Carried
<1>9. \A k : Writes(k)' = Writes(k) BY <1>3, <1>5 DEF Writes
<1>10. ASSUME NEW c PROVE Rows(c)' = Rows(c)
  <2> DEFINE Snapshot == {[key |-> k, ver |-> lsns[k][1], copy |-> 1] : k \in {q \in Keys : IsRead(q)}}
             Of(k) == {[key |-> k, ver |-> Lsn(k, j), copy |-> 1] : j \in Carried(k, c) \cap Writes(k)}
                      \cup {[key |-> k, ver |-> Lsn(k, j), copy |-> 2] : j \in Carried(k, c) \cap copied[k]}
  <2>1. Rows(c) = IF c = 0 THEN Snapshot ELSE UNION {Of(k) : k \in Keys} BY DEF Rows
  <2>2. Rows(c)' = IF c = 0 THEN Snapshot' ELSE UNION {Of(k)' : k \in Keys} BY DEF Rows
  <2>3. Snapshot' = Snapshot BY <1>1, <1>2
  <2>4. \A k : Of(k)' = Of(k) BY <1>1, <1>5, <1>8, <1>9
  <2> HIDE DEF Snapshot, Of
  <2> QED BY <2>1, <2>2, <2>3, <2>4
<1>11. \A c : Deletes(c)' = Deletes(c) BY <1>1, <1>5, <1>8 DEF Deletes, Format
<1> QED BY <1>2, <1>3, <1>5, <1>6, <1>7, <1>9, <1>10, <1>11

-----------------------------------------------------------------------------
\* The log of a key, and how much of it the first checkpoints of a clean plan carry.

\* The versions of a key in order, 0 where it is deleted.
LogOf(k) == [i \in 1..Len(lsns[k]) |-> IF history[k][i] = "d" THEN 0 ELSE lsns[k][i]]

\* The changes of a key among the first n checkpoints of the clean plan.
Reached(n, k) == IF n - 1 <= Changes(k) THEN n - 1 ELSE Changes(k)

\* The prefix of the log that n checkpoints apply.
Prefix(n, k) == IF n = 0 THEN 0 ELSE IF IsRead(k) THEN 1 + Reached(n, k) ELSE Reached(n, k)

\* The log of a key has an entry for every lsn given out.
LEMMA LogShape ==
    ASSUME PlanOK, NEW k \in Keys
    PROVE  /\ LogOf(k) \in Seq(Nat) /\ Len(LogOf(k)) = Len(lsns[k]) /\ Len(lsns[k]) \in Nat
           /\ \A i \in 1..Len(lsns[k]) : LogOf(k)[i] = IF history[k][i] = "d" THEN 0 ELSE lsns[k][i]
<1>1. LsnsOK(k) BY DEF PlanOK
<1>2. Len(lsns[k]) \in Nat BY <1>1, LenProperties DEF LsnsOK
<1>3. \A i \in 1..Len(lsns[k]) : lsns[k][i] \in Nat BY <1>1, ElementOfSeq DEF LsnsOK
<1>4. LogOf(k) \in [1..Len(lsns[k]) -> Nat] BY <1>3 DEF LogOf
<1>5. LogOf(k) \in Seq(Nat) /\ Len(LogOf(k)) = Len(lsns[k]) BY <1>2, <1>4, FunctionLen
<1>6. \A i \in 1..Len(lsns[k]) : LogOf(k)[i] = IF history[k][i] = "d" THEN 0 ELSE lsns[k][i] BY DEF LogOf
<1> QED BY <1>2, <1>5, <1>6

\* A clean plan's checkpoints apply no more of a log than there is.
LEMMA PrefixIn ==
    ASSUME PlanOK, ~Planning, NEW k \in Keys, NEW n \in Nat
    PROVE  /\ Prefix(n, k) \in 0..Len(lsns[k])
           /\ n # 0 => Reached(n, k) \in 0..Changes(k)
<1>1. HistoryOK(history[k]) /\ Len(lsns[k]) = Len(history[k]) BY DEF PlanOK, Planning
<1>2. Changes(k) \in Nat /\ Len(history[k]) = IF IsRead(k) THEN Changes(k) + 1 ELSE Changes(k)
  BY <1>1, ChangesIs
<1>3. n # 0 => Reached(n, k) \in 0..Changes(k) BY <1>2 DEF Reached
<1> QED BY <1>1, <1>2, <1>3 DEF Prefix

\* The smaller of two numbers.
LEMMA MinOfTwo ==
    ASSUME NEW a \in Nat, NEW b \in Nat
    PROVE  Min({a, b}) = IF a <= b THEN a ELSE b
BY DEF Min

\* The greatest number of a set.
LEMMA MaxIs ==
    ASSUME NEW S \in SUBSET Nat, NEW x \in S, \A y \in S : y <= x
    PROVE  Max(S) = x
<1>1. \A y \in S : y \in Nat OBVIOUS
<1>2. Max(S) \in S /\ \A y \in S : Max(S) >= y
  <2>1. \E z \in S : \A y \in S : z >= y BY <1>1
  <2> QED BY <2>1 DEF Max
<1>3. PICK m : m = Max(S) OBVIOUS
<1>4. m \in Nat /\ x \in Nat /\ m >= x /\ m <= x BY <1>1, <1>2, <1>3
<1> QED BY <1>3, <1>4

\* The merge adds one entry to one key's log.
LEMMA LogGrows ==
    ASSUME PlanOK, NEW k \in Keys, Emit(k)
    PROVE  /\ \A q \in Keys \ {k} : LogOf(q)' = LogOf(q)
           /\ Len(LogOf(k)') = Len(LogOf(k)) + 1
           /\ SubSeq(LogOf(k)', 1, Len(LogOf(k))) = LogOf(k)
<1>1. /\ history' = history /\ lsns' = [lsns EXCEPT ![k] = Append(@, clock + 1)] /\ clock \in Nat
  BY DEF Emit, PlanOK
<1>2. lsns[k] \in Seq(Nat \ {0}) /\ DOMAIN lsns = Keys BY DEF PlanOK, LsnsOK
<1>3. \A q \in Keys \ {k} : LogOf(q)' = LogOf(q) BY <1>1, <1>2 DEF LogOf
<1> DEFINE n == Len(lsns[k])
           new == Append(lsns[k], clock + 1)
           old == LogOf(k)
           now == [i \in 1..Len(new) |-> IF history[k][i] = "d" THEN 0 ELSE new[i]]
<1>4. LogOf(k)' = now BY <1>1, <1>2 DEF LogOf
<1>5. n \in Nat /\ Len(new) = n + 1 /\ (\A i \in 1..n : new[i] = lsns[k][i]) /\ new[n + 1] = clock + 1
  BY <1>1, <1>2
<1>6. old \in Seq(Nat) /\ Len(old) = n /\ \A i \in 1..n : old[i] = IF history[k][i] = "d" THEN 0 ELSE lsns[k][i]
  BY LogShape
<1>7. now \in Seq(Nat) /\ Len(now) = n + 1 /\ \A i \in 1..n : now[i] = old[i]
  <2>1. \A i \in 1..n : lsns[k][i] \in Nat BY <1>2, ElementOfSeq
  <2> HIDE DEF n, new, old
  <2>2. \A i \in 1..n + 1 : new[i] \in Nat
    <3>1. \A i \in 1..n + 1 : i \in 1..n \/ i = n + 1 BY <1>5
    <3> QED BY <1>1, <1>5, <2>1, <3>1
  <2>3. now \in [1..n + 1 -> Nat] BY <1>5, <2>2
  <2>4. \A i \in 1..n : now[i] = old[i] BY <1>5, <1>6
  <2> HIDE DEF now
  <2>5. n + 1 \in Nat BY <1>5
  <2>6. now \in Seq(Nat) /\ Len(now) = n + 1 BY <2>3, <2>5, FunctionLen
  <2> QED BY <2>4, <2>6
<1>8. SubSeq(now, 1, n) = old
  <2> HIDE DEF n, new, old, now
  <2>1. \A i \in 1..n : now[i] \in Nat BY <1>5, <1>6, <1>7, ElementOfSeq
  <2>2. 1 \in Int /\ n \in Int /\ n - 1 + 1 = n BY <1>5
  <2>3. SubSeq(now, 1, n) \in Seq(Nat) BY <2>1, <2>2, SubSeqProperties
  <2>4. Len(SubSeq(now, 1, n)) = IF 1 <= n THEN n - 1 + 1 ELSE 0 BY <2>1, <2>2, SubSeqProperties
  <2>5. \A i \in 1..n - 1 + 1 : SubSeq(now, 1, n)[i] = now[1 + i - 1] BY <2>1, <2>2, SubSeqProperties
  <2>6. \A i \in 1..n : SubSeq(now, 1, n)[i] = old[i] BY <1>5, <1>7, <2>5
  <2>7. Len(SubSeq(now, 1, n)) = n BY <1>5, <2>4
  <2> QED BY <1>6, <2>3, <2>6, <2>7, SeqEqual
<1> HIDE DEF now, old, new
<1>9. Len(LogOf(k)') = Len(LogOf(k)) + 1 /\ SubSeq(LogOf(k)', 1, Len(LogOf(k))) = LogOf(k)
  BY <1>4, <1>6, <1>7, <1>8 DEF old
<1> QED BY <1>3, <1>9
===============================================================================
