-------------------------- MODULE ImportJobsProofs --------------------------
(***************************************************************************)
(* The queue in front of the import workers is counted exactly, no         *)
(* replaced token stays cached unnoticed, and a report says of every row   *)
(* what the store did with its entry, for any jobs, uploads and limits.    *)
(***************************************************************************)
EXTENDS ImportJobs, FiniteSetTheorems, TLAPS

-----------------------------------------------------------------------------
(***************************************************************************)
(* Folds. The sums and the sequences of the model are folds, so what they  *)
(* are is proved by induction: the strict subsets of a finite set are well *)
(* founded, and a set without a least counterexample has none.             *)
(***************************************************************************)
\* A set of numbers that has zero and the successor of each of its elements is
\* all of them.
LEMMA Induction ==
  ASSUME NEW T \in SUBSET Nat, 0 \in T, \A n \in T : n + 1 \in T
  PROVE  T = Nat
<1>. SUFFICES ASSUME NEW n \in Nat, n \notin T PROVE FALSE
  OBVIOUS
<1>. DEFINE Missing == {0..k : k \in {k \in 0..n : k \notin T}}
<1>1. IsWellFoundedOn(StrictSubsetOrdering(0..n), FiniteSubsetsOf(0..n))
  BY FS_StrictSubsetOrderingWellFounded
<1>2. Missing \subseteq FiniteSubsetsOf(0..n)
  <2>1. ASSUME NEW k \in 0..n PROVE 0..k \in FiniteSubsetsOf(0..n)
    <3>1. 0..k \subseteq 0..n /\ k \in Int
      OBVIOUS
    <3>2. IsFiniteSet(0..k)
      BY <3>1, FS_Interval
    <3>. QED
      BY <3>1, <3>2 DEF FiniteSubsetsOf
  <2>. QED
    BY <2>1
<1>3. Missing # {}
  OBVIOUS
<1>4. PICK s \in Missing : \A t \in Missing : <<t, s>> \notin StrictSubsetOrdering(0..n)
  <2>. HIDE DEF Missing
  <2>. QED
    BY <1>1, <1>2, <1>3, WFMin
<1>5. PICK k \in 0..n : k \notin T /\ s = 0..k
  BY <1>4
<1>6. k - 1 \in 0..n /\ k - 1 \notin T
  <2>1. k # 0 /\ k - 1 \in Nat /\ (k - 1) + 1 = k
    BY <1>5
  <2>. QED
    BY <2>1, <1>5
<1>7. 0..(k - 1) \in Missing
  BY <1>6
<1>8. 0..(k - 1) \subseteq 0..k /\ 0..(k - 1) # 0..k /\ 0..k \subseteq 0..n
  <2>1. k \in 0..k /\ k \notin 0..(k - 1)
    BY <1>5
  <2>. QED
    BY <2>1, <1>5, <1>6
<1>9. <<0..(k - 1), 0..k>> \in StrictSubsetOrdering(0..n)
  BY <1>8 DEF StrictSubsetOrdering
<1>. QED
  BY <1>4, <1>5, <1>7, <1>9

\* How a fold goes through a set: c is the element that is taken next.
Folds(f, S, c, op, base) ==
  \A s \in S : f[s] = IF s = {} THEN base ELSE op[<<c[s], f[s \ {c[s]}]>>]

LEMMA FoldExists ==
  ASSUME NEW S, IsFiniteSet(S), NEW V, NEW base \in V, NEW c, NEW op,
         \A s \in SUBSET S : s # {} => c[s] \in s,
         \A x \in S : \A v \in V : op[<<x, v>>] \in V
  PROVE  \E f \in [SUBSET S -> V] : Folds(f, SUBSET S, c, op, base)
<1>. DEFINE Upto(n) == {s \in SUBSET S : Cardinality(s) <= n}
            T == {n \in Nat : \E f \in [Upto(n) -> V] : Folds(f, Upto(n), c, op, base)}
<1>0. \A s \in SUBSET S : IsFiniteSet(s) /\ Cardinality(s) \in Nat /\ (Cardinality(s) = 0 <=> s = {})
  BY FS_Subset, FS_CardinalityType, FS_EmptySet
<1>1. 0 \in T
  <2>. DEFINE f == [s \in Upto(0) |-> base]
  <2>1. \A s \in Upto(0) : s = {}
    BY <1>0
  <2>2. f \in [Upto(0) -> V] /\ Folds(f, Upto(0), c, op, base)
    BY <2>1 DEF Folds
  <2>. QED
    BY <2>2
<1>2. ASSUME NEW n \in T PROVE n + 1 \in T
  <2>1. PICK f \in [Upto(n) -> V] : Folds(f, Upto(n), c, op, base)
    OBVIOUS
  <2>2. ASSUME NEW s \in Upto(n + 1), s # {} PROVE s \ {c[s]} \in Upto(n) /\ c[s] \in S
    <3>1. c[s] \in s /\ s \in SUBSET S
      BY <2>2
    <3>2. Cardinality(s \ {c[s]}) = Cardinality(s) - 1
      BY <3>1, <1>0, FS_RemoveElement
    <3>. QED
      BY <3>1, <3>2, <1>0
  <2>. DEFINE g == [s \in Upto(n + 1) |-> IF s = {} THEN base ELSE op[<<c[s], f[s \ {c[s]}]>>]]
  <2>3. g \in [Upto(n + 1) -> V]
    BY <2>2
  <2>4. Upto(n) \subseteq Upto(n + 1)
    BY <1>0
  <2>5. \A s \in Upto(n) : g[s] = f[s]
    BY <2>1, <2>4 DEF Folds
  <2>6. Folds(g, Upto(n + 1), c, op, base)
    BY <2>2, <2>5 DEF Folds
  <2>. HIDE DEF g, Upto
  <2>7. \E h \in [Upto(n + 1) -> V] : Folds(h, Upto(n + 1), c, op, base)
    BY <2>3, <2>6
  <2>. QED
    BY <2>7
<1>3. T = Nat
  <2>. HIDE DEF T
  <2>1. T \in SUBSET Nat
    BY DEF T
  <2>. QED
    BY <1>1, <1>2, <2>1, Induction
<1>4. Cardinality(S) \in T
  BY <1>0, <1>3
<1>5. Upto(Cardinality(S)) = SUBSET S
  BY <1>0, FS_Subset
<1>6. \E f \in [Upto(Cardinality(S)) -> V] : Folds(f, Upto(Cardinality(S)), c, op, base)
  <2>. HIDE DEF Upto
  <2>. QED
    BY <1>4
<1>. HIDE DEF T, Upto
<1>. QED
  BY <1>5, <1>6

\* The functions go on from an equal value to an equal one.
InStep(f, g, S, c) ==
  /\ f[{}] = g[{}]
  /\ \A s \in SUBSET S : s # {} /\ f[s \ {c[s]}] = g[s \ {c[s]}] => f[s] = g[s]

Chooses(c, S) == \A s \in SUBSET S : s # {} => c[s] \in s

\* Two functions that go through a set in the same way and start from the same
\* value are equal.
LEMMA FoldsAgree ==
  ASSUME NEW S, IsFiniteSet(S), NEW c, NEW f, NEW g,
         Chooses(c, S), InStep(f, g, S, c)
  PROVE  \A s \in SUBSET S : f[s] = g[s]
<1>. DEFINE T == {n \in Nat : \A s \in SUBSET S : Cardinality(s) = n => f[s] = g[s]}
<1>0. \A s \in SUBSET S : IsFiniteSet(s) /\ Cardinality(s) \in Nat /\ (Cardinality(s) = 0 <=> s = {})
  BY FS_Subset, FS_CardinalityType, FS_EmptySet
<1>i. \A s \in SUBSET S : s # {} /\ f[s \ {c[s]}] = g[s \ {c[s]}] => f[s] = g[s]
  BY DEF InStep
<1>1. 0 \in T
  BY <1>0 DEF InStep
<1>2. ASSUME NEW n \in T PROVE n + 1 \in T
  <2>1. ASSUME NEW s \in SUBSET S, Cardinality(s) = n + 1 PROVE f[s] = g[s]
    <3>1. s # {} /\ c[s] \in s
      BY <1>0, <2>1 DEF Chooses
    <3>2. Cardinality(s \ {c[s]}) = n
      <4>1. IsFiniteSet(s) /\ n \in Nat
        BY <1>0
      <4>2. Cardinality(s \ {c[s]}) = Cardinality(s) - 1
        BY <3>1, <4>1, FS_RemoveElement
      <4>. QED
        BY <2>1, <4>1, <4>2
    <3>3. f[s \ {c[s]}] = g[s \ {c[s]}]
      BY <3>2
    <3>. QED
      BY <1>i, <3>1, <3>3
  <2>. QED
    BY <2>1
<1>3. T = Nat
  <2>. HIDE DEF T
  <2>1. T \in SUBSET Nat
    BY DEF T
  <2>. QED
    BY <1>1, <1>2, <2>1, Induction
<1>. QED
  BY <1>0, <1>3

-----------------------------------------------------------------------------
(***************************************************************************)
(* The sum of sizes that the queue is counted against.                     *)
(***************************************************************************)
Total(b, S) == MapThenSumSet(LAMBDA j : Bytes(b[j]), S)

First(s) == CHOOSE x \in s : TRUE

SumsUp(b, f, s) == f[s] = IF s = {} THEN 0 ELSE Bytes(b[First(s)]) + f[s \ {First(s)}]

LEMMA FirstIn == \A s : s # {} => First(s) \in s
  BY DEF First

\* The sum is the value of a fold, for every subset.
LEMMA TotalFolds ==
  ASSUME NEW b, NEW S, IsFiniteSet(S), \A j \in S : Bytes(b[j]) \in Int
  PROVE  \E g \in [SUBSET S -> Int] :
           \A s \in SUBSET S : SumsUp(b, g, s) /\ Total(b, s) = g[s]
<1>. DEFINE c == [s \in SUBSET S |-> First(s)]
            op == [p \in S \X Int |-> Bytes(b[p[1]]) + p[2]]
<1>c. \A s \in SUBSET S : c[s] = First(s) /\ (s # {} => c[s] \in s)
  BY FirstIn
<1>o. \A x \in S : \A v \in Int : op[<<x, v>>] = Bytes(b[x]) + v /\ op[<<x, v>>] \in Int
  OBVIOUS
<1>. HIDE DEF c, op
<1>1. PICK g \in [SUBSET S -> Int] : Folds(g, SUBSET S, c, op, 0)
  <2>1. 0 \in Int
    OBVIOUS
  <2>2. \A s \in SUBSET S : s # {} => c[s] \in s
    BY <1>c
  <2>3. \A x \in S : \A v \in Int : op[<<x, v>>] \in Int
    BY <1>o
  <2>. QED
    BY <2>1, <2>2, <2>3, FoldExists
<1>2. ASSUME NEW s \in SUBSET S PROVE SumsUp(b, g, s)
  <2>1. s # {} => c[s] \in S /\ s \ {c[s]} \in SUBSET S
    BY <1>c
  <2>. QED
    BY <1>1, <1>c, <1>o, <2>1 DEF Folds, SumsUp
<1>3. ASSUME NEW U \in SUBSET S PROVE Total(b, U) = g[U]
  <2>. DEFINE f == CHOOSE f : f = [s \in SUBSET U |-> IF s = {} THEN 0
                                ELSE LET x == CHOOSE x \in s : TRUE IN Bytes(b[x]) + f[s \ {x}]]
              h == [s \in SUBSET U |-> g[s]]
  <2>1. Total(b, U) = f[U]
    BY DEF Total, MapThenSumSet, MapThenFoldSet
  <2>2. h = [s \in SUBSET U |-> IF s = {} THEN 0
               ELSE LET x == CHOOSE x \in s : TRUE IN Bytes(b[x]) + h[s \ {x}]]
    <3>1. ASSUME NEW s \in SUBSET U
          PROVE  h[s] = IF s = {} THEN 0
                        ELSE LET x == CHOOSE x \in s : TRUE IN Bytes(b[x]) + h[s \ {x}]
      BY <1>2 DEF SumsUp, First
    <3>. QED
      BY <3>1
  <2>3. f = [s \in SUBSET U |-> IF s = {} THEN 0
               ELSE LET x == CHOOSE x \in s : TRUE IN Bytes(b[x]) + f[s \ {x}]]
    <3>. HIDE DEF h
    <3>. QED
      BY <2>2
  <2>. HIDE DEF f, h
  <2>4. \A s \in SUBSET U : SumsUp(b, f, s) /\ SumsUp(b, g, s)
    BY <1>2, <2>3 DEF SumsUp, First
  <2>5. f[{}] = g[{}]
    BY <2>4 DEF SumsUp
  <2>6. \A s \in SUBSET U : s # {} /\ f[s \ {c[s]}] = g[s \ {c[s]}] => f[s] = g[s]
    BY <2>4, <1>c DEF SumsUp
  <2>7. IsFiniteSet(U)
    BY FS_Subset
  <2>8. Chooses(c, U) /\ InStep(f, g, U, c)
    BY <1>c, <2>5, <2>6 DEF Chooses, InStep
  <2>9. \A s \in SUBSET U : f[s] = g[s]
    BY <2>7, <2>8, FoldsAgree
  <2>. QED
    BY <2>1, <2>9
<1>. QED
  BY <1>2, <1>3

\* It does not matter in which order the sum is taken.
LEMMA TotalAdd ==
  ASSUME NEW b, NEW S, IsFiniteSet(S), \A j \in S : Bytes(b[j]) \in Int, NEW x \in S
  PROVE  Total(b, S) \in Int /\ Total(b, S) = Total(b, S \ {x}) + Bytes(b[x])
<1>1. PICK g \in [SUBSET S -> Int] : \A s \in SUBSET S : SumsUp(b, g, s) /\ Total(b, s) = g[s]
  BY TotalFolds
<1>. DEFINE T == {n \in Nat : \A s \in SUBSET S : Cardinality(s) = n =>
                      \A y \in s : g[s] = g[s \ {y}] + Bytes(b[y])}
<1>0. \A s \in SUBSET S : IsFiniteSet(s) /\ Cardinality(s) \in Nat /\ (Cardinality(s) = 0 <=> s = {})
  BY FS_Subset, FS_CardinalityType, FS_EmptySet
<1>2. 0 \in T
  BY <1>0
<1>3. ASSUME NEW n \in T PROVE n + 1 \in T
  <2>1. ASSUME NEW s \in SUBSET S, Cardinality(s) = n + 1, NEW y \in s
        PROVE  g[s] = g[s \ {y}] + Bytes(b[y])
    <3>. DEFINE z == First(s)
    <3>1. z \in s /\ g[s] = Bytes(b[z]) + g[s \ {z}]
      BY <1>1, FirstIn DEF SumsUp
    <3>. HIDE DEF z
    <3>2. CASE z = y
      BY <1>1, <3>1, <3>2
    <3>3. CASE z # y
      <4>1. Cardinality(s \ {z}) = n /\ Cardinality(s \ {y}) = n
        BY <1>0, <2>1, <3>1, FS_RemoveElement
      <4>2. /\ g[s \ {z}] = g[(s \ {z}) \ {y}] + Bytes(b[y])
            /\ g[s \ {y}] = g[(s \ {y}) \ {z}] + Bytes(b[z])
        BY <4>1, <3>1, <3>3
      <4>3. (s \ {z}) \ {y} = (s \ {y}) \ {z}
        OBVIOUS
      <4>4. g[(s \ {y}) \ {z}] \in Int /\ Bytes(b[y]) \in Int /\ Bytes(b[z]) \in Int
        BY <1>1, <3>1
      <4>. QED
        <5>1. g[s \ {z}] = g[(s \ {y}) \ {z}] + Bytes(b[y])
          BY <4>2, <4>3
        <5>2. ASSUME NEW p, NEW q, NEW r \in Int, NEW u \in Int, NEW v \in Int,
                     p = r + v, q = r + u
              PROVE  u + p = q + v
          BY <5>2
        <5>3. Bytes(b[z]) + g[s \ {z}] = g[s \ {y}] + Bytes(b[y])
          BY <5>1, <5>2, <4>2, <4>4
        <5>. QED
          BY <3>1, <5>3
    <3>. QED
      BY <3>2, <3>3
  <2>. QED
    BY <2>1
<1>4. T = Nat
  <2>. HIDE DEF T
  <2>1. T \in SUBSET Nat
    BY DEF T
  <2>. QED
    BY <1>2, <1>3, <2>1, Induction
<1>. QED
  BY <1>0, <1>1, <1>4

LEMMA TotalInt ==
  ASSUME NEW b, NEW S, IsFiniteSet(S), \A j \in S : Bytes(b[j]) \in Int
  PROVE  Total(b, S) \in Int
<1>1. PICK g \in [SUBSET S -> Int] : \A s \in SUBSET S : SumsUp(b, g, s) /\ Total(b, s) = g[s]
  BY TotalFolds
<1>. QED
  BY <1>1

LEMMA TotalEmpty == \A b : Total(b, {}) = 0
<1>. TAKE b
<1>1. IsFiniteSet({}) /\ \A j \in {} : Bytes(b[j]) \in Int
  BY FS_EmptySet
<1>2. PICK g \in [SUBSET {} -> Int] : \A s \in SUBSET {} : SumsUp(b, g, s) /\ Total(b, s) = g[s]
  BY <1>1, TotalFolds
<1>. QED
  BY <1>2 DEF SumsUp

\* Only the jobs in the set count.
LEMMA TotalSame ==
  ASSUME NEW b, NEW d, NEW S, IsFiniteSet(S),
         \A j \in S : Bytes(b[j]) \in Int /\ Bytes(d[j]) = Bytes(b[j])
  PROVE  Total(b, S) = Total(d, S)
<1>1. PICK f \in [SUBSET S -> Int] : \A s \in SUBSET S : SumsUp(b, f, s) /\ Total(b, s) = f[s]
  BY TotalFolds
<1>2. PICK g \in [SUBSET S -> Int] : \A s \in SUBSET S : SumsUp(d, g, s) /\ Total(d, s) = g[s]
  BY TotalFolds
<1>. DEFINE c == [s \in SUBSET S |-> First(s)]
<1>3. \A s \in SUBSET S : c[s] = First(s) /\ (s # {} => c[s] \in s)
  BY FirstIn
<1>4. f[{}] = g[{}]
  BY <1>1, <1>2 DEF SumsUp
<1>. HIDE DEF c
<1>5. ASSUME NEW s \in SUBSET S, s # {}, f[s \ {c[s]}] = g[s \ {c[s]}] PROVE f[s] = g[s]
  <2>1. First(s) \in S /\ c[s] = First(s)
    BY <1>3, <1>5
  <2>. QED
    BY <1>1, <1>2, <1>5, <2>1 DEF SumsUp
<1>6. \A s \in SUBSET S : f[s] = g[s]
  <2>1. Chooses(c, S) /\ InStep(f, g, S, c)
    BY <1>3, <1>4, <1>5 DEF Chooses, InStep
  <2>. QED
    BY <2>1, FoldsAgree
<1>. QED
  BY <1>1, <1>2, <1>6

\* The greatest element of a finite set of numbers.
LEMMA MaxIn ==
  ASSUME NEW n \in Nat, NEW s \in SUBSET (1..n), s # {}
  PROVE  Max(s) \in s /\ \A i \in s : Max(s) >= i
<1>. DEFINE T == {m \in Nat : (\E i \in s : i <= m) => \E x \in s : \A y \in s : y <= m => x >= y}
<1>1. 0 \in T
  OBVIOUS
<1>2. ASSUME NEW m \in T PROVE m + 1 \in T
  <2>1. CASE m + 1 \in s
    BY <2>1
  <2>2. CASE m + 1 \notin s
    <3>1. \A y \in s : y <= m + 1 <=> y <= m
      BY <2>2
    <3>. QED
      BY <3>1
  <2>. QED
    BY <2>1, <2>2
<1>3. T = Nat
  <2>. HIDE DEF T
  <2>1. T \in SUBSET Nat
    BY DEF T
  <2>. QED
    BY <1>1, <1>2, <2>1, Induction
<1>4. \E x \in s : \A y \in s : x >= y
  <2>1. (\E i \in s : i <= n) => \E x \in s : \A y \in s : y <= n => x >= y
    BY <1>3
  <2>2. \A y \in s : y <= n
    OBVIOUS
  <2>. HIDE DEF T
  <2>. QED
    BY <2>1, <2>2
<1>. QED
  BY <1>4 DEF Max

\* The size of a batch of files is a number.
LEMMA BytesNat ==
  ASSUME NEW files \in Seq(Files)
  PROVE  Bytes(files) \in Nat
<1>. DEFINE D == DOMAIN files
            c == [s \in SUBSET D |-> Max(s)]
            op == [p \in D \X Nat |-> p[2] + files[p[1]].size]
            f == CHOOSE f : f = [s \in SUBSET D |-> IF s = {} THEN 0
                     ELSE LET x == Max(s) IN f[s \ {x}] + files[x].size]
<1>d. D = 1..Len(files) /\ Len(files) \in Nat /\ \A x \in D : files[x].size \in Nat
  BY SizesOK
<1>1. Bytes(files) = f[D]
  BY DEF Bytes, FoldLeft, MapThenFoldSet
<1>2. IsFiniteSet(D)
  BY <1>d, FS_Interval
<1>. HIDE DEF D
<1>c. \A s \in SUBSET D : c[s] = Max(s) /\ (s # {} => c[s] \in s)
  BY <1>d, MaxIn
<1>o. \A x \in D : \A v \in Nat : op[<<x, v>>] = v + files[x].size /\ op[<<x, v>>] \in Nat
  BY <1>d
<1>. HIDE DEF c, op
<1>3. PICK g \in [SUBSET D -> Nat] : Folds(g, SUBSET D, c, op, 0)
  <2>1. 0 \in Nat
    OBVIOUS
  <2>2. \A s \in SUBSET D : s # {} => c[s] \in s
    BY <1>c
  <2>3. \A x \in D : \A v \in Nat : op[<<x, v>>] \in Nat
    BY <1>o
  <2>. QED
    BY <1>2, <2>1, <2>2, <2>3, FoldExists
<1>4. ASSUME NEW s \in SUBSET D
      PROVE  g[s] = IF s = {} THEN 0 ELSE LET x == Max(s) IN g[s \ {x}] + files[x].size
  <2>1. CASE s = {}
    BY <1>3, <2>1 DEF Folds
  <2>2. CASE s # {}
    <3>1. c[s] = Max(s) /\ c[s] \in D
      BY <1>c, <2>2
    <3>2. g[s \ {c[s]}] \in Nat
      BY <1>3
    <3>3. g[s] = op[<<c[s], g[s \ {c[s]}]>>]
      BY <1>3, <2>2 DEF Folds
    <3>. QED
      BY <1>o, <2>2, <3>1, <3>2, <3>3
  <2>. QED
    BY <2>1, <2>2
<1>5. g = [s \in SUBSET D |-> IF s = {} THEN 0
             ELSE LET x == Max(s) IN g[s \ {x}] + files[x].size]
  BY <1>4
<1>6. f = [s \in SUBSET D |-> IF s = {} THEN 0
             ELSE LET x == Max(s) IN f[s \ {x}] + files[x].size]
  BY <1>5
<1>. HIDE DEF f
<1>7. InStep(f, g, D, c) /\ Chooses(c, D)
  <2>1. f[{}] = g[{}]
    BY <1>4, <1>6
  <2>2. ASSUME NEW s \in SUBSET D, s # {}, f[s \ {c[s]}] = g[s \ {c[s]}] PROVE f[s] = g[s]
    <3>1. c[s] = Max(s)
      BY <1>c
    <3>2. f[s] = f[s \ {Max(s)}] + files[Max(s)].size
      BY <1>6, <2>2
    <3>3. g[s] = g[s \ {Max(s)}] + files[Max(s)].size
      BY <1>4, <2>2
    <3>. QED
      BY <2>2, <3>1, <3>2, <3>3
  <2>. QED
    BY <1>c, <2>1, <2>2 DEF InStep, Chooses
<1>8. \A s \in SUBSET D : f[s] = g[s]
  BY <1>2, <1>7, FoldsAgree
<1>. QED
  BY <1>1, <1>8

-----------------------------------------------------------------------------
(***************************************************************************)
(* The invariant.                                                          *)
(***************************************************************************)
\* Every kept report has a status, and every job knows what it stored.
Recorded ==
  /\ \A j \in DOMAIN table : "status" \in DOMAIN table[j]
  /\ DOMAIN work = Jobs
  /\ \A j \in Jobs : "stored" \in DOMAIN work[j]

JobsInv == TypeOK /\ Recorded /\ JobsExact /\ SlotsExact /\ StaleUntilTold

\* A step of a job that holds a slot and keeps it.
Working(j) ==
  \/ Begin(j) \/ NextFile(j) \/ ParseFile(j) \/ Overflow(j)
  \/ Persist(j) \/ Write(j) \/ Tell(j) \/ Finish(j)

StatusKnown(report) ==
  "status" \in DOMAIN report /\ report.status \in Final \cup {"queued", "running"}

Known(reports) == \A j \in DOMAIN reports : StatusKnown(reports[j])

-----------------------------------------------------------------------------
(***************************************************************************)
(* Reports.                                                                *)
(***************************************************************************)
\* Forgetting reports changes none.
LEMMA PrunedKnown ==
  ASSUME NEW reports, Known(reports), NEW left \in Pruned(reports)
  PROVE  Known(left)
<1>1. PICK kept \in Retained(reports, Young(reports)) :
        left = [j \in {i \in DOMAIN reports : ~Finished(reports[i])} \cup kept |-> reports[j]]
  BY DEF Pruned
<1>2. kept \subseteq DOMAIN reports
  BY DEF Retained, Young
<1>. QED
  BY <1>1, <1>2 DEF Known

LEMMA PublishKnown ==
  ASSUME Known(table), NEW j, NEW report, Publish(j, report),
         j \in DOMAIN table => StatusKnown(report)
  PROVE  Known(table)'
<1>1. PICK reports \in {IF j \in DOMAIN table THEN [table EXCEPT ![j] = report] ELSE table} :
        table' \in Pruned(reports)
  BY DEF Publish
<1>2. Known(reports)
  BY <1>1 DEF Known
<1>. QED
  BY <1>1, <1>2, PrunedKnown

\* A new report joins those that are left.
LEMMA AcceptKnown ==
  ASSUME Known(table), NEW j, NEW files, NEW at, Accept(j, files, at)
  PROVE  Known(table)'
<1>1. PICK reports \in Pruned(table) :
        table' = [i \in DOMAIN reports \cup {j} |->
                    IF i = j THEN NewReport(files) ELSE reports[i]]
  BY DEF Accept
<1>2. Known(reports)
  BY <1>1, PrunedKnown
<1>3. StatusKnown(NewReport(files))
  BY DEF NewReport, StatusKnown
<1>. QED
  BY <1>1, <1>2, <1>3 DEF Known

LEMMA ProgressKnown ==
  ASSUME Known(table), NEW j, NEW w, Progress(j, w)
  PROVE  Known(table)'
<1>. DEFINE report == [table[j] EXCEPT !.files[w.n] = [status |-> "parsed", rows |-> w.rows[w.n]]]
<1>1. j \in DOMAIN table => StatusKnown(report)
  BY DEF Known, StatusKnown
<1>. QED
  BY <1>1, PublishKnown DEF Progress

\* The report of a job that ends.
LEMMA VerdictFinal ==
  ASSUME NEW rows
  PROVE  Verdict(rows) \in Final
  BY DEF Verdict, Final

LEMMA FinalKnown ==
  ASSUME NEW files, NEW rows, NEW timedOut
  PROVE  StatusKnown(FinalReport(files, rows, timedOut))
  BY VerdictFinal DEF FinalReport, StatusKnown

-----------------------------------------------------------------------------
(***************************************************************************)
(* The worker.                                                             *)
(***************************************************************************)
\* What a step of a worker does to the reports.
LEMMA WorkingKnown ==
  ASSUME Known(table), NEW j \in Jobs, Working(j)
  PROVE  Known(table)'
<1>1. CASE Begin(j)
  <2>. DEFINE report == [table[j] EXCEPT !.status = "running"]
  <2>1. j \in DOMAIN table => StatusKnown(report)
    BY DEF Known, StatusKnown
  <2>. QED
    BY <1>1, <2>1, PublishKnown DEF Begin
<1>2. CASE NextFile(j)
  <2>. DEFINE report == [table[j] EXCEPT !.files[work[j].n].status = "running"]
  <2>1. j \in DOMAIN table => StatusKnown(report)
    BY DEF Known, StatusKnown
  <2>2. table' = table \/ Publish(j, report)
    BY <1>2 DEF NextFile
  <2>. QED
    BY <2>1, <2>2, PublishKnown DEF Known
<1>3. CASE ParseFile(j)
  BY <1>3, ProgressKnown DEF ParseFile
<1>4. CASE Overflow(j)
  BY <1>4, ProgressKnown DEF Overflow
<1>5. CASE Finish(j)
  BY <1>5, FinalKnown, PublishKnown DEF Finish
<1>6. CASE Persist(j) \/ Write(j) \/ Tell(j)
  BY <1>6 DEF Persist, Write, Tell, Known
<1>. QED
  BY <1>1, <1>2, <1>3, <1>4, <1>5, <1>6 DEF Working

\* It moves on, inside the work or out of it, and keeps its slot.
Moved(j) ==
  \E to \in Active \cup {"release"} : \E w :
    /\ pc[j] \in Active /\ Step(j, to, w)
    /\ "stored" \in DOMAIN w
    /\ to = "tell" => pc[j] = "write"
    /\ UNCHANGED <<queue, sem, now, serves>>

LEMMA MovesOn ==
  ASSUME NEW j, NEW to \in Active \cup {"release"}, NEW w, Step(j, to, w), pc[j] \in Active,
         "stored" \in DOMAIN w, to = "tell" => pc[j] = "write",
         UNCHANGED <<queue, sem, now, serves>>
  PROVE  Moved(j)
  BY DEF Moved

LEMMA ParsedShape ==
  ASSUME NEW w, NEW c, NEW failing
  PROVE  DOMAIN Parsed(w, c, failing) = DOMAIN w
  BY DEF Parsed, TakeEntries

LEMMA FailingShape ==
  ASSUME NEW w
  PROVE  DOMAIN Failing(w) = DOMAIN w
  BY DEF Failing, Marked

LEMMA WorkMoves ==
  ASSUME Recorded, NEW j \in Jobs, Working(j)
  PROVE  Moved(j)
<1>. USE DEF Active
<1>. "stored" \in DOMAIN work[j]
  BY DEF Recorded
<1>1. CASE Begin(j)
  BY <1>1 DEF Begin, WorkerOnly, Moved, Step
<1>2. CASE NextFile(j)
  <2>1. pc[j] \in Active /\ UNCHANGED <<queue, sem, now, serves>>
    BY <1>2 DEF NextFile, WorkerOnly
  <2>2. Step(j, "persist", work[j]) \/ Step(j, "parsing", work[j])
    BY <1>2 DEF NextFile
  <2>. QED
    BY <2>1, <2>2, MovesOn
<1>3. CASE ParseFile(j)
  <2>. DEFINE c == Contents[batch[j][work[j].n]]
  <2>1. pc[j] \in Active /\ UNCHANGED <<queue, sem, now, serves>>
    BY <1>3 DEF ParseFile, WorkerOnly
  <2>2. PICK failing \in IF c.via = "sso" THEN SUBSET DOMAIN c.list ELSE {{}} :
          \E u \in {Parsed(work[j], c, failing)} :
            \/ Step(j, "persist", u) \/ Step(j, "overflow", u)
            \/ Step(j, "next", [u EXCEPT !.n = @ + 1])
    BY <1>3 DEF ParseFile
  <2>3. PICK u \in {Parsed(work[j], c, failing)} :
            \/ Step(j, "persist", u) \/ Step(j, "overflow", u)
            \/ Step(j, "next", [u EXCEPT !.n = @ + 1])
    BY <2>2
  <2>4. DOMAIN u = DOMAIN work[j] /\ DOMAIN [u EXCEPT !.n = @ + 1] = DOMAIN work[j]
    BY <2>3, ParsedShape
  <2>. QED
    BY <2>1, <2>3, <2>4, MovesOn
<1>4. CASE Overflow(j)
  BY <1>4 DEF Overflow, WorkerOnly, Moved, Step
<1>5. CASE Persist(j)
  <2>1. pc[j] \in Active /\ UNCHANGED <<queue, sem, now, serves>>
    BY <1>5 DEF Persist
  <2>2. \/ Step(j, "finish", work[j]) \/ Step(j, "finish", Failing(work[j]))
        \/ Step(j, "write", work[j])
    BY <1>5 DEF Persist
  <2>. QED
    BY <2>1, <2>2, FailingShape, MovesOn
<1>6. CASE Write(j)
  <2>. DEFINE result == BulkUpsert([i \in DOMAIN work[j].pending |-> work[j].pending[i].in])
  <2>1. pc[j] = "write" /\ UNCHANGED <<queue, sem, now, serves>>
    BY <1>6 DEF Write
  <2>2. \/ Step(j, "finish", Failing(work[j]))
        \/ Step(j, "tell", [work[j] EXCEPT !.stored = result.results])
    BY <1>6 DEF Write
  <2>3. DOMAIN [work[j] EXCEPT !.stored = result.results] = DOMAIN work[j]
    OBVIOUS
  <2>. QED
    BY <2>1, <2>2, <2>3, FailingShape, MovesOn
<1>7. CASE Tell(j)
  BY <1>7 DEF Tell, Marked, Moved, Step
<1>8. CASE Finish(j)
  <2>1. pc[j] \in Active /\ Step(j, "release", NoWork) /\ UNCHANGED <<queue, sem, now, serves>>
    BY <1>8 DEF Finish, WorkerOnly
  <2>2. "stored" \in DOMAIN NoWork
    BY DEF NoWork
  <2>. QED
    BY <2>1, <2>2, MovesOn
<1>. QED
  BY <1>1, <1>2, <1>3, <1>4, <1>5, <1>6, <1>7, <1>8 DEF Working

-----------------------------------------------------------------------------
(***************************************************************************)
(* The queue and the slots.                                                *)
(***************************************************************************)
Counted == JobsExact /\ SlotsExact
Typed == pc \in [Jobs -> Stages] /\ DOMAIN queue = {"jobs", "bytes"} /\ queue.jobs \in Nat

LEMMA WaitingFinite == IsFiniteSet(Waiting) /\ IsFiniteSet(Holders)
  BY JobsFinite, FS_Subset DEF Waiting, Holders

\* A job neither enters nor leaves the queue or a slot.
LEMMA CountKept ==
  ASSUME Counted, Waiting' = Waiting, Holders' = Holders, UNCHANGED <<queue, sem>>
  PROVE  Counted'
  BY DEF Counted, JobsExact, SlotsExact

LEMMA MovedCounts ==
  ASSUME Typed, Counted, NEW j \in Jobs, Moved(j)
  PROVE  (Typed /\ Counted)'
<1>1. PICK to \in Active \cup {"release"} :
        /\ pc[j] \in Active /\ pc' = [pc EXCEPT ![j] = to]
        /\ UNCHANGED <<queue, sem>>
  BY DEF Moved, Step
<1>2. Typed'
  BY <1>1 DEF Typed, Stages
<1>3. Waiting' = Waiting /\ Holders' = Holders
  BY <1>1 DEF Typed, Waiting, Holders, Active, Ready
<1>. QED
  BY <1>1, <1>2, <1>3, CountKept

LEMMA StartCounts ==
  ASSUME Typed, Counted, NEW j \in Jobs, NEW files, Start(j, files)
  PROVE  (Typed /\ Counted)'
<1>. USE DEF Typed, Counted, Waiting, Holders, Ready, Active, Stages, Resting
<1>1. CASE StartNow(j, files)
  <2>1. Cardinality(sem) < Concurrency /\ sem' = sem \cup {j} /\ UNCHANGED queue
        /\ pc' = [pc EXCEPT ![j] = "begin"] /\ pc[j] = "new"
    BY <1>1 DEF Start, StartNow, Accept, TakesSlot
  <2>2. Waiting' = Waiting /\ Holders' = Holders \cup {j} /\ j \notin Holders
    BY <2>1
  <2>3. Cardinality(sem') = Cardinality(sem) + 1 /\ Cardinality(sem) \in Nat
    BY <2>1, <2>2, WaitingFinite, FS_AddElement, FS_CardinalityType DEF SlotsExact
  <2>. QED
    BY <2>1, <2>2, <2>3, LimitsOK DEF JobsExact, SlotsExact
<1>2. CASE StartLater(j, files)
  <2>1. queue' = [jobs |-> queue.jobs + 1, bytes |-> queue.bytes + Bytes(files)]
        /\ queue.jobs < MaxQueuedJobs /\ UNCHANGED sem
        /\ pc' = [pc EXCEPT ![j] = "queued"] /\ pc[j] = "new"
    BY <1>2 DEF Start, StartLater, Accept, HasRoom
  <2>2. Holders' = Holders /\ Waiting' = Waiting \cup {j} /\ j \notin Waiting
    BY <2>1
  <2>3. Cardinality(Waiting') = Cardinality(Waiting) + 1
    BY <2>2, WaitingFinite, FS_AddElement
  <2>. QED
    BY <2>1, <2>2, <2>3, LimitsOK DEF JobsExact, SlotsExact
<1>3. CASE Overloaded(j, files)
  <2>1. pc' = [pc EXCEPT ![j] = "overloaded"] /\ pc[j] = "new" /\ UNCHANGED <<queue, sem>>
    BY <1>3 DEF Start, Overloaded
  <2>2. Waiting' = Waiting /\ Holders' = Holders
    BY <2>1
  <2>. QED
    BY <2>1, <2>2, CountKept
<1>. QED
  BY <1>1, <1>2, <1>3 DEF Start

LEMMA RefuseCounts ==
  ASSUME Typed, Counted, NEW j \in Jobs, NEW files, Refuse(j, files)
  PROVE  (Typed /\ Counted)'
<1>1. pc' = [pc EXCEPT ![j] = "invalid"] /\ pc[j] = "new" /\ UNCHANGED <<queue, sem>>
  BY DEF Refuse
<1>2. Waiting' = Waiting /\ Holders' = Holders
  BY <1>1 DEF Typed, Waiting, Holders, Ready, Active
<1>. QED
  BY <1>1, <1>2, CountKept DEF Typed, Stages, Resting

\* The job is in the queue and holds a slot at once.
LEMMA TakeSlotCounts ==
  ASSUME Typed, Counted, NEW j \in Jobs, TakeSlot(j)
  PROVE  (Typed /\ Counted)'
<1>. USE DEF Typed, Counted, Ready, Active, Stages
<1>1. Cardinality(sem) < Concurrency /\ sem' = sem \cup {j} /\ UNCHANGED queue
      /\ pc' = [pc EXCEPT ![j] = "slot"] /\ pc[j] = "queued"
  BY DEF TakeSlot
<1>2. Waiting' = Waiting /\ Holders' = Holders \cup {j} /\ j \notin Holders
  BY <1>1 DEF Waiting, Holders
<1>3. Cardinality(sem') = Cardinality(sem) + 1 /\ Cardinality(sem) \in Nat
  BY <1>1, <1>2, WaitingFinite, FS_AddElement, FS_CardinalityType DEF SlotsExact
<1>. QED
  BY <1>1, <1>2, <1>3, LimitsOK DEF JobsExact, SlotsExact

LEMMA LeaveQueueCounts ==
  ASSUME Typed, Counted, NEW j \in Jobs, LeaveQueue(j)
  PROVE  (Typed /\ Counted)'
<1>. USE DEF Typed, Counted, Ready, Active, Stages
<1>1. queue' = [jobs |-> queue.jobs - 1, bytes |-> queue.bytes - Bytes(batch[j])]
      /\ pc' = [pc EXCEPT ![j] = "begin"] /\ pc[j] = "slot" /\ UNCHANGED sem
  BY DEF LeaveQueue
<1>2. Holders' = Holders /\ Waiting' = Waiting \ {j} /\ j \in Waiting
  BY <1>1 DEF Waiting, Holders
<1>3. /\ Cardinality(Waiting') = Cardinality(Waiting) - 1
      /\ Cardinality(Waiting') \in Nat /\ Cardinality(Waiting) \in Nat
  <2>1. IsFiniteSet(Waiting')
    BY <1>2, WaitingFinite, FS_Subset
  <2>. QED
    BY <2>1, <1>2, WaitingFinite, FS_RemoveElement, FS_CardinalityType
<1>. QED
  BY <1>1, <1>2, <1>3, LimitsOK DEF JobsExact, SlotsExact

LEMMA ReleaseCounts ==
  ASSUME Typed, Counted, NEW j \in Jobs, Release(j)
  PROVE  (Typed /\ Counted)'
<1>. USE DEF Typed, Counted, Ready, Active, Stages, Resting
<1>1. sem' = sem \ {j} /\ UNCHANGED queue /\ pc' = [pc EXCEPT ![j] = "done"] /\ pc[j] = "release"
  BY DEF Release
<1>2. Waiting' = Waiting /\ Holders' = Holders \ {j} /\ j \in Holders
  BY <1>1 DEF Waiting, Holders
<1>3. Cardinality(sem') <= Cardinality(sem) /\ Cardinality(sem) \in Nat /\ Cardinality(sem') \in Nat
  BY <1>1, <1>2, WaitingFinite, FS_Subset, FS_CardinalityType DEF SlotsExact
<1>. QED
  BY <1>1, <1>2, <1>3, LimitsOK DEF JobsExact, SlotsExact

-----------------------------------------------------------------------------
(***************************************************************************)
(* Replaced tokens.                                                        *)
(***************************************************************************)
\* The job that is about to tell the refresher about the credential.
Tells(id, j) == pc[j] = "tell" /\ \E i \in DOMAIN work[j].stored : work[j].stored[i].id = id

LEMMA StaleMeansTells == StaleUntilTold <=> \A id \in stale : \E j \in Jobs : Tells(id, j)
  BY DEF StaleUntilTold, Tells

\* A step of one job keeps what the others are about to tell.
LEMMA OthersTell ==
  ASSUME Typed, Recorded, NEW j \in Jobs, NEW to, NEW w, Step(j, to, w),
         NEW k \in Jobs \ {j}, NEW id, Tells(id, k)
  PROVE  Tells(id, k)'
  BY DEF Typed, Recorded, Step, Tells

LEMMA WorkingStale ==
  ASSUME Typed, Recorded, StaleUntilTold, stale \subseteq cached, NEW j \in Jobs, Working(j)
  PROVE  (StaleUntilTold /\ stale \subseteq cached)'
<1>0. PICK to \in Active \cup {"release"} : \E w : Step(j, to, w)
  BY WorkMoves DEF Moved
<1>w. PICK w : Step(j, to, w)
  BY <1>0
<1>1. CASE pc[j] # "tell" /\ stale' \subseteq stale /\ (stale \subseteq cached)'
  <2>1. ASSUME NEW id \in stale' PROVE \E k \in Jobs : Tells(id, k)'
    <3>1. PICK k \in Jobs : Tells(id, k)
      BY <1>1, StaleMeansTells
    <3>2. k # j
      BY <1>1, <3>1 DEF Tells
    <3>. QED
      BY <1>w, <3>1, <3>2, OthersTell
  <2>. QED
    BY <1>1, <2>1 DEF StaleUntilTold, Tells
<1>2. CASE Write(j) /\ stale' # stale
  <2>. DEFINE inputs == [i \in DOMAIN work[j].pending |-> work[j].pending[i].in]
              results == BulkUpsert(inputs).results
              ids == {results[i].id : i \in DOMAIN results}
  <2>1. /\ pc[j] = "write" /\ UNCHANGED cached
        /\ Step(j, "tell", [work[j] EXCEPT !.stored = results])
        /\ stale' = stale \cup (cached \cap ids)
    BY <1>2 DEF Write
  <2>2. pc'[j] = "tell" /\ work'[j].stored = results
    BY <2>1 DEF Step, Typed, Recorded
  <2>. HIDE DEF results
  <2>3. ASSUME NEW id \in stale' PROVE \E k \in Jobs : Tells(id, k)'
    <3>1. CASE id \in stale
      <4>1. PICK k \in Jobs : Tells(id, k)
        BY <3>1, StaleMeansTells
      <4>2. k # j
        BY <2>1, <4>1 DEF Tells
      <4>. QED
        BY <2>1, <4>1, <4>2, OthersTell
    <3>2. CASE id \in ids
      <4>1. Tells(id, j)'
        BY <2>2, <3>2 DEF Tells
      <4>. QED
        BY <4>1
    <3>. QED
      BY <2>1, <3>1, <3>2
  <2>. QED
    BY <2>1, <2>3 DEF StaleUntilTold, Tells
<1>3. CASE Tell(j)
  <2>. DEFINE ids == {work[j].stored[i].id : i \in DOMAIN work[j].stored}
  <2>1. cached' = cached \ ids /\ stale' = stale \ ids
    BY <1>3 DEF Tell
  <2>2. ASSUME NEW id \in stale' PROVE \E k \in Jobs : Tells(id, k)'
    <3>1. PICK k \in Jobs : Tells(id, k)
      BY <2>1, StaleMeansTells
    <3>2. k # j
      BY <2>1, <3>1 DEF Tells
    <3>. QED
      BY <1>w, <3>1, <3>2, OthersTell
  <2>. QED
    BY <2>1, <2>2 DEF StaleUntilTold, Tells
<1>4. Write(j) \/ Tell(j) \/ (pc[j] # "tell" /\ stale' \subseteq stale /\ (stale \subseteq cached)')
  <2>1. CASE Persist(j)
    BY <2>1 DEF Persist
  <2>2. CASE Begin(j) \/ NextFile(j) \/ ParseFile(j) \/ Overflow(j) \/ Finish(j)
    BY <2>2 DEF Begin, NextFile, ParseFile, Overflow, Finish, WorkerOnly, credentials
  <2>. QED
    BY <2>1, <2>2 DEF Working
<1>5. Write(j) /\ stale' = stale => pc[j] # "tell" /\ (stale \subseteq cached)'
  BY DEF Write
<1>. QED
  BY <1>1, <1>2, <1>3, <1>4, <1>5

\* Nobody else changes the marks, or a job that is about to tell.
LEMMA OtherStale ==
  ASSUME Typed, Recorded, StaleUntilTold, stale \subseteq cached,
         UNCHANGED stale, cached \subseteq cached',
         \A k \in Jobs : pc[k] = "tell" => pc'[k] = "tell" /\ work'[k].stored = work[k].stored
  PROVE  (StaleUntilTold /\ stale \subseteq cached)'
  BY DEF StaleUntilTold

-----------------------------------------------------------------------------
(***************************************************************************)
(* The theorems.                                                           *)
(***************************************************************************)
LEMMA InitJobs == Init => JobsInv
<1>. SUFFICES ASSUME Init PROVE JobsInv
  OBVIOUS
<1>1. Waiting = {} /\ Holders = {}
  BY DEF Init, Waiting, Holders, Ready, Active
<1>2. Cardinality({}) = 0
  BY FS_EmptySet
<1>. QED
  BY <1>1, <1>2, LimitsOK DEF Init, JobsInv, TypeOK, Recorded, JobsExact, SlotsExact,
     StaleUntilTold, Stages, Resting, NoWork

Clock == now \in 1..MaxTime /\ serves \in 0..MaxServes

LEMMA TypeParts ==
  JobsInv => /\ Typed /\ Known(table) /\ Clock /\ Counted /\ Recorded
             /\ StaleUntilTold /\ stale \subseteq cached /\ sem \subseteq Jobs
  BY DEF JobsInv, TypeOK, Typed, Known, StatusKnown, Recorded, Clock, Counted

LEMMA PartsType ==
  ASSUME (Typed /\ Known(table) /\ Clock /\ Counted /\ Recorded)',
         (StaleUntilTold /\ stale \subseteq cached)'
  PROVE  JobsInv'
  BY DEF JobsInv, TypeOK, Typed, Known, StatusKnown, Recorded, Clock, Counted, SlotsExact, Holders

LEMMA StepJobs == JobsInv /\ [Next]_vars => JobsInv'
<1>. SUFFICES ASSUME JobsInv, [Next]_vars PROVE JobsInv'
  OBVIOUS
<1>1. /\ Typed /\ Known(table) /\ Clock /\ Counted /\ Recorded
      /\ StaleUntilTold /\ stale \subseteq cached /\ sem \subseteq Jobs
  BY TypeParts DEF JobsInv
<1>2. ASSUME NEW j \in Jobs, Working(j) PROVE JobsInv'
  <2>1. (Typed /\ Counted)'
    BY <1>1, <1>2, WorkMoves, MovedCounts
  <2>2. Known(table)'
    BY <1>1, <1>2, WorkingKnown
  <2>3. (StaleUntilTold /\ stale \subseteq cached)'
    BY <1>1, <1>2, WorkingStale
  <2>4. (Clock /\ Recorded)'
    <3>1. PICK to \in Active \cup {"release"} : \E w :
            Step(j, to, w) /\ "stored" \in DOMAIN w /\ UNCHANGED <<now, serves>>
      BY <1>1, <1>2, WorkMoves DEF Moved
    <3>2. PICK w : Step(j, to, w) /\ "stored" \in DOMAIN w /\ UNCHANGED <<now, serves>>
      BY <3>1
    <3>. QED
      BY <1>1, <2>2, <3>2 DEF Step, Clock, Recorded, Known, StatusKnown
  <2>. QED
    BY <2>1, <2>2, <2>3, <2>4, PartsType
\* What is left of the state when no job goes on working.
<1>3. ASSUME Typed', Counted', Known(table)', UNCHANGED <<stale, now>>,
             cached \subseteq cached', serves' \in 0..MaxServes,
             \/ UNCHANGED work /\ \A k \in Jobs : pc[k] = "tell" => pc'[k] = "tell"
             \/ UNCHANGED pc /\ \E j \in Jobs : work' = [work EXCEPT ![j].late = TRUE]
      PROVE  JobsInv'
  <2>1. /\ DOMAIN work' = Jobs
        /\ \A k \in Jobs : "stored" \in DOMAIN work'[k] /\ work'[k].stored = work[k].stored
        /\ \A k \in Jobs : pc[k] = "tell" => pc'[k] = "tell"
    BY <1>1, <1>3 DEF Recorded
  <2>2. (StaleUntilTold /\ stale \subseteq cached)'
    BY <1>1, <1>3, <2>1, OtherStale
  <2>. QED
    BY <1>1, <1>3, <2>1, <2>2, PartsType DEF Clock, Recorded, Known, StatusKnown
<1>4. ASSUME NEW j \in Jobs, NEW files, Start(j, files) PROVE JobsInv'
  <2>1. (Typed /\ Counted)'
    BY <1>1, <1>4, StartCounts
  <2>2. /\ UNCHANGED <<work, credentials, now, serves>> /\ pc[j] = "new"
        /\ \E to : pc' = [pc EXCEPT ![j] = to]
    BY <1>4 DEF Start, StartNow, StartLater, Overloaded, Accept
  <2>3. Known(table)'
    BY <1>1, <1>4, AcceptKnown, PrunedKnown DEF Start, StartNow, StartLater, Overloaded
  <2>4. \A k \in Jobs : pc[k] = "tell" => pc'[k] = "tell"
    BY <1>1, <2>2 DEF Typed
  <2>. QED
    BY <1>1, <1>3, <2>1, <2>2, <2>3, <2>4 DEF Clock, credentials
<1>5. ASSUME NEW j \in Jobs, NEW files, Refuse(j, files) PROVE JobsInv'
  <2>1. (Typed /\ Counted)'
    BY <1>1, <1>5, RefuseCounts
  <2>2. /\ UNCHANGED <<table, work, credentials, now, serves>> /\ pc[j] = "new"
        /\ pc' = [pc EXCEPT ![j] = "invalid"]
    BY <1>5 DEF Refuse
  <2>. QED
    BY <1>1, <1>3, <2>1, <2>2 DEF Clock, credentials, Typed, Known
<1>6. ASSUME NEW j \in Jobs, TakeSlot(j) \/ LeaveQueue(j) \/ Release(j) PROVE JobsInv'
  <2>1. (Typed /\ Counted)'
    BY <1>1, <1>6, TakeSlotCounts, LeaveQueueCounts, ReleaseCounts
  <2>2. /\ UNCHANGED <<table, work, credentials, now, serves>> /\ pc[j] # "tell"
        /\ \E to : pc' = [pc EXCEPT ![j] = to]
    BY <1>6 DEF TakeSlot, LeaveQueue, Release
  <2>3. \A k \in Jobs : pc[k] = "tell" => pc'[k] = "tell"
    BY <1>1, <2>2 DEF Typed
  <2>. QED
    BY <1>1, <1>3, <2>1, <2>2, <2>3 DEF Clock, credentials, Known
<1>7. ASSUME NEW j \in Jobs, Expire(j) PROVE JobsInv'
  <2>1. /\ UNCHANGED <<queue, sem, table, pc, credentials, now, serves>>
        /\ work' = [work EXCEPT ![j].late = TRUE]
    BY <1>7 DEF Expire
  <2>2. (Typed /\ Counted)'
    BY <1>1, <2>1, CountKept DEF Typed, Waiting, Holders
  <2>. QED
    BY <1>1, <1>3, <2>1, <2>2 DEF Clock, credentials, Known
<1>8. CASE Get
  <2>1. UNCHANGED <<queue, sem, pc, work, credentials, now, serves>> /\ table' \in Pruned(table)
    BY <1>8 DEF Get
  <2>2. (Typed /\ Counted)'
    BY <1>1, <2>1, CountKept DEF Typed, Waiting, Holders
  <2>3. Known(table)'
    BY <1>1, <2>1, PrunedKnown
  <2>. QED
    BY <1>1, <1>3, <2>1, <2>2, <2>3 DEF Clock, credentials
<1>9. ASSUME NEW id \in DOMAIN store, Serve(id) PROVE JobsInv'
  <2>1. /\ UNCHANGED <<queue, sem, table, pc, work, stale, now>>
        /\ serves < MaxServes /\ serves' = serves + 1 /\ cached' = cached \cup {id}
    BY <1>9 DEF Serve
  <2>2. (Typed /\ Counted)'
    BY <1>1, <2>1, CountKept DEF Typed, Waiting, Holders
  <2>3. serves' \in 0..MaxServes
    BY <1>1, <2>1, LimitsOK DEF Clock
  <2>. QED
    BY <1>1, <1>3, <2>1, <2>2, <2>3 DEF Known
<1>10. CASE Tick
  BY <1>10, LimitsOK DEF Tick, credentials, JobsInv, TypeOK, Recorded, JobsExact, SlotsExact,
     Waiting, Holders, StaleUntilTold
<1>11. CASE UNCHANGED vars
  BY <1>11 DEF vars, credentials, JobsInv, TypeOK, Recorded, JobsExact, SlotsExact,
     Waiting, Holders, StaleUntilTold
<1>. QED
  BY <1>2, <1>4, <1>5, <1>6, <1>7, <1>8, <1>9, <1>10, <1>11 DEF Next, Run, Working, Terminated

LEMMA JobsInvariant == Spec => []JobsInv
  BY InitJobs, StepJobs, PTL DEF Spec

\* Every variable keeps its type; the count of queued jobs in particular is
\* never negative.
THEOREM ImportsTyped == Spec => []TypeOK
<1>1. JobsInv => TypeOK
  BY DEF JobsInv
<1>. QED
  BY <1>1, JobsInvariant, PTL

\* Start and the workers count the queue exactly and keep it, and the slots,
\* within their limits, however the steps of any jobs interleave.
THEOREM QueueCounted == Spec => [](JobsExact /\ SlotsExact)
<1>1. JobsInv => JobsExact /\ SlotsExact
  BY DEF JobsInv
<1>. QED
  BY <1>1, JobsInvariant, PTL

-----------------------------------------------------------------------------
(***************************************************************************)
(* The bytes in the queue.                                                 *)
(***************************************************************************)
Sized == DOMAIN batch = Jobs /\ \A j \in Jobs : Bytes(batch[j]) \in Nat

BytesCounted == queue.bytes = Total(batch, Waiting) /\ queue.bytes <= MaxQueuedBytes

BytesInv == Sized /\ BytesCounted

LEMMA BytesTotal == BytesCounted => BytesExact
  BY DEF BytesCounted, BytesExact, Total

\* Nobody enters or leaves the queue, and the batches in it stay.
LEMMA BytesKept ==
  ASSUME BytesInv, Waiting' = Waiting, UNCHANGED queue, Sized',
         \A j \in Waiting : batch'[j] = batch[j]
  PROVE  BytesInv'
<1>1. \A j \in Waiting : Bytes(batch[j]) \in Int /\ Bytes(batch'[j]) = Bytes(batch[j])
  BY DEF BytesInv, Sized, Waiting
<1>2. Total(batch, Waiting) = Total(batch', Waiting)
  BY <1>1, WaitingFinite, TotalSame
<1>3. queue'.bytes = Total(batch', Waiting') /\ queue'.bytes <= MaxQueuedBytes
  BY <1>2 DEF BytesInv, BytesCounted
<1>4. BytesCounted'
  BY <1>3 DEF BytesCounted
<1>. QED
  BY <1>4 DEF BytesInv

LEMMA StartBytes ==
  ASSUME Typed, BytesInv, NEW j \in Jobs, NEW files \in Uploads[j], Start(j, files)
  PROVE  BytesInv'
<1>. USE DEF Ready, Active
<1>0. Bytes(files) \in Nat /\ pc[j] = "new" /\ j \notin Waiting
  <2>1. files \in Seq(Files)
    BY SizesOK
  <2>. QED
    BY <2>1, BytesNat DEF Start, Waiting
<1>1. CASE StartNow(j, files)
  <2>1. UNCHANGED queue /\ pc' = [pc EXCEPT ![j] = "begin"] /\ batch' = [batch EXCEPT ![j] = files]
    BY <1>1 DEF StartNow, Accept
  <2>2. Waiting' = Waiting
    BY <1>0, <2>1 DEF Waiting, Typed
  <2>3. Sized' /\ \A k \in Waiting : batch'[k] = batch[k]
    BY <1>0, <2>1 DEF Waiting, Sized, BytesInv
  <2>. QED
    BY <2>1, <2>2, <2>3, BytesKept
<1>2. CASE StartLater(j, files)
  <2>1. /\ queue' = [jobs |-> queue.jobs + 1, bytes |-> queue.bytes + Bytes(files)]
        /\ Bytes(files) <= MaxQueuedBytes - queue.bytes
        /\ pc' = [pc EXCEPT ![j] = "queued"] /\ batch' = [batch EXCEPT ![j] = files]
    BY <1>2 DEF StartLater, Accept, HasRoom
  <2>2. Waiting' = Waiting \cup {j} /\ IsFiniteSet(Waiting') /\ Waiting' \ {j} = Waiting
    <3>1. Waiting' = Waiting \cup {j}
      BY <1>0, <2>1 DEF Waiting, Typed
    <3>. QED
      BY <3>1, <1>0, WaitingFinite, FS_AddElement
  <2>3. /\ Sized' /\ \A k \in Waiting : batch'[k] = batch[k]
        /\ batch'[j] = files
    BY <1>0, <2>1 DEF Waiting, Sized, BytesInv
  <2>4. \A k \in Waiting' : Bytes(batch'[k]) \in Int
    BY <2>3 DEF Sized, Waiting
  <2>5. Total(batch', Waiting') = Total(batch', Waiting) + Bytes(files)
    <3>1. j \in Waiting' /\ IsFiniteSet(Waiting')
      BY <2>2
    <3>2. Total(batch', Waiting') = Total(batch', Waiting' \ {j}) + Bytes(batch'[j])
      BY <2>4, <3>1, TotalAdd
    <3>. QED
      BY <2>2, <2>3, <3>2
  <2>6. Total(batch, Waiting) = Total(batch', Waiting) /\ Total(batch', Waiting) \in Int
    <3>1. \A k \in Waiting : Bytes(batch[k]) \in Int /\ Bytes(batch'[k]) = Bytes(batch[k])
      BY <2>3 DEF BytesInv, Sized, Waiting
    <3>2. Total(batch, Waiting) = Total(batch', Waiting)
      BY <3>1, WaitingFinite, TotalSame
    <3>3. \A k \in Waiting : Bytes(batch'[k]) \in Int
      BY <3>1
    <3>4. Total(batch', Waiting) \in Int
      BY <3>3, WaitingFinite, TotalInt
    <3>. QED
      BY <3>2, <3>4
  <2>7. queue.bytes = Total(batch, Waiting)
    BY DEF BytesInv, BytesCounted
  <2>8. queue'.bytes = Total(batch', Waiting') /\ queue'.bytes <= MaxQueuedBytes
    BY <2>1, <2>5, <2>6, <2>7, <1>0, LimitsOK
  <2>9. BytesCounted'
    BY <2>8 DEF BytesCounted
  <2>. QED
    BY <2>3, <2>9 DEF BytesInv
<1>3. CASE Overloaded(j, files)
  <2>1. UNCHANGED <<queue, batch>> /\ pc' = [pc EXCEPT ![j] = "overloaded"]
    BY <1>3 DEF Overloaded
  <2>2. Waiting' = Waiting
    BY <1>0, <2>1 DEF Waiting, Typed
  <2>. QED
    BY <2>1, <2>2, BytesKept DEF BytesInv, Sized
<1>. QED
  BY <1>1, <1>2, <1>3 DEF Start

LEMMA LeaveQueueBytes ==
  ASSUME Typed, BytesInv, NEW j \in Jobs, LeaveQueue(j)
  PROVE  BytesInv'
<1>1. /\ queue' = [jobs |-> queue.jobs - 1, bytes |-> queue.bytes - Bytes(batch[j])]
      /\ pc' = [pc EXCEPT ![j] = "begin"] /\ pc[j] = "slot" /\ UNCHANGED batch
  BY DEF LeaveQueue
<1>2. Waiting' = Waiting \ {j} /\ j \in Waiting
  BY <1>1 DEF Typed, Waiting, Ready
<1>3. \A k \in Waiting : Bytes(batch[k]) \in Int
  BY DEF BytesInv, Sized, Waiting
<1>4. Total(batch, Waiting) = Total(batch, Waiting \ {j}) + Bytes(batch[j])
  BY <1>2, <1>3, WaitingFinite, TotalAdd
<1>5. Total(batch, Waiting \ {j}) \in Int
  <2>1. IsFiniteSet(Waiting \ {j}) /\ \A k \in Waiting \ {j} : Bytes(batch[k]) \in Int
    BY <1>3, WaitingFinite, FS_RemoveElement
  <2>. QED
    BY <2>1, TotalInt
<1>6. queue.bytes = Total(batch, Waiting) /\ queue.bytes <= MaxQueuedBytes /\ Bytes(batch[j]) \in Nat
  BY DEF BytesInv, BytesCounted, Sized
<1>7. queue'.bytes = Total(batch, Waiting') /\ queue'.bytes <= MaxQueuedBytes
  BY <1>1, <1>2, <1>4, <1>5, <1>6, LimitsOK
<1>8. BytesCounted'
  BY <1>1, <1>7 DEF BytesCounted
<1>. QED
  BY <1>1, <1>8 DEF BytesInv, Sized

LEMMA InitBytes == Init => BytesInv
<1>. SUFFICES ASSUME Init PROVE BytesInv
  OBVIOUS
<1>1. Waiting = {} /\ queue.bytes = 0
  BY DEF Init, Waiting, Ready
<1>2. \A j \in Jobs : Bytes(batch[j]) \in Nat
  <2>1. <<>> \in Seq(Files)
    OBVIOUS
  <2>. QED
    BY <2>1, BytesNat DEF Init
<1>3. BytesCounted
  BY <1>1, TotalEmpty, LimitsOK DEF BytesCounted
<1>. QED
  BY <1>2, <1>3 DEF Init, BytesInv, Sized

LEMMA StepBytes == JobsInv /\ BytesInv /\ [Next]_vars => BytesInv'
<1>. SUFFICES ASSUME JobsInv, BytesInv, [Next]_vars PROVE BytesInv'
  OBVIOUS
<1>1. Typed /\ Recorded
  BY TypeParts
<1>2. ASSUME UNCHANGED <<queue, batch>>, Waiting' = Waiting PROVE BytesInv'
  BY <1>2, BytesKept DEF BytesInv, Sized
<1>3. ASSUME NEW j \in Jobs, Working(j) PROVE BytesInv'
  <2>1. PICK to \in Active \cup {"release"} :
          pc[j] \in Active /\ pc' = [pc EXCEPT ![j] = to] /\ UNCHANGED queue
    BY <1>1, <1>3, WorkMoves DEF Moved, Step
  <2>2. Waiting' = Waiting
    BY <1>1, <2>1 DEF Typed, Waiting, Active, Ready
  <2>3. UNCHANGED batch
    <3>1. CASE Begin(j) \/ NextFile(j) \/ ParseFile(j) \/ Overflow(j) \/ Finish(j)
      BY <3>1 DEF Begin, NextFile, ParseFile, Overflow, Finish, WorkerOnly
    <3>2. CASE Persist(j) \/ Write(j) \/ Tell(j)
      BY <3>2 DEF Persist, Write, Tell
    <3>. QED
      BY <1>3, <3>1, <3>2 DEF Working
  <2>. QED
    BY <1>2, <2>1, <2>2, <2>3
<1>4. ASSUME NEW j \in Jobs, NEW files, Refuse(j, files) PROVE BytesInv'
  <2>1. pc' = [pc EXCEPT ![j] = "invalid"] /\ pc[j] = "new" /\ UNCHANGED <<queue, batch>>
    BY <1>4 DEF Refuse
  <2>. QED
    BY <1>1, <1>2, <2>1 DEF Typed, Waiting, Ready
<1>5. ASSUME NEW j \in Jobs, TakeSlot(j) PROVE BytesInv'
  <2>1. pc' = [pc EXCEPT ![j] = "slot"] /\ pc[j] = "queued" /\ UNCHANGED <<queue, batch>>
    BY <1>5 DEF TakeSlot
  <2>. QED
    BY <1>1, <1>2, <2>1 DEF Typed, Waiting, Ready
<1>6. ASSUME NEW j \in Jobs, Release(j) PROVE BytesInv'
  <2>1. pc' = [pc EXCEPT ![j] = "done"] /\ pc[j] = "release" /\ UNCHANGED <<queue, batch>>
    BY <1>6 DEF Release
  <2>. QED
    BY <1>1, <1>2, <2>1 DEF Typed, Waiting, Ready
<1>7. CASE (\E j \in Jobs : Expire(j)) \/ Tick \/ Get \/ (\E id \in DOMAIN store : Serve(id))
  <2>1. UNCHANGED <<queue, batch, pc>>
    BY <1>7 DEF Expire, Tick, Get, Serve
  <2>. QED
    BY <1>2, <2>1 DEF Waiting
<1>8. CASE UNCHANGED vars
  BY <1>2, <1>8 DEF vars, Waiting
<1>. QED
  BY <1>1, <1>3, <1>4, <1>5, <1>6, <1>7, <1>8, StartBytes, LeaveQueueBytes
     DEF Next, Run, Working, Terminated

\* The jobs and the bytes in the queue and the slots in use are exactly those of
\* the jobs between their acceptance and the moment their worker leaves the
\* queue, and keep within their limits, for any uploads and any interleaving.
THEOREM QueueCountedExactly == Spec => []QueueExact
<1>1. Init => JobsInv /\ BytesInv
  BY InitJobs, InitBytes
<1>2. (JobsInv /\ BytesInv) /\ [Next]_vars => (JobsInv /\ BytesInv)'
  BY StepJobs, StepBytes
<1>3. JobsInv /\ BytesInv => QueueExact
  BY BytesTotal DEF JobsInv, BytesInv, QueueExact
<1>. QED
  BY <1>1, <1>2, <1>3, PTL DEF Spec

\* An access token that an import replaced is cached only while the import is
\* about to tell the refresher, whatever is imported and by however many jobs.
THEOREM ReplacedTokensTold == Spec => []StaleUntilTold
<1>1. JobsInv => StaleUntilTold
  BY DEF JobsInv
<1>. QED
  BY <1>1, JobsInvariant, PTL

-----------------------------------------------------------------------------
(***************************************************************************)
(* Sequences.                                                              *)
(***************************************************************************)
LEMMA SeqFacts ==
  ASSUME NEW s, IsSeq(s)
  PROVE  Len(s) \in Nat /\ DOMAIN s = 1..Len(s) /\ (s # <<>> <=> 1 \in DOMAIN s)
  BY DEF IsSeq

LEMMA SeqIs ==
  ASSUME NEW X, NEW s \in Seq(X)
  PROVE  IsSeq(s)
  BY DEF IsSeq, ToSet

\* f is what FlattenSeq has made of the first sequences, and s has all of their
\* elements.
Flattens(seqs, f, n) ==
  \A i \in 1..n : f[i] = IF i = 1 THEN seqs[i] ELSE f[i - 1] \o seqs[i]

HasAll(seqs, s, n) ==
  \A i \in 1..n : \A k \in DOMAIN seqs[i] : \E m \in DOMAIN s : s[m] = seqs[i][k]

LEMMA ConcatHas ==
  ASSUME NEW X, NEW seqs \in Seq(Seq(X)), NEW n \in Nat, n + 1 \in DOMAIN seqs,
         NEW s \in Seq(X), HasAll(seqs, s, n)
  PROVE  s \o seqs[n + 1] \in Seq(X) /\ HasAll(seqs, s \o seqs[n + 1], n + 1)
<1>1. seqs[n + 1] \in Seq(X)
  OBVIOUS
<1>. DEFINE t == seqs[n + 1]
            r == s \o t
<1>2. /\ r \in Seq(X) /\ Len(r) = Len(s) + Len(t)
      /\ \A m \in 1..Len(s) : r[m] = s[m]
      /\ \A m \in 1..Len(t) : r[Len(s) + m] = t[m]
  BY <1>1
<1>l. /\ Len(s) \in Nat /\ Len(t) \in Nat
      /\ DOMAIN s = 1..Len(s) /\ DOMAIN t = 1..Len(t) /\ DOMAIN r = 1..(Len(s) + Len(t))
  BY <1>1, <1>2
<1>. HIDE DEF r, t
<1>3. ASSUME NEW i \in 1..(n + 1), NEW k \in DOMAIN seqs[i]
      PROVE  \E m \in DOMAIN r : r[m] = seqs[i][k]
  <2>1. CASE i = n + 1
    <3>1. Len(s) + k \in DOMAIN r /\ r[Len(s) + k] = t[k]
      <4>1. k \in 1..Len(t)
        BY <1>3, <1>l, <2>1 DEF t
      <4>. QED
        BY <4>1, <1>2, <1>l
    <3>. QED
      BY <2>1, <3>1 DEF t
  <2>2. CASE i \in 1..n
    <3>1. PICK m \in DOMAIN s : s[m] = seqs[i][k]
      BY <2>2 DEF HasAll
    <3>2. m \in DOMAIN r /\ r[m] = s[m]
      BY <1>2, <1>l, <3>1
    <3>. QED
      BY <3>1, <3>2
  <2>. QED
    BY <2>1, <2>2
<1>. QED
  BY <1>2, <1>3 DEF HasAll, r, t

LEMMA FlattenStep ==
  ASSUME NEW X, NEW seqs \in Seq(Seq(X)), NEW n \in Nat \ {0}, n + 1 \in DOMAIN seqs,
         NEW f \in [1..n -> Seq(X)], Flattens(seqs, f, n), HasAll(seqs, f[n], n)
  PROVE  \E g \in [1..(n + 1) -> Seq(X)] : Flattens(seqs, g, n + 1) /\ HasAll(seqs, g[n + 1], n + 1)
<1>. DEFINE g == [i \in 1..(n + 1) |-> IF i = n + 1 THEN f[n] \o seqs[n + 1] ELSE f[i]]
<1>0. f[n] \in Seq(X)
  OBVIOUS
<1>1. f[n] \o seqs[n + 1] \in Seq(X) /\ HasAll(seqs, f[n] \o seqs[n + 1], n + 1)
  BY <1>0, ConcatHas
<1>2. g[n + 1] = f[n] \o seqs[n + 1] /\ \A i \in 1..n : g[i] = f[i]
  <2>1. n + 1 \in 1..(n + 1) /\ \A i \in 1..n : i # n + 1 /\ i \in 1..(n + 1)
    OBVIOUS
  <2>. QED
    BY <2>1
<1>3. g \in [1..(n + 1) -> Seq(X)]
  BY <1>1
<1>. HIDE DEF g
<1>4. Flattens(seqs, g, n + 1)
  <2>1. ASSUME NEW i \in 1..n PROVE g[i] = IF i = 1 THEN seqs[i] ELSE g[i - 1] \o seqs[i]
    <3>1. i # 1 => i - 1 \in 1..n
      OBVIOUS
    <3>. QED
      BY <1>2, <3>1 DEF Flattens
  <2>2. (n + 1) - 1 = n /\ n + 1 # 1 /\ g[n] = f[n]
    BY <1>2
  <2>3. g[n + 1] = g[(n + 1) - 1] \o seqs[n + 1]
    BY <1>2, <2>2
  <2>4. \A i \in 1..(n + 1) : i = n + 1 \/ i \in 1..n
    OBVIOUS
  <2>. QED
    BY <2>1, <2>2, <2>3, <2>4 DEF Flattens
<1>. QED
  BY <1>1, <1>2, <1>3, <1>4

\* Flattening keeps every element.
LEMMA FlattenHas ==
  ASSUME NEW X, NEW seqs \in Seq(Seq(X)), seqs # <<>>
  PROVE  FlattenSeq(seqs) \in Seq(X) /\ HasAll(seqs, FlattenSeq(seqs), Len(seqs))
<1>. DEFINE N == Len(seqs)
            Good(n) == \E f \in [1..n -> Seq(X)] : Flattens(seqs, f, n) /\ HasAll(seqs, f[n], n)
            T == {n \in Nat : n + 1 <= N => Good(n + 1)}
<1>0. N \in Nat \ {0} /\ DOMAIN seqs = 1..N /\ \A i \in 1..N : seqs[i] \in Seq(X)
  OBVIOUS
<1>1. 0 \in T
  <2>. DEFINE f == [i \in 1..1 |-> seqs[i]]
  <2>1. f \in [1..1 -> Seq(X)] /\ f[1] = seqs[1]
    BY <1>0
  <2>. HIDE DEF f
  <2>2. Flattens(seqs, f, 1) /\ HasAll(seqs, f[1], 1)
    BY <2>1 DEF Flattens, HasAll
  <2>3. Good(1)
    BY <2>1, <2>2
  <2>. QED
    BY <2>3
<1>2. ASSUME NEW n \in T PROVE n + 1 \in T
  <2>. SUFFICES ASSUME (n + 1) + 1 <= N PROVE Good((n + 1) + 1)
    BY <1>2
  <2>1. n + 1 \in Nat \ {0} /\ (n + 1) + 1 \in DOMAIN seqs /\ n + 1 <= N
    BY <1>0
  <2>2. Good(n + 1)
    BY <2>1
  <2>. HIDE DEF T
  <2>. QED
    BY <2>1, <2>2, FlattenStep
<1>3. T = Nat
  <2>. HIDE DEF T
  <2>1. T \in SUBSET Nat
    BY DEF T
  <2>. QED
    BY <1>1, <1>2, <2>1, Induction
<1>4. Good(N)
  <2>1. N - 1 \in Nat /\ (N - 1) + 1 = N
    BY <1>0
  <2>2. N - 1 \in T
    BY <2>1, <1>3
  <2>. HIDE DEF Good, N
  <2>. QED
    BY <1>0, <2>1, <2>2
<1>. HIDE DEF T
<1>5. PICK f \in [1..N -> Seq(X)] : Flattens(seqs, f, N) /\ HasAll(seqs, f[N], N)
  BY <1>4
<1>. HIDE DEF Good
<1>. DEFINE flatten == CHOOSE h : h = [i \in 1..Len(seqs) |->
                                        IF i = 1 THEN seqs[i] ELSE h[i - 1] \o seqs[i]]
<1>6. FlattenSeq(seqs) = flatten[N]
  BY <1>0 DEF FlattenSeq
<1>7. f = [i \in 1..N |-> IF i = 1 THEN seqs[i] ELSE f[i - 1] \o seqs[i]]
  BY <1>5 DEF Flattens
<1>8. flatten = [i \in 1..N |-> IF i = 1 THEN seqs[i] ELSE flatten[i - 1] \o seqs[i]]
  BY <1>7
<1>. HIDE DEF flatten
<1>9. Flattens(seqs, flatten, N)
  BY <1>8 DEF Flattens
<1>. DEFINE U == {n \in Nat : n + 1 <= N => flatten[n + 1] = f[n + 1]}
<1>10. 0 \in U
  BY <1>5, <1>9, <1>0 DEF Flattens
<1>11. ASSUME NEW n \in U PROVE n + 1 \in U
  <2>. SUFFICES ASSUME (n + 1) + 1 <= N PROVE flatten[(n + 1) + 1] = f[(n + 1) + 1]
    BY <1>11
  <2>1. /\ (n + 1) + 1 \in 1..N /\ (n + 1) + 1 # 1 /\ ((n + 1) + 1) - 1 = n + 1
        /\ n + 1 <= N
    BY <1>0
  <2>2. flatten[n + 1] = f[n + 1]
    BY <2>1
  <2>3. flatten[(n + 1) + 1] = flatten[n + 1] \o seqs[(n + 1) + 1]
    BY <1>9, <2>1 DEF Flattens
  <2>4. f[(n + 1) + 1] = f[n + 1] \o seqs[(n + 1) + 1]
    BY <1>5, <2>1 DEF Flattens
  <2>. QED
    BY <2>2, <2>3, <2>4
<1>12. U = Nat
  <2>. HIDE DEF U
  <2>1. U \in SUBSET Nat
    BY DEF U
  <2>. QED
    BY <1>10, <1>11, <2>1, Induction
<1>13. flatten[N] = f[N]
  <2>1. N - 1 \in Nat /\ (N - 1) + 1 = N
    BY <1>0
  <2>2. N - 1 \in U
    BY <2>1, <1>12
  <2>. QED
    BY <1>0, <2>1, <2>2
<1>. QED
  BY <1>0, <1>5, <1>6, <1>13

-----------------------------------------------------------------------------
(***************************************************************************)
(* What a document is parsed to, which rows of a file are left, and what   *)
(* the store answers.                                                      *)
(***************************************************************************)
\* What a document is parsed to is a sequence, with something in it.
Listed(parsed) ==
  /\ IsSeq(parsed.list)
  /\ parsed.outcome \in {"ok", "bad", "limit"}
  /\ parsed.outcome = "ok" => parsed.list # <<>>

LEMMA NothingListed == Listed(Bad) /\ Listed(TooMany)
  BY DEF Listed, Bad, TooMany, IsSeq

LEMMA EntriesListed ==
  ASSUME NEW entries, IsSeq(entries)
  PROVE  Listed(NormalizeRawEntries(entries))
<1>1. CASE NormalizeRawEntries(entries) = Bad
  BY <1>1, NothingListed
<1>2. CASE /\ entries # <<>>
           /\ NormalizeRawEntries(entries) = Ok([i \in DOMAIN entries |-> entries[i].who])
  <2>. DEFINE list == [i \in DOMAIN entries |-> entries[i].who]
  <2>1. Len(entries) \in Nat /\ DOMAIN entries = 1..Len(entries) /\ 1 \in DOMAIN entries
    BY <1>2, SeqFacts
  <2>2. list \in Seq({entries[i].who : i \in DOMAIN entries}) /\ 1 \in DOMAIN list
    BY <2>1
  <2>. HIDE DEF list
  <2>3. IsSeq(list) /\ list # <<>>
    BY <2>2, SeqIs
  <2>. QED
    BY <1>2, <2>3 DEF Ok, Listed, list
<1>. QED
  BY <1>1, <1>2 DEF NormalizeRawEntries

LEMMA MemberListed ==
  ASSUME NEW member, member.kind = "list" => IsSeq(member.entries)
  PROVE  IsSeq(ParseMember(member).list)
<1>1. IsSeq(Bad.list) /\ IsSeq(Ok(<<>>).list) /\ IsSeq(Ok(<<member.entry.who>>).list)
  <2>1. <<>> \in Seq({}) /\ <<member.entry.who>> \in Seq({member.entry.who})
    OBVIOUS
  <2>2. IsSeq(<<>>) /\ IsSeq(<<member.entry.who>>)
    BY <2>1, SeqIs
  <2>. QED
    BY <2>2 DEF Bad, Ok
<1>2. member.kind = "list" => IsSeq(NormalizeRawEntries(member.entries).list)
  BY EntriesListed DEF Listed
<1>. QED
  BY <1>1, <1>2 DEF ParseMember

LEMMA MembersListed ==
  ASSUME NEW members, IsSeq(members),
         \A i \in DOMAIN members : members[i].kind = "list" => IsSeq(members[i].entries)
  PROVE  Listed(ParseMembers(members))
<1>. DEFINE lists == [i \in DOMAIN members |-> ParseMember(members[i]).list]
            X == UNION {ToSet(lists[i]) : i \in DOMAIN members}
<1>1. Len(members) \in Nat /\ DOMAIN members = 1..Len(members)
  BY SeqFacts
<1>2. ASSUME NEW i \in DOMAIN members PROVE lists[i] \in Seq(X)
  <2>1. IsSeq(lists[i])
    BY MemberListed
  <2>2. ToSet(lists[i]) \subseteq X
    OBVIOUS
  <2>. HIDE DEF lists, X
  <2>. QED
    BY <2>1, <2>2 DEF IsSeq
<1>3. lists \in Seq(Seq(X))
  <2>. HIDE DEF X
  <2>. QED
    BY <1>1, <1>2
<1>. HIDE DEF X
<1>4. lists # <<>> => IsSeq(FlattenSeq(lists))
  <2>. HIDE DEF lists
  <2>. QED
    BY <1>3, FlattenHas, SeqIs
<1>5. lists = <<>> => FlattenSeq(lists) = <<>>
  <2>. HIDE DEF lists
  <2>. QED
    BY DEF FlattenSeq
<1>6. [i \in DOMAIN members |-> [k \in DOMAIN members |-> ParseMember(members[k])][i].list] = lists
  OBVIOUS
<1>7. \/ ParseMembers(members) = Bad
      \/ ParseMembers(members) = Ok(FlattenSeq(lists)) /\ FlattenSeq(lists) # <<>>
  BY <1>6 DEF ParseMembers
<1>8. CASE ParseMembers(members) = Bad
  BY <1>8, NothingListed
<1>9. CASE ParseMembers(members) = Ok(FlattenSeq(lists)) /\ FlattenSeq(lists) # <<>>
  <2>1. IsSeq(FlattenSeq(lists))
    BY <1>4, <1>5, <1>9
  <2>. HIDE DEF lists
  <2>. QED
    BY <1>9, <2>1 DEF Ok, Listed
<1>. QED
  BY <1>7, <1>8, <1>9

LEMMA DocumentListed ==
  ASSUME NEW file \in Files, NEW limit
  PROVE  Listed(ParseLimit(file.doc, limit)) /\ Listed(ParseSSOValues(file.doc, limit))
<1>. DEFINE doc == file.doc
<1>1. Listed(Parse(doc))
  <2>1. CASE doc.shape = "list"
    BY <2>1, DocumentsOK, EntriesListed DEF Parse
  <2>2. CASE doc.shape = "object"
    <3>1. Listed(ParseMembers(doc.members))
      BY <2>2, DocumentsOK, MembersListed
    <3>2. Listed(NormalizeRawEntries(<<doc.bare>>))
      <4>1. <<doc.bare>> \in Seq({doc.bare})
        OBVIOUS
      <4>. QED
        BY <4>1, SeqIs, EntriesListed
    <3>. QED
      BY <2>2, <3>1, <3>2, NothingListed DEF Parse
  <2>3. CASE doc.shape # "list" /\ doc.shape # "object"
    BY <2>3, NothingListed DEF Parse
  <2>. QED
    BY <2>1, <2>2, <2>3
<1>2. Listed(ParseLimit(doc, limit))
  BY <1>1, NothingListed DEF ParseLimit
<1>3. Listed(ParseSSOValues(doc, limit))
  <2>1. doc.sso # <<>> => Listed(Ok(doc.sso))
    BY DocumentsOK DEF Listed, Ok
  <2>. QED
    BY <2>1, NothingListed DEF ParseSSOValues
<1>. QED
  BY <1>2, <1>3

LEMMA ContentsListed ==
  ASSUME NEW file \in Files
  PROVE  /\ IsSeq(Contents[file].list)
         /\ Contents[file].via # "none" => Contents[file].list # <<>>
<1>. DEFINE json == ParseLimit(file.doc, MaxEntries)
            sso  == ParseSSOValues(file.doc, MaxEntries)
<1>0. Listed(json) /\ Listed(sso)
  BY DocumentListed
<1>1. \E from \in {json, sso} : \E via :
        /\ Contents[file].list = from.list
        /\ Contents[file].via = "none" \/ from.outcome = "ok"
  BY DEF Contents
<1>. HIDE DEF json, sso
<1>. QED
  BY <1>0, <1>1 DEF Listed

LEMMA MaxOfFirst ==
  ASSUME NEW n \in Nat
  PROVE  Max(1..(n + 1)) = n + 1 /\ 1..(n + 1) \ {n + 1} = 1..n /\ 1..(n + 1) # {}
<1>1. n + 1 \in 1..(n + 1)
  OBVIOUS
<1>2. Max(1..(n + 1)) \in 1..(n + 1) /\ \A i \in 1..(n + 1) : Max(1..(n + 1)) >= i
  <2>1. n + 1 \in Nat /\ 1..(n + 1) \in SUBSET (1..(n + 1)) /\ 1..(n + 1) # {}
    BY <1>1
  <2>. QED
    BY <2>1, MaxIn
<1>3. Max(1..(n + 1)) >= n + 1
  BY <1>1, <1>2
<1>4. \A m \in 1..(n + 1) : m >= n + 1 => m = n + 1
  OBVIOUS
<1>. QED
  BY <1>1, <1>2, <1>3, <1>4

\* The positions that are kept of the first rows: each of a queued row, none
\* twice, none missing.
KeepsQueued(rows, s, n) ==
  /\ s \in Seq(1..n)
  /\ \A i \in DOMAIN s : rows[s[i]].status = "queued"
  /\ \A i, k \in DOMAIN s : s[i] = s[k] => i = k
  /\ \A q \in 1..n : rows[q].status = "queued" => \E i \in DOMAIN s : s[i] = q

LEMMA KeepOne ==
  ASSUME NEW rows, NEW n \in Nat, NEW s, KeepsQueued(rows, s, n)
  PROVE  KeepsQueued(rows, IF rows[n + 1].status = "queued" THEN Append(s, n + 1) ELSE s, n + 1)
<1>0. s \in Seq(1..n) /\ s \in Seq(1..(n + 1)) /\ Len(s) \in Nat /\ DOMAIN s = 1..Len(s)
  <2>1. 1..n \subseteq 1..(n + 1)
    OBVIOUS
  <2>. QED
    BY <2>1 DEF KeepsQueued
<1>n. \A q \in 1..(n + 1) : q = n + 1 \/ q \in 1..n
  OBVIOUS
<1>1. CASE rows[n + 1].status # "queued"
  <2>1. \A q \in 1..(n + 1) : rows[q].status = "queued" => q \in 1..n
    BY <1>1, <1>n
  <2>. QED
    BY <1>0, <1>1, <2>1 DEF KeepsQueued
<1>2. CASE rows[n + 1].status = "queued"
  <2>. DEFINE t == Append(s, n + 1)
  <2>1. /\ t \in Seq(1..(n + 1)) /\ DOMAIN t = 1..(Len(s) + 1)
        /\ \A i \in 1..Len(s) : t[i] = s[i] /\ s[i] \in 1..n
        /\ t[Len(s) + 1] = n + 1
    BY <1>0
  <2>. HIDE DEF t
  <2>2. \A i \in DOMAIN t : i = Len(s) + 1 \/ i \in 1..Len(s)
    BY <1>0, <2>1
  <2>3. \A i \in DOMAIN t : rows[t[i]].status = "queued"
    <3>1. \A i \in 1..Len(s) : rows[t[i]].status = "queued"
      BY <1>0, <2>1 DEF KeepsQueued
    <3>. QED
      BY <1>2, <2>1, <2>2, <3>1
  <2>4. \A i, k \in DOMAIN t : t[i] = t[k] => i = k
    <3>1. \A i \in 1..Len(s) : t[i] # n + 1
      BY <2>1
    <3>. QED
      BY <1>0, <2>1, <2>2, <3>1 DEF KeepsQueued
  <2>5. ASSUME NEW q \in 1..(n + 1), rows[q].status = "queued" PROVE \E i \in DOMAIN t : t[i] = q
    <3>1. CASE q = n + 1
      <4>1. Len(s) + 1 \in DOMAIN t
        BY <1>0, <2>1
      <4>. QED
        BY <2>1, <3>1, <4>1
    <3>2. CASE q \in 1..n
      <4>1. PICK i \in DOMAIN s : s[i] = q
        BY <2>5, <3>2 DEF KeepsQueued
      <4>2. i \in DOMAIN t /\ t[i] = q
        BY <1>0, <2>1, <4>1
      <4>. QED
        BY <4>2
    <3>. QED
      BY <1>n, <3>1, <3>2
  <2>. QED
    BY <1>2, <2>1, <2>3, <2>4, <2>5 DEF KeepsQueued, t
<1>. QED
  BY <1>1, <1>2

LEMMA KeptAll ==
  ASSUME NEW rows, IsSeq(rows)
  PROVE  KeepsQueued(rows, Kept(rows), Len(rows))
<1>. DEFINE N == Len(rows)
            D == DOMAIN [k \in DOMAIN rows |-> k]
            On(v, k) == IF rows[k].status = "queued" THEN Append(v, k) ELSE v
            c == [s \in SUBSET D |-> Max(s)]
            op == [p \in D \X Seq(Nat) |-> On(p[2], p[1])]
            f == CHOOSE f : f = [s \in SUBSET D |-> IF s = {} THEN <<>>
                     ELSE LET x == Max(s)
                          IN IF rows[[k \in DOMAIN rows |-> k][x]].status = "queued"
                             THEN Append(f[s \ {x}], [k \in DOMAIN rows |-> k][x]) ELSE f[s \ {x}]]
<1>d. N \in Nat /\ D = 1..N /\ D = DOMAIN rows
  BY SeqFacts
<1>1. Kept(rows) = f[D]
  BY DEF Kept, FoldLeft, MapThenFoldSet
<1>2. IsFiniteSet(D)
  BY <1>d, FS_Interval
<1>. HIDE DEF D
<1>c. \A s \in SUBSET D : c[s] = Max(s) /\ (s # {} => c[s] \in s)
  BY <1>d, MaxIn
<1>o. \A x \in D : \A v \in Seq(Nat) : op[<<x, v>>] = On(v, x) /\ op[<<x, v>>] \in Seq(Nat)
  BY <1>d
<1>. HIDE DEF c, op
<1>3. PICK g \in [SUBSET D -> Seq(Nat)] : Folds(g, SUBSET D, c, op, <<>>)
  <2>1. <<>> \in Seq(Nat)
    OBVIOUS
  <2>2. \A s \in SUBSET D : s # {} => c[s] \in s
    BY <1>c
  <2>3. \A x \in D : \A v \in Seq(Nat) : op[<<x, v>>] \in Seq(Nat)
    BY <1>o
  <2>. HIDE DEF On
  <2>. QED
    BY <1>2, <2>1, <2>2, <2>3, FoldExists
<1>. HIDE DEF On
<1>4. ASSUME NEW s \in SUBSET D
      PROVE  g[s] = IF s = {} THEN <<>> ELSE On(g[s \ {Max(s)}], Max(s))
  <2>1. CASE s = {}
    BY <1>3, <2>1 DEF Folds
  <2>2. CASE s # {}
    <3>1. c[s] = Max(s) /\ c[s] \in D
      BY <1>c, <2>2
    <3>2. g[s \ {c[s]}] \in Seq(Nat)
      BY <1>3
    <3>3. g[s] = op[<<c[s], g[s \ {c[s]}]>>]
      BY <1>3, <2>2 DEF Folds
    <3>. QED
      BY <1>o, <2>2, <3>1, <3>2, <3>3
  <2>. QED
    BY <2>1, <2>2
<1>m. \A s \in SUBSET D : s # {} => Max(s) \in D /\ [k \in DOMAIN rows |-> k][Max(s)] = Max(s)
  BY <1>c, <1>d
<1>5. g = [s \in SUBSET D |-> IF s = {} THEN <<>>
             ELSE LET x == Max(s)
                  IN IF rows[[k \in DOMAIN rows |-> k][x]].status = "queued"
                     THEN Append(g[s \ {x}], [k \in DOMAIN rows |-> k][x]) ELSE g[s \ {x}]]
  <2>1. ASSUME NEW s \in SUBSET D, s # {}
        PROVE  g[s] = LET x == Max(s)
                      IN IF rows[[k \in DOMAIN rows |-> k][x]].status = "queued"
                         THEN Append(g[s \ {x}], [k \in DOMAIN rows |-> k][x]) ELSE g[s \ {x}]
    BY <1>4, <1>m, <2>1 DEF On
  <2>2. g[{}] = <<>>
    BY <1>4
  <2>. QED
    BY <2>1, <2>2
<1>6. f = [s \in SUBSET D |-> IF s = {} THEN <<>>
             ELSE LET x == Max(s)
                  IN IF rows[[k \in DOMAIN rows |-> k][x]].status = "queued"
                     THEN Append(f[s \ {x}], [k \in DOMAIN rows |-> k][x]) ELSE f[s \ {x}]]
  BY <1>5
<1>. HIDE DEF f
<1>7. ASSUME NEW s \in SUBSET D
      PROVE  f[s] = IF s = {} THEN <<>> ELSE On(f[s \ {Max(s)}], Max(s))
  <2>1. CASE s = {}
    BY <1>6, <2>1
  <2>2. CASE s # {}
    BY <1>6, <1>m, <2>2 DEF On
  <2>. QED
    BY <2>1, <2>2
<1>. DEFINE T == {n \in Nat : n <= N => KeepsQueued(rows, f[1..n], n)}
<1>8. 0 \in T
  <2>1. 1..0 = {} /\ {} \in SUBSET D
    OBVIOUS
  <2>2. f[1..0] = <<>>
    BY <1>7, <2>1
  <2>3. KeepsQueued(rows, <<>>, 0)
    BY DEF KeepsQueued
  <2>. QED
    BY <2>2, <2>3
<1>9. ASSUME NEW n \in T PROVE n + 1 \in T
  <2>. SUFFICES ASSUME n + 1 <= N PROVE KeepsQueued(rows, f[1..(n + 1)], n + 1)
    BY <1>9
  <2>1. n \in Nat /\ n <= N /\ 1..(n + 1) \in SUBSET D
    BY <1>d
  <2>2. f[1..(n + 1)] = On(f[1..n], n + 1)
    <3>1. f[1..(n + 1)] = On(f[1..(n + 1) \ {Max(1..(n + 1))}], Max(1..(n + 1)))
      BY <1>7, <2>1, MaxOfFirst
    <3>. QED
      BY <3>1, <2>1, MaxOfFirst
  <2>3. KeepsQueued(rows, f[1..n], n)
    BY <2>1
  <2>. HIDE DEF T
  <2>. QED
    BY <2>1, <2>2, <2>3, KeepOne DEF On
<1>10. T = Nat
  <2>. HIDE DEF T
  <2>1. T \in SUBSET Nat
    BY DEF T
  <2>. QED
    BY <1>8, <1>9, <2>1, Induction
<1>11. KeepsQueued(rows, f[1..N], N)
  <2>1. N \in T
    BY <1>d, <1>10
  <2>. HIDE DEF N
  <2>. QED
    BY <1>d, <2>1
<1>. QED
  BY <1>1, <1>11, <1>d

\* The store answers every input, in their order.
Answers(done, n) == Len(done.results) = n /\ IsSeq(done.results)

LEMMA UpsertAnswers ==
  ASSUME NEW done, NEW in, NEW n \in Nat, Answers(done, n)
  PROVE  Answers(Upsert(done, in), n + 1)
<1>1. PICK e : Upsert(done, in).results = Append(done.results, e)
  BY DEF Upsert
<1>. DEFINE X == ToSet(done.results) \cup {e}
<1>2. done.results \in Seq(X)
  BY DEF Answers, IsSeq
<1>3. e \in X
  OBVIOUS
<1>. HIDE DEF X
<1>4. Append(done.results, e) \in Seq(X) /\ Len(Append(done.results, e)) = n + 1
  BY <1>2, <1>3 DEF Answers
<1>. QED
  BY <1>1, <1>4, SeqIs DEF Answers

\* The fold of Upsert over the sets of positions, as far as their size goes.
Upserts(f, inputs, doc, s) ==
  f[s] = IF s = {} THEN [doc |-> doc, results |-> <<>>]
         ELSE Upsert(f[s \ {Max(s)}], inputs[Max(s)])

LEMMA UpsertsExist ==
  ASSUME NEW inputs, NEW doc, NEW n \in Nat
  PROVE  \E f : DOMAIN f = SUBSET (1..n) /\ \A s \in SUBSET (1..n) : Upserts(f, inputs, doc, s)
<1>. DEFINE D == 1..n
            Upto(k) == {s \in SUBSET D : Cardinality(s) <= k}
            Goes(f, k) == DOMAIN f = Upto(k) /\ \A s \in Upto(k) : Upserts(f, inputs, doc, s)
            T == {k \in Nat : \E f : Goes(f, k)}
<1>f. IsFiniteSet(D)
  BY FS_Interval
<1>m. \A s \in SUBSET D : s # {} => Max(s) \in s
  BY MaxIn
<1>. HIDE DEF D
<1>0. \A s \in SUBSET D : IsFiniteSet(s) /\ Cardinality(s) \in Nat /\ (Cardinality(s) = 0 <=> s = {})
  BY <1>f, FS_Subset, FS_CardinalityType, FS_EmptySet
<1>1. 0 \in T
  <2>. DEFINE f == [s \in Upto(0) |-> [doc |-> doc, results |-> <<>>]]
  <2>1. \A s \in Upto(0) : s = {}
    BY <1>0
  <2>2. Goes(f, 0)
    BY <2>1 DEF Upserts
  <2>. HIDE DEF f, Goes
  <2>. QED
    BY <2>2
<1>2. ASSUME NEW k \in T PROVE k + 1 \in T
  <2>1. PICK f : Goes(f, k)
    OBVIOUS
  <2>2. ASSUME NEW s \in Upto(k + 1), s # {} PROVE s \ {Max(s)} \in Upto(k)
    <3>1. Max(s) \in s /\ s \in SUBSET D /\ IsFiniteSet(s)
      BY <2>2, <1>0, <1>m
    <3>2. Cardinality(s \ {Max(s)}) = Cardinality(s) - 1
      BY <3>1, FS_RemoveElement
    <3>. QED
      BY <3>1, <3>2, <1>0
  <2>. DEFINE g == [s \in Upto(k + 1) |-> IF s = {} THEN [doc |-> doc, results |-> <<>>]
                                           ELSE Upsert(f[s \ {Max(s)}], inputs[Max(s)])]
  <2>4. Upto(k) \subseteq Upto(k + 1)
    BY <1>0
  <2>5. \A s \in Upto(k) : g[s] = f[s]
    BY <2>1, <2>4 DEF Upserts
  <2>6. \A s \in Upto(k + 1) : Upserts(g, inputs, doc, s)
    BY <2>2, <2>5 DEF Upserts
  <2>7. Goes(g, k + 1)
    BY <2>6
  <2>. HIDE DEF g, Goes
  <2>. QED
    BY <2>7
<1>3. T = Nat
  <2>. HIDE DEF T
  <2>1. T \in SUBSET Nat
    BY DEF T
  <2>. QED
    BY <1>1, <1>2, <2>1, Induction
<1>4. \E f : Goes(f, Cardinality(D))
  <2>. HIDE DEF Goes
  <2>1. Cardinality(D) \in Nat
    BY <1>f, FS_CardinalityType
  <2>. QED
    BY <2>1, <1>3
<1>5. Upto(Cardinality(D)) = SUBSET D
  BY <1>0, <1>f, FS_Subset
<1>. HIDE DEF T, Upto
<1>. QED
  BY <1>4, <1>5 DEF D

LEMMA BulkAnswers ==
  ASSUME NEW inputs, IsSeq(inputs)
  PROVE  DOMAIN BulkUpsert(inputs).results = DOMAIN inputs
<1>. DEFINE N == Len(inputs)
            D == DOMAIN inputs
            f == CHOOSE f : f = [s \in SUBSET D |-> IF s = {} THEN [doc |-> store, results |-> <<>>]
                     ELSE LET x == Max(s) IN Upsert(f[s \ {x}], inputs[x])]
<1>d. N \in Nat /\ D = 1..N
  BY SeqFacts
<1>1. BulkUpsert(inputs) = f[D]
  BY DEF BulkUpsert, FoldLeft, MapThenFoldSet
<1>2. PICK g : DOMAIN g = SUBSET (1..N) /\ \A s \in SUBSET (1..N) : Upserts(g, inputs, store, s)
  <2>. HIDE DEF N
  <2>. QED
    BY <1>d, UpsertsExist
<1>. HIDE DEF D
<1>3. \A s \in SUBSET D : g[s] = IF s = {} THEN [doc |-> store, results |-> <<>>]
                                 ELSE LET x == Max(s) IN Upsert(g[s \ {x}], inputs[x])
  BY <1>2, <1>d DEF Upserts
<1>. DEFINE h == [s \in SUBSET D |-> g[s]]
<1>4. h = [s \in SUBSET D |-> IF s = {} THEN [doc |-> store, results |-> <<>>]
                              ELSE LET x == Max(s) IN Upsert(h[s \ {x}], inputs[x])]
  <2>1. \A s \in SUBSET D : s \ {Max(s)} \in SUBSET D
    OBVIOUS
  <2>2. ASSUME NEW s \in SUBSET D
        PROVE  h[s] = IF s = {} THEN [doc |-> store, results |-> <<>>]
                      ELSE LET x == Max(s) IN Upsert(h[s \ {x}], inputs[x])
    BY <1>3, <2>1
  <2>. QED
    BY <2>2
<1>5. f = [s \in SUBSET D |-> IF s = {} THEN [doc |-> store, results |-> <<>>]
                              ELSE LET x == Max(s) IN Upsert(f[s \ {x}], inputs[x])]
  <2>. HIDE DEF h
  <2>. QED
    BY <1>4
<1>. HIDE DEF f
<1>6. \A s \in SUBSET D : Upserts(f, inputs, store, s)
  BY <1>5 DEF Upserts
<1>. DEFINE T == {n \in Nat : n <= N => Answers(f[1..n], n)}
<1>7. 0 \in T
  <2>1. 1..0 = {} /\ {} \in SUBSET D
    OBVIOUS
  <2>2. f[1..0] = [doc |-> store, results |-> <<>>]
    BY <1>6, <2>1 DEF Upserts
  <2>3. Answers([doc |-> store, results |-> <<>>], 0)
    BY DEF Answers, IsSeq
  <2>. QED
    BY <2>2, <2>3
<1>8. ASSUME NEW n \in T PROVE n + 1 \in T
  <2>. SUFFICES ASSUME n + 1 <= N PROVE Answers(f[1..(n + 1)], n + 1)
    BY <1>8
  <2>1. n \in Nat /\ n <= N /\ 1..(n + 1) \in SUBSET D
    BY <1>d
  <2>2. f[1..(n + 1)] = Upsert(f[1..n], inputs[n + 1])
    BY <1>6, <2>1, MaxOfFirst DEF Upserts
  <2>3. Answers(f[1..n], n)
    BY <2>1
  <2>. HIDE DEF T
  <2>. QED
    BY <2>1, <2>2, <2>3, UpsertAnswers
<1>9. T = Nat
  <2>. HIDE DEF T
  <2>1. T \in SUBSET Nat
    BY DEF T
  <2>. QED
    BY <1>7, <1>8, <2>1, Induction
<1>10. Answers(f[1..N], N)
  <2>1. N \in T
    BY <1>d, <1>9
  <2>. HIDE DEF N
  <2>. QED
    BY <1>d, <2>1
<1>11. DOMAIN f[D].results = 1..N
  BY <1>10, <1>d, SeqFacts DEF Answers
<1>. QED
  BY <1>1, <1>11, <1>d

\* No row has a status that none is counted with.
LEMMA NumberNone ==
  ASSUME NEW rows, IsSeq(rows), NEW statuses, Number(rows, statuses) = 0
  PROVE  \A k \in DOMAIN rows : rows[k].status \notin statuses
<1>1. IsFiniteSet(DOMAIN rows)
  BY SeqFacts, FS_Interval
<1>. DEFINE K == {k \in DOMAIN rows : rows[k].status \in statuses}
<1>2. IsFiniteSet(K)
  BY <1>1, FS_Subset
<1>3. K = {}
  BY <1>2, FS_EmptySet DEF Number
<1>. QED
  BY <1>3

-----------------------------------------------------------------------------
(***************************************************************************)
(* What the goroutine of a job knows of its batch. b are the files, R the  *)
(* rows by file, l what the store did for the job, T the files of the      *)
(* report.                                                                 *)
(***************************************************************************)
Who(b, f, k) == ImportIdentity(Contents[b[f]].list[k])

Unstored == {"queued", "skipped", "failed"}

RowIn(row, statuses) == DOMAIN row = {"status", "id"} /\ row.status \in statuses

Rowed(R, statuses) ==
  \A f \in DOMAIN R : IsSeq(R[f]) /\ \A k \in DOMAIN R[f] : RowIn(R[f][k], statuses)

\* A skipped row repeats an entry before it.
Before(b, R, f, k) ==
  \E g \in 1..f : \E l \in DOMAIN R[g] : (g < f \/ l < k) /\ Who(b, g, l) = Who(b, f, k)

SkipsRepeat(b, R) ==
  \A f \in DOMAIN R : \A k \in DOMAIN R[f] : R[f][k].status = "skipped" => Before(b, R, f, k)

NoneFailed(R) == \A f \in DOMAIN R : \A k \in DOMAIN R[f] : R[f][k].status # "failed"

Names(ins, who) == \E i \in DOMAIN ins : ImportIdentity(ins[i].in) = who

\* Every entry of a file that was read is in hand, unless a row has failed.
Covered(b, R, ins) ==
  NoneFailed(R) => \A f \in DOMAIN R : R[f] # <<>> =>
                     \A e \in DOMAIN Contents[b[f]].list : Names(ins, Who(b, f, e))

Pends(b, R, p) ==
  /\ DOMAIN p = {"file", "row", "in"}
  /\ p.file \in DOMAIN R /\ p.row \in DOMAIN R[p.file] /\ R[p.file][p.row].status = "queued"
  /\ p.in = Contents[b[p.file]].list[p.row]

SameRow(p, q) == p.file = q.file /\ p.row = q.row

\* The queued rows and the pending entries are one to one.
Pending(b, R, pending) ==
  /\ IsSeq(pending)
  /\ \A i \in DOMAIN pending : Pends(b, R, pending[i])
  /\ \A i, k \in DOMAIN pending : SameRow(pending[i], pending[k]) => i = k
  /\ \A f \in DOMAIN R : \A k \in DOMAIN R[f] : R[f][k].status = "queued" =>
       \E i \in DOMAIN pending : pending[i].file = f /\ pending[i].row = k

Gathered(b, w) ==
  /\ Rowed(w.rows, Unstored) /\ Pending(b, w.rows, w.pending) /\ Covered(b, w.rows, w.pending)

ShownRows(T) == [f \in DOMAIN T |-> T[f].rows]

\* What the report shows has the rows of the work, which may have failed since.
ShownFile(p, w, f, file) ==
  /\ DOMAIN file = {"status", "rows"} /\ DOMAIN file.rows = DOMAIN w.rows[f]
  /\ file.status \in {"queued", "running", "parsed"}
  /\ file.status = "parsed" => w.rows[f] # <<>>
  /\ file.status = "running" => p = "parsing" /\ f = w.n

Shown(p, b, w, T) ==
  /\ DOMAIN T = DOMAIN b /\ \A f \in DOMAIN T : ShownFile(p, w, f, T[f])
  /\ Rowed(ShownRows(T), Unstored) /\ SkipsRepeat(b, ShownRows(T))

Says(row, entry, done) ==
  /\ row.id = done.id /\ row.status = IF done.created THEN "created" ELSE "updated"
  /\ entry = done.in

Told(b, R, l) ==
  /\ \A f \in DOMAIN R : \A k \in DOMAIN R[f] : R[f][k].status \in Stored =>
       \E i \in DOMAIN l : Says(R[f][k], Contents[b[f]].list[k], l[i])
  /\ \A i \in DOMAIN l : \E f \in DOMAIN R : \E k \in DOMAIN R[f] :
       Says(R[f][k], Contents[b[f]].list[k], l[i])

Batched(b) == IsSeq(b) /\ b # <<>> /\ \A f \in DOMAIN b : b[f] \in Files

Shape(w, b) ==
  /\ DOMAIN w = {"n", "rows", "pending", "seen", "total", "stored", "late"}
  /\ w.late \in BOOLEAN /\ w.n \in Nat \ {0} /\ DOMAIN w.rows = DOMAIN b /\ Batched(b)

Unread(w) == \A f \in DOMAIN w.rows : f >= w.n => w.rows[f] = <<>>

Answered(w, l) ==
  /\ DOMAIN l = DOMAIN w.pending /\ DOMAIN w.stored = DOMAIN w.pending
  /\ \A i \in DOMAIN l : l[i] = [in |-> w.pending[i].in, id |-> w.stored[i].id,
                                 created |-> w.stored[i].created]

WorkOK(p, w, b, l, T) ==
  /\ Shape(w, b) /\ SkipsRepeat(b, w.rows)
  /\ p # "reject" => Shown(p, b, w, T)
  /\ p \in {"parsing", "overflow"} => w.n \in DOMAIN b
  /\ p \in {"next", "parsing"} => Unread(w) /\ \A who \in w.seen : Names(w.pending, who)
  /\ p \in {"next", "parsing", "overflow", "persist", "write", "tell"} => Gathered(b, w)
  /\ p \notin {"tell", "finish"} => l = <<>>
  /\ p = "tell" => Answered(w, l)
  /\ p = "finish" => Rowed(w.rows, Settled) /\ Covered(b, w.rows, l) /\ Told(b, w.rows, l)
  /\ p = "reject" => /\ w.rows = [f \in DOMAIN b |-> Rows(1, "failed")]
                     /\ T = NewReport(b).files

FinalOK(b, l, report) ==
  /\ Batched(b) /\ DOMAIN report.files = DOMAIN b
  /\ SkipsRepeat(b, ShownRows(report.files)) /\ Told(b, ShownRows(report.files), l)
  /\ Rowed(ShownRows(report.files), Settled)
  /\ \A f \in DOMAIN b : report.files[f].rows # <<>>
  /\ report.status = "completed" =>
       \A f \in DOMAIN b : \A e \in DOMAIN Contents[b[f]].list : Names(l, Who(b, f, e))

\* The state of a job, its report included.
JobOK(j) ==
  /\ pc[j] \in {"new", "invalid", "overloaded"} =>
       j \notin DOMAIN table /\ log[j] = <<>> /\ work[j] = NoWork
  /\ pc[j] \in Ready \cup Active =>
       j \in DOMAIN table /\ ~Finished(table[j]) /\ "files" \in DOMAIN table[j]
  /\ pc[j] \in Ready \cup {"begin"} =>
       /\ table[j] = NewReport(batch[j]) /\ log[j] = <<>> /\ work[j] = NoWork
       /\ Batched(batch[j])
  /\ pc[j] \in Active \ {"begin"} => WorkOK(pc[j], work[j], batch[j], log[j], table[j].files)
  /\ pc[j] \in {"release", "done"} /\ j \in DOMAIN table =>
       Finished(table[j]) /\ FinalOK(batch[j], log[j], table[j])

TruthInv ==
  /\ DOMAIN batch = Jobs /\ DOMAIN log = Jobs /\ DOMAIN table \subseteq Jobs
  /\ \A j \in Jobs : JobOK(j)

-----------------------------------------------------------------------------
(***************************************************************************)
(* A file is read: its rows join the work, and the report.                 *)
(***************************************************************************)
\* What a file adds to the work: its rows r, and the entries that wait.
Adds(b, pending, n, r, more) ==
  /\ IsSeq(r) /\ r # <<>> /\ \A k \in DOMAIN r : RowIn(r[k], Unstored)
  /\ \A k \in DOMAIN r : r[k].status = "skipped" =>
       \/ Names(pending, Who(b, n, k))
       \/ \E l \in DOMAIN r : l < k /\ Who(b, n, l) = Who(b, n, k)
  /\ IsSeq(more)
  /\ \A i \in DOMAIN more :
       /\ DOMAIN more[i] = {"file", "row", "in"} /\ more[i].file = n
       /\ more[i].row \in DOMAIN r /\ r[more[i].row].status = "queued"
       /\ more[i].in = Contents[b[n]].list[more[i].row]
  /\ \A i, k \in DOMAIN more : more[i].row = more[k].row => i = k
  /\ \A k \in DOMAIN r : r[k].status = "queued" => \E i \in DOMAIN more : more[i].row = k
  /\ (\A k \in DOMAIN r : r[k].status # "failed") =>
       \A e \in DOMAIN Contents[b[n]].list :
         Names(pending, Who(b, n, e)) \/ Names(more, Who(b, n, e))

\* The rows by file once file n has the rows r.
Fills(R, n, r, Q) ==
  /\ n \in DOMAIN R /\ DOMAIN R \subseteq Nat /\ DOMAIN Q = DOMAIN R /\ Q[n] = r
  /\ \A f \in DOMAIN R : f # n => Q[f] = R[f]

LEMMA ConcatParts ==
  ASSUME NEW s, NEW t, IsSeq(s), IsSeq(t)
  PROVE  /\ IsSeq(s \o t) /\ Len(s) \in Nat
         /\ \A i \in DOMAIN s : i \in DOMAIN (s \o t) /\ (s \o t)[i] = s[i]
         /\ \A i \in DOMAIN t : i + Len(s) \in DOMAIN (s \o t) /\ (s \o t)[i + Len(s)] = t[i]
         /\ \A i \in DOMAIN (s \o t) : i \in DOMAIN s \/ \E k \in DOMAIN t : i = k + Len(s)
         /\ \A i \in DOMAIN s : \A k \in DOMAIN t : i # k + Len(s)
<1>. DEFINE X == ToSet(s) \cup ToSet(t)
<1>1. s \in Seq(X) /\ t \in Seq(X)
  <2>1. s \in Seq(ToSet(s)) /\ t \in Seq(ToSet(t))
    BY DEF IsSeq
  <2>. HIDE DEF X
  <2>2. ToSet(s) \subseteq X /\ ToSet(t) \subseteq X
    BY DEF X
  <2>. QED
    BY <2>1, <2>2
<1>. HIDE DEF X
<1>. DEFINE r == s \o t
<1>2. r \in Seq(X) /\ Len(r) = Len(s) + Len(t) /\ Len(s) \in Nat /\ Len(t) \in Nat
      /\ DOMAIN s = 1..Len(s) /\ DOMAIN t = 1..Len(t) /\ DOMAIN r = 1..(Len(s) + Len(t))
  BY <1>1
<1>3. /\ \A m \in 1..Len(s) : r[m] = s[m]
      /\ \A m \in 1..Len(t) : r[m + Len(s)] = t[m]
  BY <1>1
<1>4. IsSeq(r)
  BY <1>2, SeqIs
<1>. HIDE DEF r
<1>5. ASSUME NEW i \in DOMAIN r, i \notin DOMAIN s PROVE \E k \in DOMAIN t : i = k + Len(s)
  <2>1. i - Len(s) \in DOMAIN t /\ i = (i - Len(s)) + Len(s)
    BY <1>2, <1>5
  <2>. QED
    BY <2>1
<1>6. \A i \in DOMAIN s : \A k \in DOMAIN t : i # k + Len(s)
  BY <1>2
<1>7. \A i \in DOMAIN s : i \in DOMAIN r /\ r[i] = s[i]
  BY <1>2, <1>3
<1>8. \A i \in DOMAIN t : i + Len(s) \in DOMAIN r /\ r[i + Len(s)] = t[i]
  BY <1>2, <1>3
<1>. QED
  BY <1>2, <1>4, <1>5, <1>6, <1>7, <1>8 DEF r

LEMMA BeforeKept ==
  ASSUME NEW b, NEW R, NEW Q, NEW f, NEW k, Before(b, R, f, k),
         \A g \in 1..f : DOMAIN R[g] \subseteq DOMAIN Q[g]
  PROVE  Before(b, Q, f, k)
  BY DEF Before

\* Nothing is read from file n on.
Blank(R, n) == \A f \in DOMAIN R : f >= n => DOMAIN R[f] = {}

\* Q has as many rows as R for every file but n.
AsLong(R, n, Q) == \A f \in DOMAIN R : f # n => DOMAIN Q[f] = DOMAIN R[f]

Repeating(b, Q, n, r) == \A k \in DOMAIN r : r[k].status = "skipped" => Before(b, Q, n, k)

\* Files that have been shown the new rows show skipped rows that repeat.
LEMMA SkipsAdded ==
  ASSUME NEW b, NEW R, NEW Q, NEW n, NEW r, NEW N \in Nat, DOMAIN R = 1..N, Fills(R, n, r, Q),
         DOMAIN R[n] = {}, SkipsRepeat(b, R), Repeating(b, Q, n, r)
  PROVE  SkipsRepeat(b, Q)
<1>1. ASSUME NEW f \in DOMAIN Q, NEW k \in DOMAIN Q[f], Q[f][k].status = "skipped"
      PROVE  Before(b, Q, f, k)
  <2>1. CASE f = n
    BY <1>1, <2>1 DEF Fills, Repeating
  <2>2. CASE f # n
    <3>1. Before(b, R, f, k)
      BY <1>1, <2>2 DEF Fills, SkipsRepeat
    <3>2. \A g \in 1..f : g \in DOMAIN R
      BY DEF Fills
    <3>3. \A g \in 1..f : DOMAIN R[g] \subseteq DOMAIN Q[g]
      BY <3>2 DEF Fills
    <3>. QED
      BY <3>1, <3>3, BeforeKept
  <2>. QED
    BY <2>1, <2>2
<1>. QED
  BY <1>1 DEF SkipsRepeat

\* The skipped rows of the file repeat what was in hand, or one of its own.
LEMMA AddedRepeat ==
  ASSUME NEW b, NEW R, NEW N \in Nat, DOMAIN R = 1..N, NEW n \in 1..N,
         NEW pending, NEW r, NEW more, Adds(b, pending, n, r, more), Pending(b, R, pending),
         Blank(R, n), NEW Q, DOMAIN Q[n] = DOMAIN r, AsLong(R, n, Q)
  PROVE  Repeating(b, Q, n, r)
<1>1. ASSUME NEW k \in DOMAIN r, r[k].status = "skipped" PROVE Before(b, Q, n, k)
  <2>1. CASE Names(pending, Who(b, n, k))
    <3>1. PICK i \in DOMAIN pending : ImportIdentity(pending[i].in) = Who(b, n, k)
      BY <2>1 DEF Names
    <3>. DEFINE g == pending[i].file
                l == pending[i].row
    <3>2. g \in DOMAIN R /\ l \in DOMAIN R[g] /\ Who(b, g, l) = Who(b, n, k)
      BY <3>1 DEF Pending, Pends, Who
    <3>. HIDE DEF g, l
    <3>3. g \in 1..n /\ g < n /\ l \in DOMAIN Q[g]
      BY <3>2 DEF Blank, AsLong
    <3>. QED
      BY <3>2, <3>3 DEF Before
  <2>2. CASE \E l \in DOMAIN r : l < k /\ Who(b, n, l) = Who(b, n, k)
    BY <2>2 DEF Before
  <2>. QED
    BY <1>1, <2>1, <2>2 DEF Adds
<1>. QED
  BY <1>1 DEF Repeating

LEMMA RowedAdded ==
  ASSUME NEW R, NEW Q, NEW n, NEW r, NEW statuses, Fills(R, n, r, Q), Rowed(R, statuses),
         IsSeq(r), \A k \in DOMAIN r : RowIn(r[k], statuses)
  PROVE  Rowed(Q, statuses)
  BY DEF Fills, Rowed

LEMMA PendingAdded ==
  ASSUME NEW b, NEW R, NEW Q, NEW n, NEW r, NEW pending, NEW more, Fills(R, n, r, Q),
         DOMAIN R[n] = {}, Pending(b, R, pending), Adds(b, pending, n, r, more)
  PROVE  Pending(b, Q, pending \o more)
<1>. DEFINE p == pending \o more
            L == Len(pending)
<1>1. IsSeq(pending) /\ IsSeq(more)
  BY DEF Pending, Adds
<1>2. /\ IsSeq(p) /\ L \in Nat
      /\ \A i \in DOMAIN pending : i \in DOMAIN p /\ p[i] = pending[i]
      /\ \A i \in DOMAIN more : i + L \in DOMAIN p /\ p[i + L] = more[i]
      /\ \A i \in DOMAIN p : i \in DOMAIN pending \/ \E k \in DOMAIN more : i = k + L
      /\ \A i \in DOMAIN pending : \A k \in DOMAIN more : i # k + L
  BY <1>1, ConcatParts
<1>. HIDE DEF p, L
<1>3. ASSUME NEW i \in DOMAIN pending PROVE Pends(b, Q, pending[i]) /\ pending[i].file # n
  BY DEF Pending, Pends, Fills
<1>4. ASSUME NEW i \in DOMAIN more PROVE Pends(b, Q, more[i]) /\ more[i].file = n
  BY DEF Adds, Pends, Fills
<1>5. \A i \in DOMAIN p : Pends(b, Q, p[i])
  BY <1>2, <1>3, <1>4
<1>6. ASSUME NEW i \in DOMAIN p, NEW k \in DOMAIN p, SameRow(p[i], p[k]) PROVE i = k
  <2>1. CASE i \in DOMAIN pending /\ k \in DOMAIN pending
    BY <1>2, <1>6, <2>1 DEF Pending
  <2>2. CASE i \notin DOMAIN pending /\ k \notin DOMAIN pending
    <3>1. PICK x \in DOMAIN more, y \in DOMAIN more : i = x + L /\ k = y + L
      BY <1>2, <2>2
    <3>2. SameRow(more[x], more[y])
      BY <1>2, <1>6, <3>1
    <3>. QED
      BY <3>1, <3>2 DEF SameRow, Adds
  <2>3. CASE i \in DOMAIN pending /\ k \notin DOMAIN pending
    <3>1. PICK y \in DOMAIN more : k = y + L
      BY <1>2, <2>3
    <3>. QED
      BY <1>2, <1>3, <1>4, <1>6, <2>3, <3>1 DEF SameRow
  <2>4. CASE i \notin DOMAIN pending /\ k \in DOMAIN pending
    <3>1. PICK y \in DOMAIN more : i = y + L
      BY <1>2, <2>4
    <3>. QED
      BY <1>2, <1>3, <1>4, <1>6, <2>4, <3>1 DEF SameRow
  <2>. QED
    BY <2>1, <2>2, <2>3, <2>4
<1>7. ASSUME NEW f \in DOMAIN Q, NEW k \in DOMAIN Q[f], Q[f][k].status = "queued"
      PROVE  \E i \in DOMAIN p : p[i].file = f /\ p[i].row = k
  <2>1. CASE f = n
    <3>1. PICK i \in DOMAIN more : more[i].row = k
      BY <1>7, <2>1 DEF Adds, Fills
    <3>. QED
      BY <1>2, <1>4, <2>1, <3>1
  <2>2. CASE f # n
    <3>1. PICK i \in DOMAIN pending : pending[i].file = f /\ pending[i].row = k
      BY <1>7, <2>2 DEF Pending, Fills
    <3>. QED
      BY <1>2, <3>1
  <2>. QED
    BY <2>1, <2>2
<1>. QED
  BY <1>2, <1>5, <1>6, <1>7 DEF Pending, p

LEMMA NamesJoined ==
  ASSUME NEW s, NEW t, IsSeq(s), IsSeq(t), NEW who, Names(s, who) \/ Names(t, who)
  PROVE  Names(s \o t, who)
<1>. DEFINE p == s \o t
            L == Len(s)
<1>1. /\ \A i \in DOMAIN s : i \in DOMAIN p /\ p[i] = s[i]
      /\ \A i \in DOMAIN t : i + L \in DOMAIN p /\ p[i + L] = t[i]
  BY ConcatParts
<1>. HIDE DEF p, L
<1>2. Names(p, who)
  BY <1>1 DEF Names
<1>. QED
  BY <1>2 DEF p

LEMMA CoveredAdded ==
  ASSUME NEW b, NEW R, NEW Q, NEW n, NEW r, NEW pending, NEW more, Fills(R, n, r, Q),
         DOMAIN R[n] = {}, IsSeq(pending), Covered(b, R, pending), Adds(b, pending, n, r, more)
  PROVE  Covered(b, Q, pending \o more)
<1>1. IsSeq(more)
  BY DEF Adds
<1>2. SUFFICES ASSUME NoneFailed(Q), NEW f \in DOMAIN Q, Q[f] # <<>>,
                      NEW e \in DOMAIN Contents[b[f]].list
               PROVE  Names(pending \o more, Who(b, f, e))
  BY DEF Covered
<1>3. CASE f = n
  <2>1. \A k \in DOMAIN r : r[k].status # "failed"
    BY <1>2 DEF NoneFailed, Fills
  <2>2. Names(pending, Who(b, n, e)) \/ Names(more, Who(b, n, e))
    BY <1>3, <2>1 DEF Adds
  <2>. QED
    BY <1>1, <1>3, <2>2, NamesJoined
<1>4. CASE f # n
  <2>1. NoneFailed(R)
    BY <1>2 DEF NoneFailed, Fills
  <2>2. f \in DOMAIN R /\ R[f] # <<>>
    BY <1>2, <1>4 DEF Fills
  <2>3. Names(pending, Who(b, f, e))
    BY <2>1, <2>2 DEF Covered
  <2>. QED
    BY <1>1, <2>3, NamesJoined
<1>. QED
  BY <1>3, <1>4

LEMMA Reading ==
  ASSUME NEW w, NEW b, NEW l, NEW T, WorkOK("parsing", w, b, l, T)
  PROVE  /\ Len(b) \in Nat /\ DOMAIN w.rows = 1..Len(b) /\ w.n \in DOMAIN w.rows /\ DOMAIN T = DOMAIN w.rows
         /\ \A f \in DOMAIN w.rows : f >= w.n => DOMAIN w.rows[f] = {}
         /\ \A f \in DOMAIN w.rows : DOMAIN T[f].rows = DOMAIN w.rows[f]
<1>1. Shape(w, b) /\ w.n \in DOMAIN b /\ Unread(w) /\ Shown("parsing", b, w, T)
  BY DEF WorkOK
<1>2. Len(b) \in Nat /\ DOMAIN b = 1..Len(b)
  BY <1>1, SeqFacts DEF Shape, Batched
<1>3. \A f \in DOMAIN w.rows : f >= w.n => DOMAIN w.rows[f] = {}
  BY <1>1 DEF Unread
<1>. QED
  BY <1>1, <1>2, <1>3 DEF Shape, Shown, ShownFile

\* A file has been read: its rows r are in the work and in the report.
LEMMA FileRead ==
  ASSUME NEW w, NEW b, NEW T, WorkOK("parsing", w, b, <<>>, T),
         NEW r, NEW more, Adds(b, w.pending, w.n, r, more),
         NEW u, DOMAIN u = DOMAIN w, u.late \in BOOLEAN, Fills(w.rows, w.n, r, u.rows),
         u.pending = w.pending \o more, \A who \in u.seen : who \in w.seen \/ Names(more, who),
         NEW q \in {"persist", "overflow", "next"}, u.n = IF q = "next" THEN w.n + 1 ELSE w.n,
         NEW S, DOMAIN S = DOMAIN T, S[w.n] = [status |-> "parsed", rows |-> r],
         \A f \in DOMAIN T : f # w.n => S[f] = T[f]
  PROVE  WorkOK(q, u, b, <<>>, S)
<1>. DEFINE n == w.n
            N == Len(b)
            R == w.rows
            Q == u.rows
<1>1. /\ N \in Nat /\ DOMAIN R = 1..N /\ n \in 1..N /\ DOMAIN T = 1..N
      /\ \A f \in DOMAIN R : f >= n => DOMAIN R[f] = {}
      /\ \A f \in DOMAIN R : DOMAIN T[f].rows = DOMAIN R[f]
  BY Reading
<1>2. /\ Shape(w, b) /\ SkipsRepeat(b, R) /\ n \in DOMAIN b /\ Unread(w) /\ Gathered(b, w)
      /\ Shown("parsing", b, w, T) /\ \A who \in w.seen : Names(w.pending, who)
  BY DEF WorkOK
<1>3. Rowed(R, Unstored) /\ Pending(b, R, w.pending) /\ Covered(b, R, w.pending)
  BY <1>2 DEF Gathered
<1>4. DOMAIN R[n] = {} /\ IsSeq(w.pending) /\ IsSeq(more) /\ IsSeq(r) /\ r # <<>>
      /\ \A k \in DOMAIN r : RowIn(r[k], Unstored)
  BY <1>1, <1>3 DEF Pending, Adds
<1>. HIDE DEF N, R, Q, n
<1>5. Fills(R, n, r, Q)
  BY DEF R, Q, n
<1>6. Adds(b, w.pending, n, r, more) /\ u.pending = w.pending \o more
  BY DEF n
<1>7. Rowed(Q, Unstored)
  BY <1>3, <1>4, <1>5, RowedAdded
<1>8. Pending(b, Q, u.pending)
  BY <1>3, <1>4, <1>5, <1>6, PendingAdded
<1>9. Covered(b, Q, u.pending)
  BY <1>3, <1>4, <1>5, <1>6, CoveredAdded
<1>b. Blank(R, n)
  BY <1>1 DEF Blank
<1>10. DOMAIN Q[n] = DOMAIN r /\ AsLong(R, n, Q)
  BY <1>1, <1>5 DEF Fills, AsLong
<1>11. Repeating(b, Q, n, r)
  BY <1>1, <1>3, <1>6, <1>10, <1>b, AddedRepeat
<1>12. SkipsRepeat(b, Q)
  BY <1>1, <1>2, <1>4, <1>5, <1>11, SkipsAdded
<1>. DEFINE A == ShownRows(T)
            B == ShownRows(S)
<1>13. DOMAIN A = 1..N /\ DOMAIN A[n] = {} /\ \A f \in 1..N : DOMAIN A[f] = DOMAIN R[f]
  <2>1. DOMAIN A = 1..N /\ \A f \in 1..N : A[f] = T[f].rows
    BY <1>1 DEF ShownRows
  <2>. HIDE DEF A
  <2>2. DOMAIN T[n].rows = {}
    BY <1>1, <1>4
  <2>. QED
    BY <1>1, <2>1, <2>2
<1>14. Fills(A, n, r, B)
  BY <1>1 DEF Fills, ShownRows, n
<1>15. Rowed(A, Unstored) /\ SkipsRepeat(b, A)
  BY <1>2 DEF Shown
<1>16. Repeating(b, B, n, r)
  <2>1. DOMAIN B[n] = DOMAIN r /\ AsLong(R, n, B)
    BY <1>1, <1>13, <1>14 DEF Fills, AsLong
  <2>. HIDE DEF A, B
  <2>. QED
    BY <1>1, <1>3, <1>6, <1>b, <2>1, AddedRepeat
<1>17. SkipsRepeat(b, B) /\ Rowed(B, Unstored)
  <2>. HIDE DEF A, B
  <2>1. SkipsRepeat(b, B)
    BY <1>1, <1>13, <1>14, <1>15, <1>16, SkipsAdded
  <2>. QED
    BY <1>4, <1>14, <1>15, <2>1, RowedAdded
<1>18. ASSUME NEW f \in DOMAIN S PROVE ShownFile(q, u, f, S[f])
  <2>1. CASE f = n
    BY <1>4, <1>10, <2>1 DEF ShownFile, Q, n
  <2>2. CASE f # n
    <3>1. S[f] = T[f] /\ ShownFile("parsing", w, f, T[f]) /\ f \in DOMAIN R
      BY <1>1, <1>2, <2>2 DEF Shown, n
    <3>2. Q[f] = R[f]
      BY <1>5, <2>2, <3>1 DEF Fills
    <3>. QED
      BY <2>2, <3>1, <3>2 DEF ShownFile, R, Q, n
  <2>. QED
    BY <2>1, <2>2
<1>19. Shown(q, b, u, S)
  BY <1>1, <1>2, <1>17, <1>18 DEF Shown
<1>20. Shape(u, b)
  <2>1. n \in Nat \ {0} /\ n + 1 \in Nat \ {0}
    BY <1>1
  <2>2. DOMAIN u.rows = DOMAIN b
    BY <1>2, <1>5 DEF Fills, Shape, R, Q
  <2>. QED
    BY <1>2, <2>1, <2>2 DEF Shape, n
<1>21. Gathered(b, u)
  BY <1>7, <1>8, <1>9 DEF Gathered, Q
<1>22. q = "overflow" => u.n \in DOMAIN b
  BY <1>2 DEF n
<1>23. q = "next" => Unread(u) /\ \A who \in u.seen : Names(u.pending, who)
  <2>. SUFFICES ASSUME q = "next" PROVE Unread(u) /\ \A who \in u.seen : Names(u.pending, who)
    OBVIOUS
  <2>1. u.n = n + 1
    BY DEF n
  <2>2. ASSUME NEW f \in DOMAIN Q, f >= n + 1 PROVE Q[f] = <<>>
    <3>1. f \in DOMAIN R /\ f # n /\ f >= n
      BY <1>1, <1>5, <2>2 DEF Fills
    <3>. QED
      BY <1>2, <1>5, <3>1 DEF Fills, Unread, R, n
  <2>3. ASSUME NEW who \in u.seen PROVE Names(u.pending, who)
    <3>1. Names(w.pending, who) \/ Names(more, who)
      BY <1>2
    <3>. QED
      BY <1>4, <3>1, NamesJoined
  <2>. QED
    BY <2>1, <2>2, <2>3 DEF Unread, Q
<1>. QED
  BY <1>12, <1>19, <1>20, <1>21, <1>22, <1>23 DEF WorkOK, Q

LEMMA SeqParts ==
  ASSUME NEW X, NEW s \in Seq(X)
  PROVE  Len(s) \in Nat /\ DOMAIN s = 1..Len(s) /\ \A i \in DOMAIN s : s[i] \in X
  OBVIOUS

LEMMA MinIn ==
  ASSUME NEW N \in Nat, NEW S \in SUBSET (1..N), S # {}
  PROVE  \E k \in S : \A i \in S : k <= i
<1>. DEFINE E == {N + 1 - k : k \in S}
<1>1. PICK s \in S : TRUE
  OBVIOUS
<1>2. \A k \in S : k \in 1..N /\ N + 1 - k \in 1..(N + 1)
  OBVIOUS
<1>3. N + 1 \in Nat /\ E \in SUBSET (1..(N + 1)) /\ E # {}
  <2>1. N + 1 - s \in E
    BY <1>1
  <2>2. E \in SUBSET (1..(N + 1))
    BY <1>2
  <2>. QED
    BY <2>1, <2>2
<1>. HIDE DEF E
<1>4. Max(E) \in E /\ \A x \in E : x <= Max(E)
  BY <1>3, MaxIn
<1>5. PICK k \in S : Max(E) = N + 1 - k
  BY <1>4 DEF E
<1>6. \A i \in S : N + 1 - i <= N + 1 - k
  BY <1>4, <1>5 DEF E
<1>. QED
  BY <1>2, <1>5, <1>6

\* An entry of the file whose account is in hand, or named by an entry before it.
Again(rows, list, seen, k) ==
  LET who == ImportIdentity(list[k])
  IN /\ who # <<>>
     /\ who \in seen \/ \E i \in 1..(k - 1) : rows[i].status = "queued" /\ ImportIdentity(list[i]) = who

Waits(n, list, new) == [i \in DOMAIN new |-> [file |-> n, row |-> new[i], in |-> list[new[i]]]]

\* What TakeEntries makes of the rows of a file that parsed.
Takes(list, rows, seen, r) ==
  /\ IsSeq(list) /\ list # <<>> /\ DOMAIN rows = DOMAIN list
  /\ \A k \in DOMAIN rows : RowIn(rows[k], {"queued", "failed"})
  /\ r = [k \in DOMAIN list |-> IF rows[k].status = "queued" /\ Again(rows, list, seen, k)
                                THEN Row("skipped") ELSE rows[k]]

LEMMA EntriesAdd ==
  ASSUME NEW b, NEW n, NEW pending, NEW seen, \A who \in seen : Names(pending, who),
         NEW list, list = Contents[b[n]].list, NEW rows, NEW r, Takes(list, rows, seen, r)
  PROVE  Adds(b, pending, n, r, Waits(n, list, Kept(r)))
<1>. DEFINE N == Len(list)
            new == Kept(r)
            more == Waits(n, list, new)
<1>1. N \in Nat /\ DOMAIN list = 1..N /\ N >= 1
  BY SeqFacts DEF Takes
<1>. HIDE DEF N
<1>2. /\ DOMAIN r = 1..N
      /\ \A k \in 1..N : r[k] = Row("skipped") \/ r[k] = rows[k]
      /\ \A k \in 1..N : RowIn(rows[k], {"queued", "failed"})
      /\ \A k \in 1..N : r[k] # rows[k] => Again(rows, list, seen, k)
  BY <1>1 DEF Takes
<1>3. \A k \in 1..N : RowIn(r[k], Unstored)
  BY <1>2 DEF RowIn, Row, Unstored
<1>4. IsSeq(r) /\ Len(r) = N /\ r # <<>>
  <2>1. r = [k \in 1..N |-> r[k]]
    BY <1>1 DEF Takes
  <2>2. r \in Seq({r[k] : k \in 1..N}) /\ Len(r) = N
    BY <1>1, <2>1
  <2>3. IsSeq(r)
    BY <2>2, SeqIs
  <2>. QED
    BY <1>1, <1>2, <2>2, <2>3
<1>5. KeepsQueued(r, new, N)
  BY <1>4, KeptAll
<1>. HIDE DEF new
<1>6. /\ new \in Seq(1..N) /\ Len(new) \in Nat /\ DOMAIN new = 1..Len(new)
      /\ \A i \in DOMAIN new : new[i] \in 1..N /\ r[new[i]].status = "queued"
      /\ \A i, k \in DOMAIN new : new[i] = new[k] => i = k
      /\ \A q \in 1..N : r[q].status = "queued" => \E i \in DOMAIN new : new[i] = q
  <2>0. new \in Seq(1..N)
    BY <1>5 DEF KeepsQueued
  <2>2. /\ Len(new) \in Nat /\ DOMAIN new = 1..Len(new)
        /\ \A i \in DOMAIN new : new[i] \in 1..N
    BY <2>0, SeqParts
  <2>1. /\ \A i \in DOMAIN new : r[new[i]].status = "queued"
        /\ \A i, k \in DOMAIN new : new[i] = new[k] => i = k
        /\ \A q \in 1..N : r[q].status = "queued" => \E i \in DOMAIN new : new[i] = q
    BY <1>5 DEF KeepsQueued
  <2>. QED
    BY <2>0, <2>1, <2>2
<1>7. /\ DOMAIN more = DOMAIN new
      /\ \A i \in DOMAIN new : more[i] = [file |-> n, row |-> new[i], in |-> list[new[i]]]
  BY DEF Waits
<1>8. IsSeq(more)
  <2>1. more \in Seq({more[i] : i \in DOMAIN new})
    BY <1>6 DEF Waits
  <2>. HIDE DEF more
  <2>. QED
    BY <2>1, SeqIs
<1>. HIDE DEF more
<1>9. ASSUME NEW k \in 1..N, r[k].status = "skipped"
      PROVE  \/ Names(pending, Who(b, n, k))
             \/ \E i \in 1..N : i < k /\ rows[i].status = "queued" /\ Who(b, n, i) = Who(b, n, k)
  <2>1. rows[k].status # "skipped"
    BY <1>2 DEF RowIn
  <2>2. Again(rows, list, seen, k)
    BY <1>2, <1>9, <2>1
  <2>3. CASE ImportIdentity(list[k]) \in seen
    BY <2>3 DEF Who
  <2>4. CASE \E i \in 1..(k - 1) : rows[i].status = "queued" /\ ImportIdentity(list[i]) = ImportIdentity(list[k])
    BY <1>1, <2>4 DEF Who
  <2>. QED
    BY <2>2, <2>3, <2>4 DEF Again
<1>10. ASSUME \A k \in 1..N : r[k].status # "failed", NEW e \in 1..N
       PROVE  Names(pending, Who(b, n, e)) \/ Names(more, Who(b, n, e))
  <2>. DEFINE S == {k \in 1..N : Who(b, n, k) = Who(b, n, e)}
  <2>1. S \in SUBSET (1..N) /\ S # {}
    OBVIOUS
  <2>. HIDE DEF S
  <2>2. PICK k \in S : \A i \in S : k <= i
    BY <1>1, <2>1, MinIn
  <2>3. k \in 1..N /\ Who(b, n, k) = Who(b, n, e)
    BY <2>2 DEF S
  <2>4. CASE r[k].status = "queued"
    <3>1. PICK i \in DOMAIN new : new[i] = k
      BY <1>6, <2>3, <2>4
    <3>2. more[i].in = list[k] /\ i \in DOMAIN more
      BY <1>7, <3>1
    <3>. QED
      BY <2>3, <3>2 DEF Names, Who
  <2>5. CASE r[k].status = "skipped"
    <3>1. ~\E i \in 1..N : i < k /\ Who(b, n, i) = Who(b, n, k)
      BY <2>2, <2>3 DEF S
    <3>. QED
      BY <1>9, <2>3, <2>5, <3>1
  <2>6. r[k].status \in Unstored
    BY <1>3, <2>3 DEF RowIn
  <2>. QED
    BY <1>10, <2>3, <2>4, <2>5, <2>6 DEF Unstored
<1>11. \A k \in DOMAIN r : r[k].status = "skipped" =>
         \/ Names(pending, Who(b, n, k))
         \/ \E l \in DOMAIN r : l < k /\ Who(b, n, l) = Who(b, n, k)
  BY <1>2, <1>9
<1>12. \A i \in DOMAIN more :
         /\ DOMAIN more[i] = {"file", "row", "in"} /\ more[i].file = n
         /\ more[i].row \in DOMAIN r /\ r[more[i].row].status = "queued"
         /\ more[i].in = Contents[b[n]].list[more[i].row]
  BY <1>2, <1>6, <1>7
<1>13. \A i, k \in DOMAIN more : more[i].row = more[k].row => i = k
  BY <1>6, <1>7
<1>14. \A k \in DOMAIN r : r[k].status = "queued" => \E i \in DOMAIN more : more[i].row = k
  BY <1>2, <1>6, <1>7
<1>15. (\A k \in DOMAIN r : r[k].status # "failed") =>
         \A e \in DOMAIN Contents[b[n]].list :
           Names(pending, Who(b, n, e)) \/ Names(more, Who(b, n, e))
  BY <1>1, <1>2, <1>10
<1>16. Adds(b, pending, n, r, more)
  BY <1>2, <1>3, <1>4, <1>8, <1>11, <1>12, <1>13, <1>14, <1>15 DEF Adds
<1>. QED
  BY <1>16 DEF more, new

\* A file of which nothing is left: every row has failed.
LEMMA FailedAdd ==
  ASSUME NEW b, NEW n, NEW pending, NEW r, IsSeq(r), r # <<>>, \A k \in DOMAIN r : RowIn(r[k], {"failed"})
  PROVE  Adds(b, pending, n, r, <<>>)
<1>1. 1 \in DOMAIN r
  BY SeqFacts
<1>2. IsSeq(<<>>) /\ DOMAIN <<>> = {}
  BY DEF IsSeq
<1>3. \A k \in DOMAIN r : DOMAIN r[k] = {"status", "id"} /\ r[k].status = "failed"
  BY DEF RowIn
<1>. QED
  BY <1>1, <1>2, <1>3 DEF Adds, RowIn, Unstored

LEMMA ParsedRowsShape ==
  ASSUME NEW file \in Files, NEW failing
  PROVE  LET rows == ParsedRows(Contents[file], failing)
         IN /\ IsSeq(rows) /\ rows # <<>>
            /\ \A k \in DOMAIN rows : RowIn(rows[k], {"queued", "failed"})
            /\ Contents[file].via = "none" => \A k \in DOMAIN rows : RowIn(rows[k], {"failed"})
            /\ Contents[file].via # "none" => DOMAIN rows = DOMAIN Contents[file].list
<1>. DEFINE c == Contents[file]
            rows == ParsedRows(c, failing)
<1>1. IsSeq(c.list) /\ (c.via # "none" => c.list # <<>>)
  BY ContentsListed
<1>. HIDE DEF c
<1>2. CASE c.via = "none"
  <2>1. rows = [k \in 1..1 |-> Row("failed")]
    BY <1>2 DEF ParsedRows, Rows
  <2>2. rows \in Seq({Row("failed")}) /\ 1 \in DOMAIN rows /\ \A k \in DOMAIN rows : rows[k] = Row("failed")
    BY <2>1
  <2>3. RowIn(Row("failed"), {"failed"})
    BY DEF RowIn, Row
  <2>4. RowIn(Row("failed"), {"queued", "failed"})
    BY DEF RowIn, Row
  <2>. HIDE DEF rows
  <2>5. IsSeq(rows) /\ rows # <<>>
    BY <2>2, SeqIs
  <2>. QED
    BY <1>2, <2>2, <2>3, <2>4, <2>5 DEF c, rows
<1>3. CASE c.via # "none"
  <2>1. Len(c.list) \in Nat /\ DOMAIN c.list = 1..Len(c.list) /\ 1 \in DOMAIN c.list
    BY <1>1, <1>3, SeqFacts
  <2>2. rows = [k \in 1..Len(c.list) |-> Row(IF k \in failing THEN "failed" ELSE "queued")]
    BY <1>3, <2>1 DEF ParsedRows
  <2>3. \A k \in 1..Len(c.list) : rows[k] \in {Row("failed"), Row("queued")}
    BY <2>2
  <2>4. rows \in Seq({Row("failed"), Row("queued")}) /\ DOMAIN rows = DOMAIN c.list
    BY <2>1, <2>2
  <2>5. RowIn(Row("failed"), {"queued", "failed"}) /\ RowIn(Row("queued"), {"queued", "failed"})
    BY DEF RowIn, Row
  <2>. HIDE DEF rows
  <2>6. IsSeq(rows) /\ rows # <<>>
    BY <2>1, <2>4, SeqIs
  <2>7. \A k \in DOMAIN rows : RowIn(rows[k], {"queued", "failed"})
    BY <2>1, <2>3, <2>4, <2>5
  <2>. QED
    BY <1>3, <2>4, <2>6, <2>7 DEF c, rows
<1>. QED
  BY <1>2, <1>3

LEMMA FailQueuedShape ==
  ASSUME NEW rows, IsSeq(rows), NEW statuses, \A k \in DOMAIN rows : RowIn(rows[k], statuses)
  PROVE  /\ IsSeq(FailQueued(rows)) /\ DOMAIN FailQueued(rows) = DOMAIN rows
         /\ \A k \in DOMAIN rows : RowIn(FailQueued(rows)[k], (statuses \ {"queued"}) \cup {"failed"})
         /\ \A k \in DOMAIN rows : FailQueued(rows)[k].status =
              IF rows[k].status = "queued" THEN "failed" ELSE rows[k].status
<1>. DEFINE r == FailQueued(rows)
<1>1. Len(rows) \in Nat /\ DOMAIN rows = 1..Len(rows)
  BY SeqFacts
<1>2. r = [k \in 1..Len(rows) |-> IF rows[k].status = "queued" THEN Row("failed") ELSE rows[k]]
  BY <1>1 DEF FailQueued
<1>3. r \in Seq({r[k] : k \in 1..Len(rows)}) /\ DOMAIN r = DOMAIN rows
  BY <1>1, <1>2
<1>4. \A k \in DOMAIN rows : r[k] = IF rows[k].status = "queued" THEN Row("failed") ELSE rows[k]
  BY <1>1, <1>2
<1>. HIDE DEF r
<1>5. IsSeq(r)
  BY <1>3, SeqIs
<1>6. RowIn(Row("failed"), (statuses \ {"queued"}) \cup {"failed"}) /\ Row("failed").status = "failed"
  BY DEF RowIn, Row
<1>7. \A k \in DOMAIN rows : rows[k].status # "queued" =>
        RowIn(rows[k], (statuses \ {"queued"}) \cup {"failed"})
  BY DEF RowIn
<1>. QED
  BY <1>3, <1>4, <1>5, <1>6, <1>7 DEF r

\* What a parse puts into the work.
Joins(w, u, r, more) ==
  /\ DOMAIN u = DOMAIN w /\ u.late = w.late /\ u.n = w.n
  /\ Fills(w.rows, w.n, r, u.rows) /\ u.pending = w.pending \o more
  /\ \A who \in u.seen : who \in w.seen \/ Names(more, who)

LEMMA TakeJoins ==
  ASSUME NEW w, "rows" \in DOMAIN w, "seen" \in DOMAIN w, "pending" \in DOMAIN w,
         w.n \in DOMAIN w.rows, DOMAIN w.rows \subseteq Nat,
         NEW list, NEW rows, rows = w.rows[w.n], DOMAIN rows = DOMAIN list, IsSeq(list), list # <<>>,
         \A k \in DOMAIN rows : RowIn(rows[k], {"queued", "failed"})
  PROVE  \E r : Takes(list, rows, w.seen, r) /\ Joins(w, TakeEntries(w, list), r, Waits(w.n, list, Kept(r)))
<1>. DEFINE r == [k \in DOMAIN list |-> IF rows[k].status = "queued" /\ Again(rows, list, w.seen, k)
                                        THEN Row("skipped") ELSE rows[k]]
            new == Kept(r)
            more == Waits(w.n, list, new)
            seen == w.seen \cup ({ImportIdentity(list[new[i]]) : i \in DOMAIN new} \ {<<>>})
            u == [w EXCEPT !.rows[w.n] = r, !.seen = seen, !.pending = w.pending \o more]
<1>1. Takes(list, rows, w.seen, r)
  BY DEF Takes
<1>2. \A k : Repeats(w, list, k) <=> Again(rows, list, w.seen, k)
  BY DEF Repeats, Again
<1>3. r = [k \in DOMAIN list |-> IF w.rows[w.n][k].status = "queued" /\ Repeats(w, list, k)
                                 THEN Row("skipped") ELSE w.rows[w.n][k]]
  BY <1>2
<1>. HIDE DEF r
<1>4. TakeEntries(w, list) = u
  BY <1>3 DEF TakeEntries, Waits
<1>5. \A i \in DOMAIN new : i \in DOMAIN more /\ more[i].in = list[new[i]]
  BY DEF Waits
<1>. HIDE DEF new, more
<1>6. /\ DOMAIN u = DOMAIN w /\ u.late = w.late /\ u.n = w.n
      /\ u.rows = [w.rows EXCEPT ![w.n] = r]
      /\ u.seen = seen /\ u.pending = w.pending \o more
  OBVIOUS
<1>7. \A who \in seen : who \in w.seen \/ Names(more, who)
  BY <1>5 DEF Names
<1>. HIDE DEF u, seen
<1>8. Fills(w.rows, w.n, r, u.rows)
  BY <1>6 DEF Fills
<1>9. Joins(w, u, r, more)
  BY <1>6, <1>7, <1>8 DEF Joins
<1>. QED
  BY <1>1, <1>4, <1>9 DEF more, new

\* parseFile, whatever comes of it.
LEMMA ParsedAdds ==
  ASSUME NEW w, NEW b, NEW T, WorkOK("parsing", w, b, <<>>, T), NEW failing
  PROVE  \E r, more : /\ Adds(b, w.pending, w.n, r, more)
                      /\ Joins(w, Parsed(w, Contents[b[w.n]], failing), r, more)
<1>. DEFINE n == w.n
            c == Contents[b[n]]
            rows == ParsedRows(c, failing)
            first == IF w.late THEN FailQueued(rows) ELSE rows
            v == [w EXCEPT !.total = @ + c.count, !.rows[w.n] = first]
            u == Parsed(w, c, failing)
<1>1. /\ Shape(w, b) /\ n \in DOMAIN b /\ \A who \in w.seen : Names(w.pending, who)
      /\ Pending(b, w.rows, w.pending)
  BY DEF WorkOK, Gathered
<1>2. b[n] \in Files /\ n \in DOMAIN w.rows /\ DOMAIN w.rows \subseteq Nat
  BY <1>1, SeqFacts DEF Shape, Batched
<1>3. u = IF w.late \/ c.via = "none" THEN v ELSE TakeEntries(v, c.list)
  BY DEF Parsed
<1>4. /\ IsSeq(rows) /\ rows # <<>>
      /\ \A k \in DOMAIN rows : RowIn(rows[k], {"queued", "failed"})
      /\ c.via = "none" => \A k \in DOMAIN rows : RowIn(rows[k], {"failed"})
      /\ c.via # "none" => DOMAIN rows = DOMAIN c.list
  BY <1>2, ParsedRowsShape
<1>5. IsSeq(c.list) /\ (c.via # "none" => c.list # <<>>)
  BY <1>2, ContentsListed
<1>. HIDE DEF rows, c, n, u
<1>6. DOMAIN w = {"n", "rows", "pending", "seen", "total", "stored", "late"} /\ w.late \in BOOLEAN
  BY <1>1 DEF Shape
<1>7. /\ DOMAIN v = DOMAIN w /\ v.late = w.late /\ v.n = n
      /\ v.rows = [w.rows EXCEPT ![n] = first]
      /\ v.pending = w.pending /\ v.seen = w.seen
  BY <1>6 DEF n
<1>. HIDE DEF v
<1>8. Fills(w.rows, n, first, v.rows)
  <2>. HIDE DEF first
  <2>. QED
    BY <1>2, <1>7 DEF Fills, n
<1>9. CASE w.late \/ c.via = "none"
  <2>1. IsSeq(first) /\ DOMAIN first = DOMAIN rows /\ \A k \in DOMAIN rows : RowIn(first[k], {"failed"})
    <3>1. CASE w.late
      <4>1. /\ IsSeq(FailQueued(rows)) /\ DOMAIN FailQueued(rows) = DOMAIN rows
            /\ \A k \in DOMAIN rows :
                 RowIn(FailQueued(rows)[k], ({"queued", "failed"} \ {"queued"}) \cup {"failed"})
        BY <1>4, FailQueuedShape
      <4>2. ({"queued", "failed"} \ {"queued"}) \cup {"failed"} = {"failed"}
        OBVIOUS
      <4>. QED
        BY <3>1, <4>1, <4>2
    <3>2. CASE ~w.late
      BY <1>4, <1>9, <3>2
    <3>. QED
      BY <1>6, <3>1, <3>2
  <2>. HIDE DEF first
  <2>2. 1 \in DOMAIN rows
    BY <1>4, SeqFacts
  <2>3. first # <<>>
    BY <2>1, <2>2
  <2>4. Adds(b, w.pending, n, first, <<>>)
    BY <2>1, <2>3, FailedAdd
  <2>5. w.pending \o <<>> = w.pending
    BY <1>1 DEF Pending, IsSeq
  <2>6. u = v
    BY <1>3, <1>9
  <2>7. Joins(w, u, first, <<>>)
    BY <1>7, <1>8, <2>5, <2>6 DEF Joins, n
  <2>. QED
    BY <2>4, <2>7 DEF u, c, n
<1>10. CASE ~(w.late \/ c.via = "none")
  <2>1. first = rows /\ u = TakeEntries(v, c.list)
    BY <1>3, <1>10
  <2>2. v.rows[n] = rows /\ DOMAIN v.rows = DOMAIN w.rows
    BY <1>8, <2>1 DEF Fills
  <2>3. "rows" \in DOMAIN v /\ "seen" \in DOMAIN v /\ "pending" \in DOMAIN v
    BY <1>6, <1>7
  <2>4. v.n \in DOMAIN v.rows /\ DOMAIN v.rows \subseteq Nat /\ rows = v.rows[v.n]
    BY <1>2, <1>7, <2>2 DEF n
  <2>5. DOMAIN rows = DOMAIN c.list /\ IsSeq(c.list) /\ c.list # <<>>
    BY <1>4, <1>5, <1>10
  <2>6. PICK r : Takes(c.list, rows, v.seen, r) /\ Joins(v, u, r, Waits(v.n, c.list, Kept(r)))
    BY <1>4, <2>1, <2>3, <2>4, <2>5, TakeJoins
  <2>. DEFINE more == Waits(n, c.list, Kept(r))
  <2>7. Takes(c.list, rows, w.seen, r) /\ Joins(v, u, r, more)
    BY <1>7, <2>6
  <2>8. Adds(b, w.pending, n, r, more)
    BY <1>1, <2>7, EntriesAdd DEF c
  <2>. HIDE DEF more
  <2>9. Fills(w.rows, n, r, u.rows)
    BY <1>7, <1>8, <2>7 DEF Fills, Joins
  <2>10. Joins(w, u, r, more)
    BY <1>7, <2>7, <2>9 DEF Joins, n
  <2>. QED
    BY <2>8, <2>10 DEF u, c, n
<1>. QED
  BY <1>9, <1>10

-----------------------------------------------------------------------------
(***************************************************************************)
(* A batch begins, goes on, and overflows.                                 *)
(***************************************************************************)
LEMMA NewBatch ==
  ASSUME NEW b, Batched(b)
  PROVE  Len(b) \in Nat /\ DOMAIN b = 1..Len(b) /\ 1 \in DOMAIN b /\ DOMAIN NewReport(b).files = DOMAIN b
         /\ \A f \in DOMAIN b : NewReport(b).files[f] = [status |-> "queued", rows |-> <<>>]
  BY SeqFacts DEF Batched, NewReport

LEMMA BegunNext ==
  ASSUME NEW b, Batched(b)
  PROVE  WorkOK("next", [NoWork EXCEPT !.rows = [f \in DOMAIN b |-> <<>>]], b, <<>>, NewReport(b).files)
<1>. DEFINE w == [NoWork EXCEPT !.rows = [f \in DOMAIN b |-> <<>>]]
            T == NewReport(b).files
            R == w.rows
<1>1. /\ DOMAIN w = {"n", "rows", "pending", "seen", "total", "stored", "late"}
      /\ w.n = 1 /\ w.late \in BOOLEAN /\ w.pending = <<>> /\ w.seen = {}
      /\ R = [f \in DOMAIN b |-> <<>>]
  BY DEF NoWork
<1>. HIDE DEF w
<1>2. DOMAIN T = DOMAIN b /\ \A f \in DOMAIN T : T[f] = [status |-> "queued", rows |-> <<>>]
  BY NewBatch
<1>3. DOMAIN R = DOMAIN b /\ (\A f \in DOMAIN R : R[f] = <<>>) /\ DOMAIN <<>> = {} /\ IsSeq(<<>>)
  BY <1>1 DEF IsSeq
<1>. HIDE DEF T, R
<1>4. Rowed(R, Unstored) /\ SkipsRepeat(b, R) /\ Pending(b, R, <<>>) /\ Covered(b, R, <<>>)
  BY <1>3 DEF Rowed, SkipsRepeat, Pending, Covered
<1>5. Rowed(ShownRows(T), Unstored) /\ SkipsRepeat(b, ShownRows(T))
  BY <1>2, <1>3 DEF Rowed, SkipsRepeat, ShownRows
<1>6. \A f \in DOMAIN T : ShownFile("next", w, f, T[f])
  BY <1>2, <1>3 DEF ShownFile, R
<1>7. Shown("next", b, w, T)
  BY <1>2, <1>5, <1>6 DEF Shown
<1>8. Shape(w, b) /\ Unread(w) /\ Gathered(b, w)
  <2>1. w.n \in Nat \ {0} /\ DOMAIN w.rows = DOMAIN b
    BY <1>1, <1>3 DEF R
  <2>2. Shape(w, b)
    BY <1>1, <2>1 DEF Shape
  <2>. QED
    BY <1>1, <1>3, <1>4, <2>2 DEF Unread, Gathered, R
<1>9. WorkOK("next", w, b, <<>>, T)
  BY <1>1, <1>4, <1>7, <1>8 DEF WorkOK, R
<1>. QED
  BY <1>9 DEF w, T

LEMMA FailedRow ==
  /\ IsSeq(Rows(1, "failed")) /\ Rows(1, "failed") # <<>> /\ DOMAIN Rows(1, "failed") = {1}
  /\ Rows(1, "failed")[1].status = "failed" /\ RowIn(Rows(1, "failed")[1], Settled)
<1>. DEFINE r == Rows(1, "failed")
<1>1. r = [k \in 1..1 |-> Row("failed")]
  BY DEF Rows
<1>. HIDE DEF r
<1>2. r \in Seq({Row("failed")}) /\ DOMAIN r = {1} /\ r[1] = Row("failed")
  <2>1. r \in Seq({Row("failed")})
    BY <1>1
  <2>2. 1..1 = {1}
    OBVIOUS
  <2>. QED
    BY <1>1, <2>1, <2>2
<1>3. RowIn(Row("failed"), Settled) /\ Row("failed").status = "failed"
  BY DEF RowIn, Row, Settled
<1>4. IsSeq(r) /\ r # <<>>
  BY <1>2, SeqIs
<1>. QED
  BY <1>2, <1>3, <1>4 DEF r

LEMMA BegunReject ==
  ASSUME NEW b, Batched(b)
  PROVE  WorkOK("reject", [NoWork EXCEPT !.rows = [f \in DOMAIN b |-> Rows(1, "failed")]], b, <<>>,
                NewReport(b).files)
<1>. DEFINE w == [NoWork EXCEPT !.rows = [f \in DOMAIN b |-> Rows(1, "failed")]]
            R == [f \in DOMAIN b |-> Rows(1, "failed")]
<1>1. /\ DOMAIN w = {"n", "rows", "pending", "seen", "total", "stored", "late"}
      /\ w.n = 1 /\ w.late \in BOOLEAN /\ w.rows = R
  BY DEF NoWork
<1>. HIDE DEF w
<1>2. Shape(w, b)
  <2>1. w.n \in Nat \ {0} /\ DOMAIN w.rows = DOMAIN b
    BY <1>1
  <2>. QED
    BY <1>1, <2>1 DEF Shape
<1>3. SkipsRepeat(b, w.rows)
  BY <1>1, FailedRow DEF SkipsRepeat
<1>4. WorkOK("reject", w, b, <<>>, NewReport(b).files)
  BY <1>1, <1>2, <1>3, NewBatch DEF WorkOK
<1>. QED
  BY <1>4 DEF w

\* The work is the same; no file is in hand any more, or none was.
LEMMA ShownOn ==
  ASSUME NEW p, NEW q, NEW b, NEW w, NEW T, Shown(p, b, w, T), p # "parsing"
  PROVE  Shown(q, b, w, T)
<1>1. \A f \in DOMAIN T : ShownFile(p, w, f, T[f]) => ShownFile(q, w, f, T[f])
  BY DEF ShownFile
<1>. QED
  BY <1>1 DEF Shown

LEMMA AllRead ==
  ASSUME NEW w, NEW b, NEW T, WorkOK("next", w, b, <<>>, T)
  PROVE  WorkOK("persist", w, b, <<>>, T)
<1>1. Shown("next", b, w, T)
  BY DEF WorkOK
<1>2. Shown("persist", b, w, T)
  BY <1>1, ShownOn
<1>. QED
  BY <1>2 DEF WorkOK

LEMMA OneMore ==
  ASSUME NEW w, NEW b, NEW T, WorkOK("next", w, b, <<>>, T), w.n \in DOMAIN b,
         NEW S, DOMAIN S = DOMAIN T, S[w.n] = [T[w.n] EXCEPT !.status = "running"],
         \A f \in DOMAIN T : f # w.n => S[f] = T[f]
  PROVE  WorkOK("parsing", w, b, <<>>, S)
<1>1. Shown("next", b, w, T)
  BY DEF WorkOK
<1>2. w.n \in DOMAIN T
  BY <1>1 DEF Shown
<1>3. ShownFile("next", w, w.n, T[w.n])
  BY <1>1, <1>2 DEF Shown
<1>4. DOMAIN S[w.n] = {"status", "rows"} /\ S[w.n].status = "running" /\ S[w.n].rows = T[w.n].rows
  BY <1>3 DEF ShownFile
<1>5. \A f \in DOMAIN T : S[f].rows = T[f].rows
  BY <1>4
<1>6. ShownRows(S) = ShownRows(T)
  BY <1>5 DEF ShownRows
<1>7. ShownFile("parsing", w, w.n, S[w.n])
  BY <1>3, <1>4 DEF ShownFile
<1>8. ASSUME NEW f \in DOMAIN S PROVE ShownFile("parsing", w, f, S[f])
  <2>1. CASE f = w.n
    BY <1>7, <2>1
  <2>2. CASE f # w.n
    <3>1. ShownFile("next", w, f, S[f])
      BY <1>1, <2>2 DEF Shown
    <3>. QED
      BY <3>1 DEF ShownFile
  <2>. QED
    BY <2>1, <2>2
<1>9. Shown("parsing", b, w, S)
  BY <1>1, <1>6, <1>8 DEF Shown
<1>. QED
  BY <1>9 DEF WorkOK

\* Rows are added to the files, and none of them is skipped.
LEMMA SkipsKept ==
  ASSUME NEW b, NEW R, NEW Q, NEW N \in Nat, DOMAIN R = 1..N, DOMAIN Q = 1..N, SkipsRepeat(b, R),
         \A f \in 1..N : DOMAIN R[f] \subseteq DOMAIN Q[f],
         \A f \in 1..N : \A k \in DOMAIN Q[f] :
           Q[f][k].status = "skipped" => k \in DOMAIN R[f] /\ R[f][k].status = "skipped"
  PROVE  SkipsRepeat(b, Q)
<1>1. ASSUME NEW f \in DOMAIN Q, NEW k \in DOMAIN Q[f], Q[f][k].status = "skipped"
      PROVE  Before(b, Q, f, k)
  <2>1. Before(b, R, f, k)
    BY <1>1 DEF SkipsRepeat
  <2>2. \A g \in 1..f : g \in 1..N
    OBVIOUS
  <2>3. \A g \in 1..f : DOMAIN R[g] \subseteq DOMAIN Q[g]
    BY <2>2
  <2>. QED
    BY <2>1, <2>3, BeforeKept
<1>. QED
  BY <1>1 DEF SkipsRepeat

\* Every file shows its rows in one of two reports.
LEMMA SkipsMixed ==
  ASSUME NEW b, NEW A, NEW Q, NEW B, NEW N \in Nat, DOMAIN A = 1..N, DOMAIN Q = 1..N, DOMAIN B = 1..N,
         SkipsRepeat(b, A), SkipsRepeat(b, Q),
         \A f \in 1..N : DOMAIN A[f] \subseteq DOMAIN B[f],
         \A f \in 1..N : DOMAIN Q[f] \subseteq DOMAIN B[f],
         \A f \in 1..N : B[f] = A[f] \/ B[f] = Q[f]
  PROVE  SkipsRepeat(b, B)
<1>1. ASSUME NEW f \in DOMAIN B, NEW k \in DOMAIN B[f], B[f][k].status = "skipped"
      PROVE  Before(b, B, f, k)
  <2>1. Before(b, A, f, k) \/ Before(b, Q, f, k)
    BY <1>1 DEF SkipsRepeat
  <2>2. \A g \in 1..f : g \in 1..N
    OBVIOUS
  <2>3. \A g \in 1..f : DOMAIN A[g] \subseteq DOMAIN B[g]
    BY <2>2
  <2>4. \A g \in 1..f : DOMAIN Q[g] \subseteq DOMAIN B[g]
    BY <2>2
  <2>5. CASE Before(b, A, f, k)
    BY <2>3, <2>5, BeforeKept
  <2>6. CASE Before(b, Q, f, k)
    BY <2>4, <2>6, BeforeKept
  <2>. QED
    BY <2>1, <2>5, <2>6
<1>. QED
  BY <1>1 DEF SkipsRepeat

LEMMA AppendFailed ==
  ASSUME NEW r, IsSeq(r), NEW statuses, "failed" \in statuses, \A k \in DOMAIN r : RowIn(r[k], statuses)
  PROVE  LET s == Append(r, Row("failed"))
         IN /\ IsSeq(s) /\ s # <<>> /\ DOMAIN r \subseteq DOMAIN s
            /\ \A k \in DOMAIN s : RowIn(s[k], statuses)
            /\ \A k \in DOMAIN s : (k \in DOMAIN r /\ s[k] = r[k]) \/ s[k].status = "failed"
            /\ \E k \in DOMAIN s : s[k].status = "failed"
<1>. DEFINE s == Append(r, Row("failed"))
            X == ToSet(r) \cup {Row("failed")}
<1>1. r \in Seq(X)
  <2>1. r \in Seq(ToSet(r)) /\ ToSet(r) \subseteq X
    BY DEF IsSeq
  <2>. HIDE DEF X
  <2>. QED
    BY <2>1
<1>2. Row("failed") \in X
  OBVIOUS
<1>. HIDE DEF X
<1>3. s \in Seq(X) /\ Len(r) \in Nat /\ DOMAIN r = 1..Len(r) /\ DOMAIN s = 1..(Len(r) + 1)
      /\ \A k \in 1..Len(r) : s[k] = r[k]
  BY <1>1, <1>2
<1>4. s[Len(r) + 1] = Row("failed")
  BY <1>1, <1>2
<1>. HIDE DEF s
<1>5. RowIn(Row("failed"), statuses) /\ Row("failed").status = "failed"
  BY DEF RowIn, Row
<1>6. \A k \in DOMAIN s : k \in DOMAIN r \/ k = Len(r) + 1
  BY <1>3
<1>7. Len(r) + 1 \in DOMAIN s
  BY <1>3
<1>8. IsSeq(s) /\ s # <<>>
  BY <1>3, <1>7, SeqIs
<1>9. DOMAIN r \subseteq DOMAIN s /\ \A k \in DOMAIN r : s[k] = r[k]
  BY <1>3
<1>10. \A k \in DOMAIN s : RowIn(s[k], statuses)
  BY <1>4, <1>5, <1>6, <1>9
<1>11. \A k \in DOMAIN s : (k \in DOMAIN r /\ s[k] = r[k]) \/ s[k].status = "failed"
  BY <1>4, <1>5, <1>6, <1>9
<1>12. \E k \in DOMAIN s : s[k].status = "failed"
  BY <1>4, <1>5, <1>7
<1>. QED
  BY <1>8, <1>9, <1>10, <1>11, <1>12 DEF s

\* Overflow: nothing is queued any more, and the file at hand has failed.
LEMMA Overflowed ==
  ASSUME NEW w, NEW b, NEW T, WorkOK("overflow", w, b, <<>>, T),
         NEW v, DOMAIN v = DOMAIN w, v.late = w.late, v.n = w.n, v.pending = <<>>,
         DOMAIN v.rows = DOMAIN w.rows,
         v.rows[w.n] = Append(FailQueued(w.rows[w.n]), Row("failed")),
         \A f \in DOMAIN w.rows : f # w.n => v.rows[f] = FailQueued(w.rows[f]),
         NEW S, DOMAIN S = DOMAIN T, S[w.n] = [status |-> "parsed", rows |-> v.rows[w.n]],
         \A f \in DOMAIN T : f # w.n => S[f] = T[f]
  PROVE  WorkOK("persist", v, b, <<>>, S)
<1>. DEFINE n == w.n
            N == Len(b)
            R == w.rows
            Q == v.rows
            A == ShownRows(T)
            B == ShownRows(S)
<1>1. /\ Shape(w, b) /\ SkipsRepeat(b, R) /\ n \in DOMAIN b /\ Gathered(b, w)
      /\ Shown("overflow", b, w, T)
  BY DEF WorkOK
<1>2. /\ N \in Nat /\ DOMAIN R = 1..N /\ DOMAIN Q = 1..N /\ DOMAIN T = 1..N /\ DOMAIN S = 1..N /\ n \in 1..N
  BY <1>1, SeqFacts DEF Shape, Shown, Batched
<1>3. Rowed(R, Unstored) /\ Rowed(A, Unstored) /\ SkipsRepeat(b, A)
  BY <1>1 DEF Gathered, Shown
<1>. DEFINE F == [f \in 1..N |-> FailQueued(R[f])]
            Left == {"skipped", "failed"}
<1>4. /\ DOMAIN F = 1..N /\ Q[n] = Append(F[n], Row("failed"))
      /\ \A f \in 1..N : f # n => Q[f] = F[f]
  BY <1>2
<1>5. ASSUME NEW f \in 1..N
      PROVE  /\ IsSeq(F[f]) /\ DOMAIN F[f] = DOMAIN R[f] /\ \A k \in DOMAIN F[f] : RowIn(F[f][k], Left)
             /\ \A k \in DOMAIN F[f] : F[f][k].status = "skipped" => R[f][k].status = "skipped"
  <2>1. IsSeq(R[f]) /\ \A k \in DOMAIN R[f] : RowIn(R[f][k], Unstored)
    BY <1>2, <1>3 DEF Rowed
  <2>. HIDE DEF R
  <2>2. /\ IsSeq(FailQueued(R[f])) /\ DOMAIN FailQueued(R[f]) = DOMAIN R[f]
        /\ \A k \in DOMAIN R[f] : RowIn(FailQueued(R[f])[k], (Unstored \ {"queued"}) \cup {"failed"})
        /\ \A k \in DOMAIN R[f] : FailQueued(R[f])[k].status =
             IF R[f][k].status = "queued" THEN "failed" ELSE R[f][k].status
    BY <2>1, FailQueuedShape
  <2>3. (Unstored \ {"queued"}) \cup {"failed"} = Left
    BY DEF Unstored
  <2>4. F[f] = FailQueued(R[f])
    OBVIOUS
  <2>. HIDE DEF F, Left
  <2>. QED
    BY <2>2, <2>3, <2>4
<1>6. "failed" \in Left
  OBVIOUS
<1>. HIDE DEF n, N, R, Q, A, B, F, Left
<1>7. /\ IsSeq(Q[n]) /\ Q[n] # <<>> /\ DOMAIN F[n] \subseteq DOMAIN Q[n]
      /\ \A k \in DOMAIN Q[n] : RowIn(Q[n][k], Left)
      /\ \A k \in DOMAIN Q[n] : (k \in DOMAIN F[n] /\ Q[n][k] = F[n][k]) \/ Q[n][k].status = "failed"
      /\ \E k \in DOMAIN Q[n] : Q[n][k].status = "failed"
  BY <1>2, <1>4, <1>5, <1>6, AppendFailed
<1>8. ASSUME NEW f \in 1..N
      PROVE  /\ IsSeq(Q[f]) /\ \A k \in DOMAIN Q[f] : RowIn(Q[f][k], Left)
             /\ DOMAIN R[f] \subseteq DOMAIN Q[f] /\ (f # n => DOMAIN R[f] = DOMAIN Q[f])
             /\ \A k \in DOMAIN Q[f] : Q[f][k].status = "skipped" =>
                  k \in DOMAIN R[f] /\ R[f][k].status = "skipped"
  <2>1. CASE f = n
    <3>1. ASSUME NEW k \in DOMAIN Q[n], Q[n][k].status = "skipped"
          PROVE  k \in DOMAIN R[n] /\ R[n][k].status = "skipped"
      <4>1. k \in DOMAIN F[n] /\ F[n][k].status = "skipped"
        BY <1>7, <3>1
      <4>. QED
        BY <1>2, <1>5, <4>1
    <3>2. DOMAIN R[n] \subseteq DOMAIN Q[n]
      BY <1>2, <1>5, <1>7
    <3>. QED
      BY <1>7, <2>1, <3>1, <3>2
  <2>2. CASE f # n
    <3>1. Q[f] = F[f]
      BY <1>4, <2>2
    <3>. QED
      BY <1>5, <2>2, <3>1
  <2>. QED
    BY <2>1, <2>2
<1>9. \A k \in Left : k \in Unstored /\ k # "queued"
  BY DEF Left, Unstored
<1>10. Rowed(Q, Unstored)
  BY <1>2, <1>8, <1>9 DEF Rowed, RowIn, Q
<1>11. SkipsRepeat(b, Q)
  <2>1. DOMAIN Q = 1..N /\ DOMAIN R = 1..N /\ SkipsRepeat(b, R)
    BY <1>1, <1>2 DEF Q, R
  <2>. QED
    BY <1>2, <1>8, <2>1, SkipsKept
<1>12. Pending(b, Q, <<>>)
  <2>1. IsSeq(<<>>) /\ DOMAIN <<>> = {}
    BY DEF IsSeq
  <2>2. \A f \in DOMAIN Q : \A k \in DOMAIN Q[f] : Q[f][k].status # "queued"
    BY <1>2, <1>8, <1>9 DEF RowIn, Q
  <2>. QED
    BY <2>1, <2>2 DEF Pending
<1>13. Covered(b, Q, <<>>)
  BY <1>2, <1>7 DEF Covered, NoneFailed, Q
<1>14. /\ DOMAIN A = 1..N /\ DOMAIN B = 1..N /\ B[n] = Q[n] /\ \A f \in 1..N : f # n => B[f] = A[f]
       /\ \A f \in 1..N : A[f] = T[f].rows
  BY <1>2 DEF A, B, ShownRows, Q, n
<1>15. \A f \in 1..N : ShownFile("overflow", w, f, T[f])
  BY <1>1, <1>2 DEF Shown
<1>16. \A f \in 1..N : DOMAIN A[f] = DOMAIN R[f]
  BY <1>14, <1>15 DEF ShownFile, R
<1>17. SkipsRepeat(b, B)
  <2>1. \A f \in 1..N : DOMAIN A[f] \subseteq DOMAIN B[f]
    BY <1>8, <1>14, <1>16
  <2>2. \A f \in 1..N : DOMAIN Q[f] \subseteq DOMAIN B[f]
    BY <1>8, <1>14, <1>16
  <2>3. \A f \in 1..N : B[f] = A[f] \/ B[f] = Q[f]
    BY <1>14
  <2>4. DOMAIN A = 1..N /\ DOMAIN Q = 1..N /\ DOMAIN B = 1..N
    BY <1>2, <1>14 DEF Q
  <2>. QED
    BY <1>2, <1>3, <1>11, <2>1, <2>2, <2>3, <2>4, SkipsMixed
<1>18. Rowed(B, Unstored)
  BY <1>2, <1>3, <1>10, <1>14 DEF Rowed, Q
<1>19. ASSUME NEW f \in 1..N PROVE ShownFile("persist", v, f, S[f])
  <2>1. CASE f = n
    BY <1>7, <2>1 DEF ShownFile, Q, n
  <2>2. CASE f # n
    <3>1. S[f] = T[f] /\ ShownFile("overflow", w, f, T[f]) /\ DOMAIN R[f] = DOMAIN Q[f]
      BY <1>2, <1>8, <1>15, <2>2 DEF n
    <3>2. IsSeq(R[f]) /\ IsSeq(Q[f])
      BY <1>2, <1>3, <1>8 DEF Rowed, R
    <3>3. R[f] # <<>> => Q[f] # <<>>
      BY <3>1, <3>2, SeqFacts
    <3>. QED
      BY <3>1, <3>3 DEF ShownFile, R, Q
  <2>. QED
    BY <2>1, <2>2
<1>20. Shown("persist", b, v, S)
  BY <1>1, <1>2, <1>17, <1>18, <1>19 DEF Shown, B
<1>21. Shape(v, b)
  BY <1>1, <1>2 DEF Shape, Q, R
<1>. QED
  BY <1>10, <1>11, <1>12, <1>13, <1>20, <1>21 DEF WorkOK, Gathered, Q

-----------------------------------------------------------------------------
(***************************************************************************)
(* The entries in hand get their marks.                                    *)
(***************************************************************************)
\* Every queued row has got the mark of its pending entry.
Marks(R, pending, marks, Q) ==
  /\ DOMAIN Q = DOMAIN R
  /\ \A f \in DOMAIN R : DOMAIN Q[f] = DOMAIN R[f] /\ IsSeq(Q[f])
  /\ \A f \in DOMAIN R : \A k \in DOMAIN R[f] : R[f][k].status # "queued" => Q[f][k] = R[f][k]
  /\ \A f \in DOMAIN R : \A k \in DOMAIN R[f] : R[f][k].status = "queued" =>
       \E i \in DOMAIN pending : /\ pending[i].file = f /\ pending[i].row = k
                                 /\ Q[f][k] = marks[i]
  /\ \A i \in DOMAIN pending : Q[pending[i].file][pending[i].row] = marks[i]

LEMMA MarkedMarks ==
  ASSUME NEW b, NEW w, DOMAIN w = {"n", "rows", "pending", "seen", "total", "stored", "late"},
         NEW statuses, Rowed(w.rows, statuses), Pending(b, w.rows, w.pending), NEW marks
  PROVE  /\ Marks(w.rows, w.pending, marks, Marked(w, marks).rows)
         /\ DOMAIN Marked(w, marks) = DOMAIN w /\ Marked(w, marks).late = w.late
         /\ Marked(w, marks).n = w.n /\ Marked(w, marks).pending = w.pending
<1>. DEFINE R == w.rows
            p == w.pending
            N == Len(p)
            mine(f, k) == {i \in DOMAIN p : p[i].file = f /\ p[i].row = k}
            Q == [f \in DOMAIN R |-> [k \in DOMAIN R[f] |->
                   IF mine(f, k) = {} THEN R[f][k] ELSE marks[Max(mine(f, k))]]]
            u == Marked(w, marks)
<1>1. u = [w EXCEPT !.rows = Q]
  BY DEF Marked
<1>. HIDE DEF u
<1>2. u.rows = Q /\ DOMAIN u = DOMAIN w /\ u.late = w.late /\ u.n = w.n /\ u.pending = w.pending
  <2>. HIDE DEF Q
  <2>. QED
    BY <1>1
<1>3. /\ DOMAIN Q = DOMAIN R /\ \A f \in DOMAIN R : DOMAIN Q[f] = DOMAIN R[f]
      /\ \A f \in DOMAIN R : \A k \in DOMAIN R[f] :
           Q[f][k] = IF mine(f, k) = {} THEN R[f][k] ELSE marks[Max(mine(f, k))]
  <2>. HIDE DEF R, mine
  <2>. QED
    OBVIOUS
<1>4. ASSUME NEW f \in DOMAIN R PROVE IsSeq(Q[f])
  <2>1. IsSeq(R[f])
    BY DEF Rowed
  <2>. HIDE DEF R, mine
  <2>2. Len(R[f]) \in Nat /\ DOMAIN R[f] = 1..Len(R[f])
    BY <2>1, SeqFacts
  <2>. DEFINE s == Q[f]
  <2>3. s = [k \in 1..Len(R[f]) |-> s[k]]
    BY <2>2
  <2>. HIDE DEF s
  <2>4. s \in Seq({s[k] : k \in 1..Len(R[f])})
    BY <2>2, <2>3
  <2>5. IsSeq(s)
    BY <2>4, SeqIs
  <2>. QED
    BY <2>5 DEF s
<1>5. N \in Nat /\ DOMAIN p = 1..N
  <2>1. IsSeq(p)
    BY DEF Pending
  <2>. QED
    BY <2>1, SeqFacts
<1>6. ASSUME NEW i \in DOMAIN p
      PROVE  /\ p[i].file \in DOMAIN R /\ p[i].row \in DOMAIN R[p[i].file]
             /\ R[p[i].file][p[i].row].status = "queued"
             /\ \A k \in DOMAIN p : SameRow(p[k], p[i]) => k = i
  BY DEF Pending, Pends
<1>7. \A f \in DOMAIN R : \A k \in DOMAIN R[f] : R[f][k].status = "queued" =>
        \E i \in DOMAIN p : p[i].file = f /\ p[i].row = k
  BY DEF Pending
<1>. HIDE DEF Q, R, p, N
<1>8. ASSUME NEW i \in DOMAIN p PROVE Q[p[i].file][p[i].row] = marks[i]
  <2>. DEFINE m == mine(p[i].file, p[i].row)
  <2>1. m = {i}
    BY <1>6 DEF SameRow
  <2>. HIDE DEF mine, m
  <2>2. {i} \in SUBSET (1..N) /\ {i} # {}
    BY <1>5
  <2>3. Max({i}) = i
    BY <1>5, <2>2, MaxIn
  <2>4. Q[p[i].file][p[i].row] = IF m = {} THEN R[p[i].file][p[i].row] ELSE marks[Max(m)]
    BY <1>3, <1>6 DEF m
  <2>. QED
    BY <2>1, <2>3, <2>4
<1>9. ASSUME NEW f \in DOMAIN R, NEW k \in DOMAIN R[f], R[f][k].status # "queued"
      PROVE  Q[f][k] = R[f][k]
  <2>1. mine(f, k) = {}
    BY <1>6, <1>9
  <2>. HIDE DEF mine
  <2>. QED
    BY <1>3, <2>1
<1>10. ASSUME NEW f \in DOMAIN R, NEW k \in DOMAIN R[f], R[f][k].status = "queued"
       PROVE  \E i \in DOMAIN p : p[i].file = f /\ p[i].row = k /\ Q[f][k] = marks[i]
  <2>1. PICK i \in DOMAIN p : p[i].file = f /\ p[i].row = k
    BY <1>7, <1>10
  <2>2. Q[p[i].file][p[i].row] = marks[i]
    BY <1>8
  <2>. QED
    BY <2>1, <2>2
<1>. HIDE DEF mine
<1>11. Marks(R, p, marks, Q)
  BY <1>3, <1>4, <1>8, <1>9, <1>10 DEF Marks
<1>. QED
  BY <1>2, <1>11 DEF u, R, p

\* The work with its marks, which settle it.
LEMMA MarkedSettles ==
  ASSUME NEW b, NEW R, NEW N \in Nat, DOMAIN R = 1..N, Rowed(R, Unstored), SkipsRepeat(b, R),
         NEW pending, NEW marks, NEW Q, Marks(R, pending, marks, Q),
         \A i \in DOMAIN pending : RowIn(marks[i], Settled \ {"skipped"})
  PROVE  Rowed(Q, Settled) /\ SkipsRepeat(b, Q)
<1>1. ASSUME NEW f \in DOMAIN Q, NEW k \in DOMAIN Q[f]
      PROVE  RowIn(Q[f][k], Settled) /\ (Q[f][k].status = "skipped" => R[f][k].status = "skipped")
  <2>1. f \in DOMAIN R /\ k \in DOMAIN R[f] /\ RowIn(R[f][k], Unstored)
    BY DEF Marks, Rowed
  <2>2. CASE R[f][k].status = "queued"
    <3>1. PICK i \in DOMAIN pending : Q[f][k] = marks[i]
      BY <2>1, <2>2 DEF Marks
    <3>2. RowIn(Q[f][k], Settled \ {"skipped"})
      BY <3>1
    <3>. QED
      BY <3>2 DEF RowIn
  <2>3. CASE R[f][k].status # "queued"
    <3>1. Q[f][k] = R[f][k]
      BY <2>1, <2>3 DEF Marks
    <3>. QED
      BY <2>1, <2>3, <3>1 DEF RowIn, Unstored, Settled
  <2>. QED
    BY <2>2, <2>3
<1>2. DOMAIN Q = 1..N /\ \A f \in 1..N : DOMAIN Q[f] = DOMAIN R[f] /\ IsSeq(Q[f])
  BY DEF Marks
<1>3. Rowed(Q, Settled)
  BY <1>1, <1>2 DEF Rowed
<1>4. \A f \in 1..N : DOMAIN R[f] \subseteq DOMAIN Q[f]
  BY <1>2
<1>5. \A f \in 1..N : \A k \in DOMAIN Q[f] :
        Q[f][k].status = "skipped" => k \in DOMAIN R[f] /\ R[f][k].status = "skipped"
  BY <1>1, <1>2
<1>. QED
  BY <1>2, <1>3, <1>4, <1>5, SkipsKept

\* What the report shows is as long as the work.
LEMMA ShownMarked ==
  ASSUME NEW p, p # "parsing", NEW q, NEW b, NEW w, NEW T, Shown(p, b, w, T), DOMAIN w.rows = DOMAIN b,
         Rowed(w.rows, Unstored), NEW v, NEW pending, NEW marks, Marks(w.rows, pending, marks, v.rows)
  PROVE  Shown(q, b, v, T)
<1>1. ASSUME NEW f \in DOMAIN T PROVE ShownFile(q, v, f, T[f])
  <2>1. ShownFile(p, w, f, T[f]) /\ f \in DOMAIN w.rows
    BY DEF Shown
  <2>2. DOMAIN v.rows[f] = DOMAIN w.rows[f] /\ IsSeq(v.rows[f]) /\ IsSeq(w.rows[f])
    BY <2>1 DEF Marks, Rowed
  <2>3. w.rows[f] # <<>> => v.rows[f] # <<>>
    BY <2>2, SeqFacts
  <2>. QED
    BY <2>1, <2>2, <2>3 DEF ShownFile
<1>. QED
  BY <1>1 DEF Shown

LEMMA MarkedFailed ==
  ASSUME NEW R, NEW pending, NEW marks, NEW Q, Marks(R, pending, marks, Q), NoneFailed(Q)
  PROVE  NoneFailed(R)
<1>1. ASSUME NEW f \in DOMAIN R, NEW k \in DOMAIN R[f] PROVE R[f][k].status # "failed"
  <2>1. f \in DOMAIN Q /\ k \in DOMAIN Q[f] /\ Q[f][k].status # "failed"
    BY DEF NoneFailed, Marks
  <2>2. R[f][k].status # "queued" => Q[f][k] = R[f][k]
    BY DEF Marks
  <2>. QED
    BY <2>1, <2>2
<1>. QED
  BY <1>1 DEF NoneFailed

\* The entries in hand are in the store, each with its row.
LEMMA MarkedTold ==
  ASSUME NEW b, NEW R, Rowed(R, Unstored), NEW pending, Pending(b, R, pending), Covered(b, R, pending),
         NEW marks, NEW Q, Marks(R, pending, marks, Q),
         NEW l, DOMAIN l = DOMAIN pending,
         \A i \in DOMAIN pending : Says(marks[i], pending[i].in, l[i])
  PROVE  Covered(b, Q, l) /\ Told(b, Q, l)
<1>1. ASSUME NEW f \in DOMAIN Q, NEW k \in DOMAIN Q[f], Q[f][k].status \in Stored
      PROVE  \E i \in DOMAIN l : Says(Q[f][k], Contents[b[f]].list[k], l[i])
  <2>1. f \in DOMAIN R /\ k \in DOMAIN R[f] /\ R[f][k].status \in Unstored
    BY DEF Marks, Rowed, RowIn
  <2>2. R[f][k].status = "queued"
    BY <1>1, <2>1 DEF Marks, Unstored, Stored
  <2>3. PICK i \in DOMAIN pending : pending[i].file = f /\ pending[i].row = k /\ Q[f][k] = marks[i]
    BY <2>1, <2>2 DEF Marks
  <2>4. pending[i].in = Contents[b[f]].list[k]
    BY <2>3 DEF Pending, Pends
  <2>5. Says(marks[i], pending[i].in, l[i])
    OBVIOUS
  <2>. QED
    BY <2>3, <2>4, <2>5
<1>2. ASSUME NEW i \in DOMAIN l
      PROVE  \E f \in DOMAIN Q : \E k \in DOMAIN Q[f] : Says(Q[f][k], Contents[b[f]].list[k], l[i])
  <2>. DEFINE f == pending[i].file
              k == pending[i].row
  <2>1. f \in DOMAIN R /\ k \in DOMAIN R[f] /\ pending[i].in = Contents[b[f]].list[k]
    BY DEF Pending, Pends
  <2>2. f \in DOMAIN Q /\ k \in DOMAIN Q[f] /\ Q[f][k] = marks[i]
    BY <2>1 DEF Marks
  <2>3. Says(marks[i], pending[i].in, l[i])
    OBVIOUS
  <2>. HIDE DEF f, k
  <2>. QED
    BY <2>1, <2>2, <2>3
<1>3. Told(b, Q, l)
  BY <1>1, <1>2 DEF Told
<1>4. NoneFailed(Q) => NoneFailed(R)
  BY MarkedFailed
<1>5. ASSUME NoneFailed(Q), NEW f \in DOMAIN Q, Q[f] # <<>>, NEW e \in DOMAIN Contents[b[f]].list
      PROVE  Names(l, Who(b, f, e))
  <2>1. f \in DOMAIN R /\ IsSeq(R[f]) /\ IsSeq(Q[f]) /\ DOMAIN R[f] = DOMAIN Q[f]
    BY DEF Marks, Rowed
  <2>2. R[f] # <<>>
    BY <1>5, <2>1, SeqFacts
  <2>3. Names(pending, Who(b, f, e))
    BY <1>4, <1>5, <2>1, <2>2 DEF Covered
  <2>4. \A i \in DOMAIN pending : l[i].in = pending[i].in
    BY DEF Says
  <2>. QED
    BY <2>3, <2>4 DEF Names
<1>. QED
  BY <1>3, <1>5 DEF Covered

LEMMA NothingPends ==
  ASSUME NEW w, NEW b, NEW T, WorkOK("persist", w, b, <<>>, T), w.pending = <<>>
  PROVE  WorkOK("finish", w, b, <<>>, T)
<1>1. /\ Shape(w, b) /\ SkipsRepeat(b, w.rows) /\ Shown("persist", b, w, T)
      /\ Rowed(w.rows, Unstored) /\ Pending(b, w.rows, <<>>) /\ Covered(b, w.rows, <<>>)
  BY DEF WorkOK, Gathered
<1>2. DOMAIN <<>> = {}
  OBVIOUS
<1>3. \A f \in DOMAIN w.rows : \A k \in DOMAIN w.rows[f] : w.rows[f][k].status # "queued"
  BY <1>1, <1>2 DEF Pending
<1>4. Rowed(w.rows, Settled)
  BY <1>1, <1>3 DEF Rowed, RowIn, Unstored, Settled
<1>5. \A f \in DOMAIN w.rows : \A k \in DOMAIN w.rows[f] : w.rows[f][k].status \in Unstored
  BY <1>1 DEF Rowed, RowIn
<1>6. Told(b, w.rows, <<>>)
  BY <1>2, <1>5 DEF Told, Stored, Unstored
<1>7. Shown("finish", b, w, T)
  BY <1>1, ShownOn
<1>. QED
  BY <1>1, <1>4, <1>6, <1>7 DEF WorkOK

LEMMA GoesToWrite ==
  ASSUME NEW w, NEW b, NEW T, WorkOK("persist", w, b, <<>>, T)
  PROVE  WorkOK("write", w, b, <<>>, T)
<1>1. Shown("persist", b, w, T)
  BY DEF WorkOK
<1>2. Shown("write", b, w, T)
  BY <1>1, ShownOn
<1>. QED
  BY <1>2 DEF WorkOK

\* The store took nothing.
LEMMA AllFailing ==
  ASSUME NEW p \in {"persist", "write"}, NEW w, NEW b, NEW T, WorkOK(p, w, b, <<>>, T)
  PROVE  WorkOK("finish", Failing(w), b, <<>>, T)
<1>. DEFINE marks == Rows(Len(w.pending), "failed")
            m == Marked(w, marks)
            u == Failing(w)
            R == w.rows
            Q == m.rows
            pending == w.pending
<1>1. /\ Shape(w, b) /\ SkipsRepeat(b, R) /\ Shown(p, b, w, T) /\ p # "parsing"
      /\ Rowed(R, Unstored) /\ Pending(b, R, pending) /\ Covered(b, R, pending)
  BY DEF WorkOK, Gathered
<1>2. Len(b) \in Nat /\ DOMAIN R = 1..Len(b) /\ DOMAIN b = DOMAIN R
  BY <1>1, SeqFacts DEF Shape, Batched
<1>3. \A i \in DOMAIN pending : marks[i] = Row("failed")
  BY <1>1, SeqFacts DEF Pending, Rows
<1>4. RowIn(Row("failed"), Settled \ {"skipped"}) /\ Row("failed").status = "failed"
  BY DEF RowIn, Row, Settled
<1>. HIDE DEF marks
<1>5. DOMAIN w = {"n", "rows", "pending", "seen", "total", "stored", "late"}
  BY <1>1 DEF Shape
<1>6. Marks(R, pending, marks, Q) /\ DOMAIN m = DOMAIN w /\ m.late = w.late /\ m.n = w.n
  BY <1>1, <1>5, MarkedMarks
<1>7. u = [m EXCEPT !.pending = <<>>]
  BY DEF Failing, marks
<1>. HIDE DEF m, u
<1>8. DOMAIN u = DOMAIN w /\ u.late = w.late /\ u.n = w.n /\ u.rows = Q
  BY <1>5, <1>6, <1>7
<1>. HIDE DEF R, Q, pending
<1>9. \A i \in DOMAIN pending : RowIn(marks[i], Settled \ {"skipped"})
  BY <1>3, <1>4
<1>10. Rowed(Q, Settled) /\ SkipsRepeat(b, Q)
  BY <1>1, <1>2, <1>6, <1>9, MarkedSettles
<1>11. Shown("finish", b, u, T)
  <2>1. DOMAIN w.rows = DOMAIN b /\ Rowed(w.rows, Unstored)
    BY <1>1, <1>2 DEF R
  <2>2. Marks(w.rows, pending, marks, u.rows)
    BY <1>6, <1>8 DEF R
  <2>. QED
    BY <1>1, <2>1, <2>2, ShownMarked
<1>12. ASSUME NEW i \in DOMAIN pending PROVE ~NoneFailed(Q)
  <2>1. pending[i].file \in DOMAIN R /\ pending[i].row \in DOMAIN R[pending[i].file]
    BY <1>1 DEF Pending, Pends
  <2>2. Q[pending[i].file][pending[i].row].status = "failed"
    BY <1>3, <1>4, <1>6 DEF Marks
  <2>. QED
    BY <1>6, <2>1, <2>2 DEF NoneFailed, Marks
<1>13. Covered(b, Q, <<>>)
  <2>. SUFFICES ASSUME NoneFailed(Q), NEW f \in DOMAIN Q, Q[f] # <<>>,
                       NEW e \in DOMAIN Contents[b[f]].list
                PROVE  FALSE
    BY DEF Covered
  <2>1. NoneFailed(R)
    BY <1>6, MarkedFailed
  <2>2. f \in DOMAIN R /\ IsSeq(R[f]) /\ IsSeq(Q[f]) /\ DOMAIN R[f] = DOMAIN Q[f]
    BY <1>1, <1>6 DEF Marks, Rowed
  <2>3. R[f] # <<>>
    BY <2>2, SeqFacts
  <2>4. Names(pending, Who(b, f, e))
    BY <1>1, <2>1, <2>2, <2>3 DEF Covered
  <2>. QED
    BY <1>12, <2>4 DEF Names
<1>14. ASSUME NEW f \in DOMAIN Q, NEW k \in DOMAIN Q[f] PROVE Q[f][k].status \notin Stored
  <2>1. f \in DOMAIN R /\ k \in DOMAIN R[f] /\ R[f][k].status \in Unstored
    BY <1>1, <1>6 DEF Marks, Rowed, RowIn
  <2>2. R[f][k].status = "queued" => Q[f][k].status = "failed"
    BY <1>3, <1>4, <1>6, <2>1 DEF Marks
  <2>3. R[f][k].status # "queued" => Q[f][k] = R[f][k]
    BY <1>6, <2>1 DEF Marks
  <2>. QED
    BY <2>1, <2>2, <2>3 DEF Unstored, Stored
<1>15. Told(b, Q, <<>>)
  <2>1. DOMAIN <<>> = {}
    OBVIOUS
  <2>. QED
    BY <1>14, <2>1 DEF Told
<1>16. Shape(u, b)
  <2>1. DOMAIN u.rows = DOMAIN b
    BY <1>2, <1>6, <1>8 DEF Marks
  <2>. QED
    BY <1>1, <1>8, <2>1 DEF Shape
<1>17. Rowed(u.rows, Settled) /\ SkipsRepeat(b, u.rows) /\ Covered(b, u.rows, <<>>) /\ Told(b, u.rows, <<>>)
  BY <1>8, <1>10, <1>13, <1>15
<1>18. WorkOK("finish", u, b, <<>>, T)
  BY <1>11, <1>16, <1>17 DEF WorkOK
<1>. QED
  BY <1>18 DEF u

\* The store took every entry in hand.
LEMMA AllStored ==
  ASSUME NEW w, NEW b, NEW T, WorkOK("write", w, b, <<>>, T),
         NEW results, DOMAIN results = DOMAIN w.pending,
         NEW l, DOMAIN l = DOMAIN w.pending,
         \A i \in DOMAIN l : l[i] = [in |-> w.pending[i].in, id |-> results[i].id,
                                     created |-> results[i].created]
  PROVE  WorkOK("tell", [w EXCEPT !.stored = results], b, l, T)
<1>. DEFINE u == [w EXCEPT !.stored = results]
<1>1. /\ Shape(w, b) /\ SkipsRepeat(b, w.rows) /\ Shown("write", b, w, T) /\ Gathered(b, w)
  BY DEF WorkOK
<1>2. /\ DOMAIN u = DOMAIN w /\ u.n = w.n /\ u.rows = w.rows /\ u.pending = w.pending
      /\ u.late = w.late /\ u.stored = results
  BY <1>1 DEF Shape
<1>. HIDE DEF u
<1>3. Shape(u, b)
  BY <1>1, <1>2 DEF Shape
<1>4. Gathered(b, u)
  BY <1>1, <1>2 DEF Gathered
<1>5. \A f \in DOMAIN T : ShownFile("write", w, f, T[f]) => ShownFile("tell", u, f, T[f])
  BY <1>2 DEF ShownFile
<1>6. Shown("tell", b, u, T)
  BY <1>1, <1>5 DEF Shown
<1>7. Answered(u, l)
  BY <1>2 DEF Answered
<1>8. SkipsRepeat(b, u.rows)
  BY <1>1, <1>2
<1>9. WorkOK("tell", u, b, l, T)
  BY <1>3, <1>4, <1>6, <1>7, <1>8 DEF WorkOK
<1>. QED
  BY <1>9 DEF u

MarksOf(stored) ==
  [i \in DOMAIN stored |-> [status |-> IF stored[i].created THEN "created" ELSE "updated",
                            id |-> stored[i].id]]

LEMMA AllTold ==
  ASSUME NEW w, NEW b, NEW l, NEW T, WorkOK("tell", w, b, l, T)
  PROVE  WorkOK("finish", Marked(w, MarksOf(w.stored)), b, l, T)
<1>. DEFINE marks == MarksOf(w.stored)
            u == Marked(w, marks)
            R == w.rows
            Q == u.rows
            pending == w.pending
<1>1. /\ Shape(w, b) /\ SkipsRepeat(b, R) /\ Shown("tell", b, w, T)
      /\ Rowed(R, Unstored) /\ Pending(b, R, pending) /\ Covered(b, R, pending)
      /\ Answered(w, l)
  BY DEF WorkOK, Gathered
<1>2. Len(b) \in Nat /\ DOMAIN R = 1..Len(b) /\ DOMAIN b = DOMAIN R
  BY <1>1, SeqFacts DEF Shape, Batched
<1>3. DOMAIN l = DOMAIN pending /\ DOMAIN w.stored = DOMAIN pending
  BY <1>1 DEF Answered
<1>4. ASSUME NEW i \in DOMAIN pending
      PROVE  /\ marks[i] = [status |-> IF w.stored[i].created THEN "created" ELSE "updated",
                            id |-> w.stored[i].id]
             /\ l[i] = [in |-> pending[i].in, id |-> w.stored[i].id, created |-> w.stored[i].created]
  BY <1>1, <1>3 DEF Answered, MarksOf
<1>. HIDE DEF marks
<1>5. ASSUME NEW i \in DOMAIN pending
      PROVE  RowIn(marks[i], Settled \ {"skipped"}) /\ Says(marks[i], pending[i].in, l[i])
  <2>. DEFINE st == IF w.stored[i].created THEN "created" ELSE "updated"
  <2>0. /\ marks[i] = [status |-> st, id |-> w.stored[i].id]
        /\ l[i] = [in |-> pending[i].in, id |-> w.stored[i].id, created |-> w.stored[i].created]
    BY <1>4
  <2>s. st = IF w.stored[i].created THEN "created" ELSE "updated"
    OBVIOUS
  <2>. HIDE DEF st
  <2>a. DOMAIN marks[i] = {"status", "id"} /\ marks[i].id = w.stored[i].id /\ marks[i].status = st
    BY <2>0
  <2>1. /\ DOMAIN marks[i] = {"status", "id"} /\ marks[i].id = w.stored[i].id
        /\ marks[i].status = IF w.stored[i].created THEN "created" ELSE "updated"
    BY <2>a, <2>s, Zenon
  <2>2. l[i].id = w.stored[i].id /\ l[i].created = w.stored[i].created /\ l[i].in = pending[i].in
    BY <2>0
  <2>3. marks[i].status \in {"created", "updated"}
    BY <2>1
  <2>4. RowIn(marks[i], Settled \ {"skipped"})
    BY <2>1, <2>3 DEF RowIn, Settled
  <2>5. marks[i].status = IF l[i].created THEN "created" ELSE "updated"
    BY <2>1, <2>2, Zenon
  <2>. QED
    BY <2>1, <2>2, <2>4, <2>5 DEF Says
<1>6. DOMAIN w = {"n", "rows", "pending", "seen", "total", "stored", "late"}
  BY <1>1 DEF Shape
<1>7. Marks(R, pending, marks, Q) /\ DOMAIN u = DOMAIN w /\ u.late = w.late /\ u.n = w.n
  BY <1>1, <1>6, MarkedMarks
<1>. HIDE DEF u, R, Q, pending
<1>8. Rowed(Q, Settled) /\ SkipsRepeat(b, Q)
  BY <1>1, <1>2, <1>5, <1>7, MarkedSettles
<1>9. Shown("finish", b, u, T)
  <2>1. DOMAIN w.rows = DOMAIN b /\ Rowed(w.rows, Unstored)
    BY <1>1, <1>2 DEF R
  <2>2. Marks(w.rows, pending, marks, u.rows)
    BY <1>7 DEF R, Q
  <2>. QED
    BY <1>1, <2>1, <2>2, ShownMarked
<1>10. Covered(b, Q, l) /\ Told(b, Q, l)
  <2>1. \A i \in DOMAIN pending : Says(marks[i], pending[i].in, l[i])
    BY <1>5
  <2>. QED
    BY <1>1, <1>3, <1>7, <2>1, MarkedTold
<1>11. Shape(u, b)
  <2>1. DOMAIN u.rows = DOMAIN b
    BY <1>2, <1>7 DEF Marks, Q
  <2>. QED
    BY <1>1, <1>7, <2>1 DEF Shape
<1>12. WorkOK("finish", u, b, l, T)
  BY <1>8, <1>9, <1>10, <1>11 DEF WorkOK, Q
<1>. QED
  BY <1>12 DEF u, marks

\* Time is up.
LEMMA TurnsLate ==
  ASSUME NEW p, NEW w, NEW b, NEW l, NEW T, WorkOK(p, w, b, l, T)
  PROVE  WorkOK(p, [w EXCEPT !.late = TRUE], b, l, T)
<1>. DEFINE u == [w EXCEPT !.late = TRUE]
<1>1. Shape(w, b) /\ SkipsRepeat(b, w.rows)
  BY DEF WorkOK
<1>2. /\ DOMAIN u = DOMAIN w /\ u.n = w.n /\ u.rows = w.rows /\ u.pending = w.pending
      /\ u.late \in BOOLEAN /\ u.stored = w.stored /\ u.seen = w.seen
  BY <1>1 DEF Shape
<1>. HIDE DEF u
<1>3. Shape(u, b) /\ SkipsRepeat(b, u.rows)
  BY <1>1, <1>2 DEF Shape
<1>4. Shown(p, b, w, T) => Shown(p, b, u, T)
  BY <1>2 DEF Shown, ShownFile
<1>5. Gathered(b, w) => Gathered(b, u)
  BY <1>2 DEF Gathered
<1>6. Unread(w) /\ (\A who \in w.seen : Names(w.pending, who)) =>
        Unread(u) /\ \A who \in u.seen : Names(u.pending, who)
  BY <1>2 DEF Unread
<1>7. Answered(w, l) => Answered(u, l)
  BY <1>2 DEF Answered
<1>8. WorkOK(p, u, b, l, T)
  BY <1>2, <1>3, <1>4, <1>5, <1>6, <1>7 DEF WorkOK
<1>. QED
  BY <1>8 DEF u

-----------------------------------------------------------------------------
(***************************************************************************)
(* The last report of a job.                                               *)
(***************************************************************************)
\* The files of the last report.
Settles(T, R, files) ==
  /\ DOMAIN files = DOMAIN R
  /\ \A f \in DOMAIN R : files[f] = FinalFile(T[f], R[f])

Added(T, R, f) == T[f].status = "queued" /\ R[f] = <<>>

\* At the end every file has rows, or gets one.
LEMMA FinalRows ==
  ASSUME NEW p \in {"finish", "reject"}, NEW w, NEW b, NEW l, NEW T, WorkOK(p, w, b, l, T),
         NEW files, Settles(T, w.rows, files)
  PROVE  LET R == w.rows
             P == ShownRows(files)
         IN /\ Batched(b) /\ DOMAIN R = DOMAIN b /\ DOMAIN files = DOMAIN b /\ DOMAIN P = DOMAIN b
            /\ Rowed(R, Settled) /\ SkipsRepeat(b, R) /\ Told(b, R, l)
            /\ \A f \in DOMAIN b : P[f] = IF Added(T, R, f) THEN Rows(1, "failed") ELSE R[f]
            /\ \A f \in DOMAIN b : IsSeq(P[f]) /\ P[f] # <<>>
            /\ NoneFailed(R) => Covered(b, R, l)
<1>. DEFINE R == w.rows
            P == ShownRows(files)
<1>1. Shape(w, b) /\ SkipsRepeat(b, R)
  BY DEF WorkOK
<1>2. Batched(b) /\ DOMAIN R = DOMAIN b /\ DOMAIN files = DOMAIN b /\ DOMAIN P = DOMAIN b
  BY <1>1 DEF Shape, Settles, ShownRows
<1>3. \A f \in DOMAIN b : P[f] = IF Added(T, R, f) THEN Rows(1, "failed") ELSE R[f]
  BY <1>2 DEF Settles, ShownRows, FinalFile, Added
<1>. HIDE DEF R, P
<1>4. CASE p = "finish"
  <2>1. Shown("finish", b, w, T) /\ Rowed(R, Settled) /\ Told(b, R, l) /\ Covered(b, R, l)
    BY <1>4 DEF WorkOK, R
  <2>2. ASSUME NEW f \in DOMAIN b, R[f] = <<>> PROVE Added(T, R, f)
    <3>1. ShownFile("finish", w, f, T[f])
      BY <2>1 DEF Shown
    <3>. QED
      BY <2>2, <3>1 DEF ShownFile, Added, R
  <2>3. \A f \in DOMAIN b : IsSeq(R[f])
    BY <1>2, <2>1 DEF Rowed
  <2>4. \A f \in DOMAIN b : IsSeq(P[f]) /\ P[f] # <<>>
    BY <1>3, <2>2, <2>3, FailedRow
  <2>. QED
    BY <1>1, <1>2, <1>3, <2>1, <2>4 DEF R, P
<1>5. CASE p = "reject"
  <2>1. R = [f \in DOMAIN b |-> Rows(1, "failed")] /\ l = <<>>
    BY <1>5 DEF WorkOK, R
  <2>2. \A f \in DOMAIN b : R[f] = Rows(1, "failed") /\ P[f] = Rows(1, "failed")
    BY <1>3, <2>1
  <2>3. \A f \in DOMAIN b : IsSeq(P[f]) /\ P[f] # <<>>
    BY <2>2, FailedRow
  <2>4. Rowed(R, Settled)
    BY <1>2, <2>2, FailedRow DEF Rowed
  <2>5. Told(b, R, l)
    <3>1. DOMAIN <<>> = {}
      OBVIOUS
    <3>2. \A f \in DOMAIN R : \A k \in DOMAIN R[f] : R[f][k].status \notin Stored
      BY <1>2, <2>2, FailedRow DEF Stored
    <3>. QED
      BY <2>1, <3>1, <3>2 DEF Told
  <2>6. ~NoneFailed(R)
    <3>1. 1 \in DOMAIN b
      BY <1>2, NewBatch
    <3>. QED
      BY <1>2, <2>2, <3>1, FailedRow DEF NoneFailed
  <2>. QED
    BY <1>1, <1>2, <1>3, <2>3, <2>4, <2>5, <2>6 DEF R, P
<1>. QED
  BY <1>4, <1>5

\* A job whose report is "completed" has no row that failed.
LEMMA CompletedNoneFailed ==
  ASSUME NEW P, IsSeq(P), P # <<>>, \A f \in DOMAIN P : IsSeq(P[f]),
         Verdict(FlattenSeq(P)) = "completed"
  PROVE  NoneFailed(P)
<1>. DEFINE X == UNION {ToSet(P[f]) : f \in DOMAIN P}
            flat == FlattenSeq(P)
<1>1. Len(P) \in Nat /\ DOMAIN P = 1..Len(P)
  BY SeqFacts
<1>2. \A f \in DOMAIN P : P[f] \in Seq(X)
  <2>1. ASSUME NEW f \in DOMAIN P PROVE P[f] \in Seq(X)
    <3>1. P[f] \in Seq(ToSet(P[f])) /\ ToSet(P[f]) \subseteq X
      BY DEF IsSeq
    <3>. HIDE DEF X
    <3>. QED
      BY <3>1
  <2>. QED
    BY <2>1
<1>. HIDE DEF X
<1>3. P \in Seq(Seq(X))
  <2>1. ToSet(P) \subseteq Seq(X)
    BY <1>2 DEF ToSet
  <2>2. P \in Seq(ToSet(P))
    BY DEF IsSeq
  <2>. QED
    BY <2>1, <2>2
<1>4. flat \in Seq(X) /\ HasAll(P, flat, Len(P))
  BY <1>3, FlattenHas
<1>. HIDE DEF flat
<1>5. IsSeq(flat)
  BY <1>4, SeqIs
<1>6. Number(flat, {"failed"}) = 0
  BY DEF Verdict, flat
<1>7. \A m \in DOMAIN flat : flat[m].status \notin {"failed"}
  BY <1>5, <1>6, NumberNone
<1>8. ASSUME NEW f \in DOMAIN P, NEW k \in DOMAIN P[f] PROVE P[f][k].status # "failed"
  <2>1. PICK m \in DOMAIN flat : flat[m] = P[f][k]
    BY <1>1, <1>4 DEF HasAll
  <2>. QED
    BY <1>7, <2>1
<1>. QED
  BY <1>8 DEF NoneFailed

LEMMA FinalTruth ==
  ASSUME NEW p \in {"finish", "reject"}, NEW w, NEW b, NEW l, NEW T, WorkOK(p, w, b, l, T),
         NEW files, Settles(T, w.rows, files),
         NEW report, report.files = files, report.status = Verdict(FlattenSeq(ShownRows(files)))
  PROVE  FinalOK(b, l, report)
<1>. DEFINE R == w.rows
            P == ShownRows(files)
<1>1. /\ Batched(b) /\ DOMAIN R = DOMAIN b /\ DOMAIN files = DOMAIN b /\ DOMAIN P = DOMAIN b
      /\ Rowed(R, Settled) /\ SkipsRepeat(b, R) /\ Told(b, R, l)
      /\ \A f \in DOMAIN b : P[f] = IF Added(T, R, f) THEN Rows(1, "failed") ELSE R[f]
      /\ \A f \in DOMAIN b : IsSeq(P[f]) /\ P[f] # <<>>
      /\ NoneFailed(R) => Covered(b, R, l)
  BY FinalRows
<1>2. Len(b) \in Nat /\ DOMAIN b = 1..Len(b) /\ 1 \in DOMAIN b
  BY <1>1, NewBatch
<1>3. P = [f \in 1..Len(b) |-> P[f]]
  BY <1>1, <1>2 DEF ShownRows
<1>. HIDE DEF R, P
<1>4. IsSeq(P) /\ P # <<>>
  <2>1. P \in Seq({P[f] : f \in 1..Len(b)})
    BY <1>2, <1>3
  <2>. QED
    BY <1>1, <1>2, <2>1, SeqIs
<1>5. Rowed(P, Settled)
  <2>1. ASSUME NEW f \in DOMAIN P PROVE IsSeq(P[f]) /\ \A k \in DOMAIN P[f] : RowIn(P[f][k], Settled)
    <3>1. CASE P[f] = R[f]
      BY <1>1, <3>1 DEF Rowed
    <3>2. CASE P[f] = Rows(1, "failed")
      BY <3>2, FailedRow
    <3>. QED
      BY <1>1, <3>1, <3>2
  <2>. QED
    BY <2>1 DEF Rowed
<1>6. ASSUME NEW f \in DOMAIN b, NEW k \in DOMAIN R[f] PROVE P[f] = R[f]
  <2>1. R[f] # <<>>
    BY <1>6
  <2>. QED
    BY <1>1, <2>1 DEF Added
<1>7. ASSUME NEW f \in DOMAIN b, NEW k \in DOMAIN P[f], P[f][k].status # "failed"
      PROVE  P[f] = R[f]
  BY <1>1, <1>7, FailedRow
<1>8. SkipsRepeat(b, P)
  <2>1. \A f \in 1..Len(b) : DOMAIN R[f] \subseteq DOMAIN P[f]
    BY <1>2, <1>6
  <2>2. \A f \in 1..Len(b) : \A k \in DOMAIN P[f] :
          P[f][k].status = "skipped" => k \in DOMAIN R[f] /\ R[f][k].status = "skipped"
    BY <1>2, <1>7
  <2>3. DOMAIN R = 1..Len(b) /\ DOMAIN P = 1..Len(b) /\ Len(b) \in Nat /\ SkipsRepeat(b, R)
    BY <1>1, <1>2
  <2>. QED
    BY <2>1, <2>2, <2>3, SkipsKept
<1>9. Told(b, P, l)
  <2>1. ASSUME NEW f \in DOMAIN P, NEW k \in DOMAIN P[f], P[f][k].status \in Stored
        PROVE  \E i \in DOMAIN l : Says(P[f][k], Contents[b[f]].list[k], l[i])
    <3>1. f \in DOMAIN b /\ P[f] = R[f]
      BY <1>1, <1>7, <2>1 DEF Stored
    <3>. QED
      BY <1>1, <2>1, <3>1 DEF Told
  <2>2. ASSUME NEW i \in DOMAIN l
        PROVE  \E f \in DOMAIN P : \E k \in DOMAIN P[f] : Says(P[f][k], Contents[b[f]].list[k], l[i])
    <3>0. PICK f \in DOMAIN R : \E k \in DOMAIN R[f] : Says(R[f][k], Contents[b[f]].list[k], l[i])
      BY <1>1 DEF Told
    <3>1. PICK k \in DOMAIN R[f] : Says(R[f][k], Contents[b[f]].list[k], l[i])
      BY <3>0
    <3>2. f \in DOMAIN P /\ P[f] = R[f]
      BY <1>1, <1>6
    <3>. QED
      BY <3>1, <3>2
  <2>. QED
    BY <2>1, <2>2 DEF Told
<1>10. ASSUME report.status = "completed", NEW f \in DOMAIN b, NEW e \in DOMAIN Contents[b[f]].list
       PROVE  Names(l, Who(b, f, e))
  <2>1. Verdict(FlattenSeq(P)) = "completed"
    BY <1>10 DEF P
  <2>2. NoneFailed(P)
    BY <1>1, <1>4, <2>1, CompletedNoneFailed
  <2>3. ASSUME NEW g \in DOMAIN b PROVE P[g] = R[g]
    <3>1. \A k \in DOMAIN P[g] : P[g][k].status # "failed"
      BY <1>1, <2>2 DEF NoneFailed
    <3>2. P[g] # Rows(1, "failed")
      BY <3>1, FailedRow
    <3>. QED
      BY <1>1, <3>2
  <2>4. NoneFailed(R)
    BY <1>1, <2>2, <2>3 DEF NoneFailed
  <2>5. R[f] # <<>>
    BY <1>1, <2>3
  <2>. QED
    BY <1>1, <2>4, <2>5 DEF Covered
<1>11. \A f \in DOMAIN b : report.files[f].rows # <<>>
  BY <1>1 DEF P, ShownRows
<1>. QED
  BY <1>1, <1>5, <1>8, <1>9, <1>10, <1>11 DEF FinalOK, P

-----------------------------------------------------------------------------
(***************************************************************************)
(* Whose step it is, and what the step leaves alone.                       *)
(***************************************************************************)
\* What is left of the reports.
Left(reports, left) ==
  /\ DOMAIN left \subseteq DOMAIN reports
  /\ \A i \in DOMAIN left : left[i] = reports[i]
  /\ \A i \in DOMAIN reports : ~Finished(reports[i]) => i \in DOMAIN left

LEMMA PrunedLeft ==
  ASSUME NEW reports, NEW left \in Pruned(reports)
  PROVE  Left(reports, left)
<1>1. PICK kept \in Retained(reports, Young(reports)) :
        left = [j \in {i \in DOMAIN reports : ~Finished(reports[i])} \cup kept |-> reports[j]]
  BY DEF Pruned
<1>2. kept \subseteq DOMAIN reports
  BY DEF Retained, Young
<1>. QED
  BY <1>1, <1>2 DEF Left

\* Another job took the step.
Undisturbed(i) ==
  /\ pc'[i] = pc[i] /\ work'[i] = work[i] /\ batch'[i] = batch[i] /\ log'[i] = log[i]
  /\ i \in DOMAIN table' => i \in DOMAIN table /\ table'[i] = table[i]
  /\ i \in DOMAIN table /\ ~Finished(table[i]) => i \in DOMAIN table'

LEMMA UndisturbedOK ==
  ASSUME NEW i, JobOK(i), Undisturbed(i)
  PROVE  JobOK(i)'
<1>1. pc'[i] = pc[i] /\ work'[i] = work[i] /\ batch'[i] = batch[i] /\ log'[i] = log[i]
  BY DEF Undisturbed
<1>2. i \in DOMAIN table' => i \in DOMAIN table /\ table'[i] = table[i]
  BY DEF Undisturbed
<1>3. i \in DOMAIN table /\ ~Finished(table[i]) => i \in DOMAIN table' /\ table'[i] = table[i]
  BY DEF Undisturbed
<1>4. pc[i] \in {"new", "invalid", "overloaded"} =>
        i \notin DOMAIN table' /\ log[i] = <<>> /\ work[i] = NoWork
  BY <1>2 DEF JobOK
<1>5. pc[i] \in Ready \cup Active =>
        i \in DOMAIN table' /\ table'[i] = table[i] /\ ~Finished(table[i]) /\ "files" \in DOMAIN table[i]
  BY <1>3 DEF JobOK
<1>6. pc[i] \in Ready \cup {"begin"} =>
       /\ table'[i] = NewReport(batch[i]) /\ log[i] = <<>> /\ work[i] = NoWork
       /\ Batched(batch[i])
  BY <1>5 DEF JobOK, Active
<1>7. pc[i] \in Active \ {"begin"} => WorkOK(pc[i], work[i], batch[i], log[i], table'[i].files)
  BY <1>5 DEF JobOK
<1>8. pc[i] \in {"release", "done"} /\ i \in DOMAIN table' =>
       Finished(table'[i]) /\ FinalOK(batch[i], log[i], table'[i])
  BY <1>2 DEF JobOK
<1>9. Finished(table[i])' <=> Finished(table'[i])
  BY DEF Finished
<1>. QED
  BY <1>1, <1>4, <1>5, <1>6, <1>7, <1>8, <1>9 DEF JobOK, Finished

Shaped == Typed /\ Recorded /\ DOMAIN batch = Jobs /\ DOMAIN log = Jobs

\* Only job j takes the step.
Alone(j) ==
  /\ DOMAIN batch' = Jobs /\ DOMAIN log' = Jobs
  /\ DOMAIN table' \subseteq DOMAIN table \cup {j}
  /\ \A i \in Jobs \ {j} : Undisturbed(i)

LEMMA AloneOK ==
  ASSUME TruthInv, NEW j \in Jobs, Alone(j), JobOK(j)'
  PROVE  TruthInv'
<1>1. \A i \in Jobs : JobOK(i)'
  BY UndisturbedOK DEF TruthInv, Alone
<1>. QED
  BY <1>1 DEF TruthInv, Alone

\* What a reader may see of the others' reports.
Stays(j) ==
  /\ DOMAIN table' \subseteq DOMAIN table \cup {j}
  /\ \A i \in Jobs \ {j} :
       /\ i \in DOMAIN table' => i \in DOMAIN table /\ table'[i] = table[i]
       /\ i \in DOMAIN table /\ ~Finished(table[i]) => i \in DOMAIN table'

LEMMA Published ==
  ASSUME NEW j, j \in DOMAIN table, NEW report, Publish(j, report)
  PROVE  /\ Stays(j)
         /\ j \in DOMAIN table' => table'[j] = report
         /\ ~Finished(report) => j \in DOMAIN table'
<1>1. table' \in Pruned([table EXCEPT ![j] = report])
  BY DEF Publish
<1>. DEFINE reports == [table EXCEPT ![j] = report]
<1>2. DOMAIN reports = DOMAIN table /\ reports[j] = report
      /\ \A i \in DOMAIN table : i # j => reports[i] = table[i]
  OBVIOUS
<1>. HIDE DEF reports
<1>3. Left(reports, table')
  BY <1>1, PrunedLeft DEF reports
<1>4. ASSUME NEW i \in Jobs \ {j}, i \in DOMAIN table'
      PROVE  i \in DOMAIN table /\ table'[i] = table[i]
  BY <1>2, <1>3, <1>4 DEF Left
<1>5. ASSUME NEW i \in Jobs \ {j}, i \in DOMAIN table, ~Finished(table[i])
      PROVE  i \in DOMAIN table'
  <2>1. reports[i] = table[i] /\ i \in DOMAIN reports
    BY <1>2, <1>5
  <2>2. ~Finished(reports[i])
    BY <1>5, <2>1
  <2>. QED
    BY <1>3, <2>1, <2>2 DEF Left
<1>6. j \in DOMAIN table' => table'[j] = report
  BY <1>2, <1>3 DEF Left
<1>7. ~Finished(report) => j \in DOMAIN table'
  BY <1>2, <1>3 DEF Left
<1>8. DOMAIN table' \subseteq DOMAIN table
  BY <1>2, <1>3 DEF Left
<1>. QED
  BY <1>4, <1>5, <1>6, <1>7, <1>8 DEF Stays

LEMMA SameStays ==
  ASSUME table' = table, NEW j
  PROVE  Stays(j)
  BY DEF Stays

LEMMA StepAlone ==
  ASSUME Shaped, NEW j \in Jobs, NEW to, NEW w, Step(j, to, w), UNCHANGED <<batch, log>>, Stays(j)
  PROVE  Alone(j) /\ pc'[j] = to /\ work'[j] = w
<1>1. pc' = [pc EXCEPT ![j] = to] /\ work' = [work EXCEPT ![j] = w] /\ DOMAIN pc = Jobs /\ DOMAIN work = Jobs
  BY DEF Step, Shaped, Typed, Recorded
<1>2. ASSUME NEW i \in Jobs \ {j} PROVE Undisturbed(i)
  <2>1. pc'[i] = pc[i] /\ work'[i] = work[i] /\ batch'[i] = batch[i] /\ log'[i] = log[i]
    BY <1>1
  <2>. QED
    BY <2>1 DEF Undisturbed, Stays
<1>. QED
  BY <1>1, <1>2 DEF Alone, Stays, Shaped

\* A worker at its work.
LEMMA WorkingOK ==
  ASSUME NEW j, pc'[j] \in Active \ {"begin"}, j \in DOMAIN table', ~Finished(table'[j]),
         "files" \in DOMAIN table'[j],
         WorkOK(pc'[j], work'[j], batch'[j], log'[j], table'[j].files)
  PROVE  JobOK(j)'
<1>1. ~Finished(table[j])'
  BY DEF Finished
<1>2. pc'[j] \notin {"new", "invalid", "overloaded"} /\ pc'[j] \notin Ready \cup {"begin"}
      /\ pc'[j] \notin {"release", "done"}
  BY DEF Active, Ready
<1>. QED
  BY <1>1, <1>2 DEF JobOK, Finished

LEMMA AtWork ==
  ASSUME NEW j, JobOK(j), pc[j] \in Active \ {"begin"}
  PROVE  /\ j \in DOMAIN table /\ ~Finished(table[j]) /\ "files" \in DOMAIN table[j]
         /\ WorkOK(pc[j], work[j], batch[j], log[j], table[j].files)
  BY DEF JobOK

LEMMA WaitsOrBegins ==
  ASSUME NEW j, JobOK(j), pc[j] \in Ready \cup {"begin"}
  PROVE  /\ j \in DOMAIN table /\ ~Finished(table[j]) /\ "files" \in DOMAIN table[j]
         /\ table[j] = NewReport(batch[j]) /\ log[j] = <<>> /\ work[j] = NoWork
         /\ Batched(batch[j])
  BY DEF JobOK, Active

-----------------------------------------------------------------------------
(***************************************************************************)
(* The steps.                                                              *)
(***************************************************************************)
LEMMA BeginOK ==
  ASSUME Shaped, NEW j \in Jobs, JobOK(j), Begin(j)
  PROVE  Alone(j) /\ JobOK(j)'
<1>. DEFINE b == batch[j]
            report == [table[j] EXCEPT !.status = "running"]
<1>1. pc[j] = "begin" /\ Publish(j, report) /\ UNCHANGED <<batch, log>>
  BY DEF Begin, WorkerOnly, credentials
<1>2. /\ j \in DOMAIN table /\ table[j] = NewReport(b) /\ log[j] = <<>> /\ work[j] = NoWork /\ Batched(b)
  BY <1>1, WaitsOrBegins
<1>3. report.status = "running" /\ report.files = NewReport(b).files /\ "files" \in DOMAIN report
  BY <1>2 DEF NewReport
<1>4. ~Finished(report)
  BY <1>3 DEF Finished, Final
<1>. HIDE DEF report
<1>5. Stays(j) /\ j \in DOMAIN table' /\ table'[j] = report
  BY <1>1, <1>2, <1>4, Published
<1>6. batch'[j] = b /\ log'[j] = <<>>
  BY <1>1, <1>2
<1>7. CASE Step(j, "reject", [NoWork EXCEPT !.rows = [f \in DOMAIN b |-> Rows(1, "failed")]])
  <2>. DEFINE w == [NoWork EXCEPT !.rows = [f \in DOMAIN b |-> Rows(1, "failed")]]
  <2>1. WorkOK("reject", w, b, <<>>, report.files)
    BY <1>2, <1>3, BegunReject
  <2>. HIDE DEF w
  <2>2. Step(j, "reject", w)
    BY <1>7 DEF w
  <2>3. Alone(j) /\ pc'[j] = "reject" /\ work'[j] = w
    BY <1>1, <1>5, <2>2, StepAlone
  <2>4. JobOK(j)'
    BY <1>3, <1>4, <1>5, <1>6, <2>1, <2>3, WorkingOK DEF Active
  <2>. QED
    BY <2>3, <2>4
<1>8. CASE Step(j, "next", [NoWork EXCEPT !.rows = [f \in DOMAIN b |-> <<>>]])
  <2>. DEFINE w == [NoWork EXCEPT !.rows = [f \in DOMAIN b |-> <<>>]]
  <2>1. WorkOK("next", w, b, <<>>, report.files)
    BY <1>2, <1>3, BegunNext
  <2>. HIDE DEF w
  <2>2. Step(j, "next", w)
    BY <1>8 DEF w
  <2>3. Alone(j) /\ pc'[j] = "next" /\ work'[j] = w
    BY <1>1, <1>5, <2>2, StepAlone
  <2>4. JobOK(j)'
    BY <1>3, <1>4, <1>5, <1>6, <2>1, <2>3, WorkingOK DEF Active
  <2>. QED
    BY <2>3, <2>4
<1>9. \/ Step(j, "reject", [NoWork EXCEPT !.rows = [f \in DOMAIN b |-> Rows(1, "failed")]])
      \/ Step(j, "next", [NoWork EXCEPT !.rows = [f \in DOMAIN b |-> <<>>]])
  BY <1>2 DEF Begin
<1>. QED
  BY <1>7, <1>8, <1>9

\* A worker moves on, with the report it had or one that shows more.
LEMMA MovesOK ==
  ASSUME Shaped, NEW j \in Jobs, NEW q \in Active \ {"begin"}, NEW w, Step(j, q, w),
         UNCHANGED <<batch, log>>, Stays(j), j \in DOMAIN table', ~Finished(table'[j]),
         "files" \in DOMAIN table'[j], WorkOK(q, w, batch[j], log[j], table'[j].files)
  PROVE  Alone(j) /\ JobOK(j)'
<1>1. Alone(j) /\ pc'[j] = q /\ work'[j] = w
  BY StepAlone
<1>2. WorkOK(pc'[j], work'[j], batch'[j], log'[j], table'[j].files)
  BY <1>1
<1>. QED
  BY <1>1, <1>2, WorkingOK

\* The report of a worker, with other files.
LEMMA ShowsFiles ==
  ASSUME Shaped, NEW j \in Jobs, JobOK(j), pc[j] \in Active \ {"begin"},
         NEW files, Publish(j, [table[j] EXCEPT !.files = files])
  PROVE  /\ Stays(j) /\ j \in DOMAIN table' /\ ~Finished(table'[j])
         /\ "files" \in DOMAIN table'[j] /\ table'[j].files = files
<1>. DEFINE r == table[j]
            report == [r EXCEPT !.files = files]
<1>1. j \in DOMAIN table /\ ~Finished(r) /\ "files" \in DOMAIN r
  BY AtWork
<1>2. "status" \in DOMAIN r
  BY <1>1 DEF Shaped, Recorded
<1>. HIDE DEF r
<1>3. report.files = files /\ report.status = r.status /\ DOMAIN report = DOMAIN r
  BY <1>1, <1>2
<1>4. Publish(j, report)
  BY DEF r
<1>. HIDE DEF report
<1>5. ~Finished(report)
  BY <1>1, <1>3 DEF Finished
<1>6. Stays(j) /\ j \in DOMAIN table' /\ table'[j] = report
  BY <1>1, <1>4, <1>5, Published
<1>. QED
  BY <1>1, <1>3, <1>5, <1>6

LEMMA NextFileOK ==
  ASSUME Shaped, NEW j \in Jobs, JobOK(j), NextFile(j)
  PROVE  Alone(j) /\ JobOK(j)'
<1>. DEFINE w == work[j]
            b == batch[j]
            T == table[j].files
<1>1. pc[j] = "next" /\ UNCHANGED <<batch, log>>
  BY DEF NextFile, WorkerOnly, credentials
<1>2. /\ j \in DOMAIN table /\ ~Finished(table[j]) /\ "files" \in DOMAIN table[j]
      /\ WorkOK("next", w, b, log[j], T)
  BY <1>1, AtWork DEF Active
<1>3. log[j] = <<>> /\ WorkOK("next", w, b, <<>>, T)
  BY <1>2 DEF WorkOK
<1>4. CASE w.n > Len(b) \/ w.late
  <2>1. Step(j, "persist", w) /\ table' = table
    BY <1>4 DEF NextFile
  <2>2. WorkOK("persist", w, b, log[j], T)
    BY <1>3, AllRead
  <2>3. Stays(j)
    BY <2>1, SameStays
  <2>. QED
    BY <1>1, <1>2, <2>1, <2>2, <2>3, MovesOK DEF Active
<1>5. CASE ~(w.n > Len(b) \/ w.late)
  <2>. DEFINE files == [T EXCEPT ![w.n] = [T[w.n] EXCEPT !.status = "running"]]
  <2>1. Step(j, "parsing", w) /\ Publish(j, [table[j] EXCEPT !.files[w.n].status = "running"])
    BY <1>5 DEF NextFile
  <2>2. [table[j] EXCEPT !.files[w.n].status = "running"] = [table[j] EXCEPT !.files = files]
    OBVIOUS
  <2>3. /\ Stays(j) /\ j \in DOMAIN table' /\ ~Finished(table'[j])
        /\ "files" \in DOMAIN table'[j] /\ table'[j].files = files
    <3>1. Publish(j, [table[j] EXCEPT !.files = files])
      BY <2>1, <2>2
    <3>. HIDE DEF files
    <3>2. pc[j] \in Active \ {"begin"}
      BY <1>1 DEF Active
    <3>. QED
      BY <3>1, <3>2, ShowsFiles
  <2>4. w.n \in DOMAIN b /\ w.n \in DOMAIN T
    <3>1. Shape(w, b) /\ Shown("next", b, w, T)
      BY <1>3 DEF WorkOK
    <3>2. Len(b) \in Nat /\ DOMAIN b = 1..Len(b) /\ w.n \in Nat \ {0}
      BY <3>1, NewBatch DEF Shape
    <3>. QED
      BY <1>5, <3>1, <3>2 DEF Shown
  <2>5. /\ DOMAIN files = DOMAIN T /\ files[w.n] = [T[w.n] EXCEPT !.status = "running"]
        /\ \A f \in DOMAIN T : f # w.n => files[f] = T[f]
    BY <2>4
  <2>. HIDE DEF files
  <2>6. WorkOK("parsing", w, b, <<>>, files)
    BY <1>3, <2>4, <2>5, OneMore
  <2>7. WorkOK("parsing", w, b, log[j], table'[j].files)
    BY <1>3, <2>3, <2>6
  <2>. QED
    BY <1>1, <2>1, <2>3, <2>7, MovesOK DEF Active
<1>. QED
  BY <1>4, <1>5

\* publishProgress.
LEMMA ProgressShown ==
  ASSUME Shaped, NEW j \in Jobs, JobOK(j), pc[j] \in Active \ {"begin"}, NEW w, Progress(j, w),
         w.n \in DOMAIN table[j].files
  PROVE  LET T == table[j].files
             S == table'[j].files
         IN /\ Stays(j) /\ j \in DOMAIN table' /\ ~Finished(table'[j]) /\ "files" \in DOMAIN table'[j]
            /\ DOMAIN S = DOMAIN T /\ S[w.n] = [status |-> "parsed", rows |-> w.rows[w.n]]
            /\ \A f \in DOMAIN T : f # w.n => S[f] = T[f]
<1>. DEFINE T == table[j].files
            done == [status |-> "parsed", rows |-> w.rows[w.n]]
            files == [T EXCEPT ![w.n] = done]
<1>1. [table[j] EXCEPT !.files[w.n] = [status |-> "parsed", rows |-> w.rows[w.n]]]
        = [table[j] EXCEPT !.files = files]
  OBVIOUS
<1>. HIDE DEF done
<1>2. DOMAIN files = DOMAIN T /\ files[w.n] = done /\ \A f \in DOMAIN T : f # w.n => files[f] = T[f]
  OBVIOUS
<1>. HIDE DEF files
<1>3. Publish(j, [table[j] EXCEPT !.files = files])
  BY <1>1 DEF Progress
<1>4. /\ Stays(j) /\ j \in DOMAIN table' /\ ~Finished(table'[j])
      /\ "files" \in DOMAIN table'[j] /\ table'[j].files = files
  BY <1>3, ShowsFiles
<1>. QED
  BY <1>2, <1>4 DEF done

LEMMA ParseFileOK ==
  ASSUME Shaped, NEW j \in Jobs, JobOK(j), ParseFile(j)
  PROVE  Alone(j) /\ JobOK(j)'
<1>. DEFINE w == work[j]
            b == batch[j]
            T == table[j].files
            c == Contents[b[w.n]]
<1>1. pc[j] = "parsing" /\ UNCHANGED <<batch, log>>
  BY DEF ParseFile, WorkerOnly, credentials
<1>2. WorkOK("parsing", w, b, log[j], T)
  BY <1>1, AtWork DEF Active
<1>3. log[j] = <<>> /\ WorkOK("parsing", w, b, <<>>, T) /\ w.n \in DOMAIN b /\ w.n \in DOMAIN T
      /\ Shape(w, b)
  BY <1>2 DEF WorkOK, Shown
<1>4. PICK failing \in IF c.via = "sso" THEN SUBSET DOMAIN c.list ELSE {{}} :
        \E u \in {Parsed(w, c, failing)} :
          /\ IF w.late THEN Step(j, "persist", u)
             ELSE IF u.total > MaxEntries THEN Step(j, "overflow", u)
             ELSE Step(j, "next", [u EXCEPT !.n = @ + 1])
          /\ Progress(j, u)
  BY DEF ParseFile
<1>. DEFINE u == Parsed(w, c, failing)
<1>5. PICK r, more : Adds(b, w.pending, w.n, r, more) /\ Joins(w, u, r, more)
  BY <1>3, ParsedAdds
<1>6. /\ IF w.late THEN Step(j, "persist", u)
         ELSE IF u.total > MaxEntries THEN Step(j, "overflow", u)
         ELSE Step(j, "next", [u EXCEPT !.n = @ + 1])
      /\ Progress(j, u)
  BY <1>4
<1>. HIDE DEF u, c
<1>7. /\ DOMAIN u = DOMAIN w /\ u.late = w.late /\ u.n = w.n
      /\ Fills(w.rows, w.n, r, u.rows) /\ u.pending = w.pending \o more
      /\ \A who \in u.seen : who \in w.seen \/ Names(more, who)
      /\ u.rows[w.n] = r
  BY <1>5 DEF Joins, Fills
<1>. DEFINE S == table'[j].files
<1>8. /\ Stays(j) /\ j \in DOMAIN table' /\ ~Finished(table'[j]) /\ "files" \in DOMAIN table'[j]
      /\ DOMAIN S = DOMAIN T /\ S[w.n] = [status |-> "parsed", rows |-> r]
      /\ \A f \in DOMAIN T : f # w.n => S[f] = T[f]
  <2>1. pc[j] \in Active \ {"begin"}
    BY <1>1 DEF Active
  <2>2. Progress(j, u) /\ u.n \in DOMAIN T
    BY <1>3, <1>6, <1>7
  <2>3. /\ Stays(j) /\ j \in DOMAIN table' /\ ~Finished(table'[j]) /\ "files" \in DOMAIN table'[j]
        /\ DOMAIN S = DOMAIN T /\ S[u.n] = [status |-> "parsed", rows |-> u.rows[u.n]]
        /\ \A f \in DOMAIN T : f # u.n => S[f] = T[f]
    BY <2>1, <2>2, ProgressShown
  <2>. QED
    BY <1>7, <2>3
<1>9. u.late \in BOOLEAN
  BY <1>3, <1>7 DEF Shape
<1>10. CASE Step(j, "persist", u) \/ Step(j, "overflow", u)
  <2>1. PICK p \in {"persist", "overflow"} : Step(j, p, u)
    BY <1>10
  <2>2. p \in {"persist", "overflow", "next"} /\ u.n = IF p = "next" THEN w.n + 1 ELSE w.n
    BY <1>7
  <2>. HIDE DEF S, w, b, T
  <2>3. WorkOK(p, u, b, <<>>, S)
    BY <1>3, <1>5, <1>7, <1>8, <1>9, <2>2, FileRead
  <2>4. WorkOK(p, u, batch[j], log[j], table'[j].files) /\ p \in Active \ {"begin"}
    BY <1>3, <2>3 DEF S, b, Active
  <2>. QED
    BY <1>1, <1>8, <2>1, <2>4, MovesOK
<1>11. CASE Step(j, "next", [u EXCEPT !.n = @ + 1])
  <2>. DEFINE x == [u EXCEPT !.n = @ + 1]
  <2>1. /\ DOMAIN x = DOMAIN w /\ x.late = u.late /\ x.n = w.n + 1
        /\ x.rows = u.rows /\ x.pending = u.pending /\ x.seen = u.seen
    BY <1>3, <1>7 DEF Shape
  <2>2. Step(j, "next", x)
    BY <1>11
  <2>. HIDE DEF x, S, w, b, T
  <2>3. /\ x.late \in BOOLEAN /\ Fills(w.rows, w.n, r, x.rows) /\ x.pending = w.pending \o more
        /\ \A who \in x.seen : who \in w.seen \/ Names(more, who)
        /\ "next" \in {"persist", "overflow", "next"} /\ x.n = IF "next" = "next" THEN w.n + 1 ELSE w.n
    BY <1>7, <1>9, <2>1
  <2>4. WorkOK("next", x, b, <<>>, S)
    BY <1>3, <1>5, <1>8, <2>1, <2>3, FileRead
  <2>5. WorkOK("next", x, batch[j], log[j], table'[j].files) /\ "next" \in Active \ {"begin"}
    BY <1>3, <2>4 DEF S, b, Active
  <2>. QED
    BY <1>1, <1>8, <2>2, <2>5, MovesOK
<1>. QED
  BY <1>6, <1>10, <1>11

LEMMA OverflowOK ==
  ASSUME Shaped, NEW j \in Jobs, JobOK(j), Overflow(j)
  PROVE  Alone(j) /\ JobOK(j)'
<1>. DEFINE w == work[j]
            b == batch[j]
            T == table[j].files
            S == table'[j].files
            rows == [f \in DOMAIN w.rows |-> FailQueued(w.rows[f])]
            Q == [rows EXCEPT ![w.n] = Append(rows[w.n], Row("failed"))]
            v == [w EXCEPT !.pending = <<>>, !.rows = Q]
<1>1. pc[j] = "overflow" /\ UNCHANGED <<batch, log>> /\ Step(j, "persist", v) /\ Progress(j, v)
  BY DEF Overflow, WorkerOnly, credentials
<1>2. pc[j] \in Active \ {"begin"} /\ WorkOK("overflow", w, b, log[j], T)
  BY <1>1, AtWork DEF Active
<1>3. log[j] = <<>> /\ WorkOK("overflow", w, b, <<>>, T) /\ w.n \in DOMAIN b /\ w.n \in DOMAIN T
      /\ Shape(w, b)
  BY <1>2 DEF WorkOK, Shown
<1>4. /\ DOMAIN Q = DOMAIN w.rows /\ Q[w.n] = Append(FailQueued(w.rows[w.n]), Row("failed"))
      /\ \A f \in DOMAIN w.rows : f # w.n => Q[f] = FailQueued(w.rows[f])
  BY <1>3 DEF Shape
<1>. HIDE DEF rows, Q
<1>5. DOMAIN v = DOMAIN w /\ v.late = w.late /\ v.n = w.n /\ v.pending = <<>> /\ v.rows = Q
  BY <1>3 DEF Shape
<1>. HIDE DEF v
<1>6. /\ Stays(j) /\ j \in DOMAIN table' /\ ~Finished(table'[j]) /\ "files" \in DOMAIN table'[j]
      /\ DOMAIN S = DOMAIN T /\ S[v.n] = [status |-> "parsed", rows |-> v.rows[v.n]]
      /\ \A f \in DOMAIN T : f # v.n => S[f] = T[f]
  <2>1. v.n \in DOMAIN T
    BY <1>3, <1>5
  <2>. QED
    BY <1>1, <1>2, <2>1, ProgressShown
<1>. HIDE DEF S, T, w, b
<1>7. WorkOK("persist", v, b, <<>>, S)
  <2>1. /\ DOMAIN v.rows = DOMAIN w.rows
        /\ v.rows[w.n] = Append(FailQueued(w.rows[w.n]), Row("failed"))
        /\ \A f \in DOMAIN w.rows : f # w.n => v.rows[f] = FailQueued(w.rows[f])
    BY <1>4, <1>5
  <2>2. /\ DOMAIN S = DOMAIN T /\ S[w.n] = [status |-> "parsed", rows |-> v.rows[w.n]]
        /\ \A f \in DOMAIN T : f # w.n => S[f] = T[f]
    BY <1>5, <1>6
  <2>. QED
    BY <1>3, <1>5, <2>1, <2>2, Overflowed
<1>8. WorkOK("persist", v, batch[j], log[j], table'[j].files) /\ "persist" \in Active \ {"begin"}
  BY <1>3, <1>7 DEF S, b, Active
<1>. QED
  BY <1>1, <1>6, <1>8, MovesOK

\* The report stays as it is.
LEMMA SilentOK ==
  ASSUME Shaped, NEW j \in Jobs, JobOK(j), pc[j] \in Active \ {"begin"},
         NEW q \in Active \ {"begin"}, NEW w, Step(j, q, w), UNCHANGED <<batch, log, table>>,
         WorkOK(q, w, batch[j], log[j], table[j].files)
  PROVE  Alone(j) /\ JobOK(j)'
<1>1. j \in DOMAIN table' /\ ~Finished(table'[j]) /\ "files" \in DOMAIN table'[j]
  BY AtWork
<1>2. Stays(j) /\ UNCHANGED <<batch, log>>
  BY SameStays
<1>3. WorkOK(q, w, batch[j], log[j], table'[j].files)
  OBVIOUS
<1>. QED
  BY <1>1, <1>2, <1>3, MovesOK

LEMMA PersistOK ==
  ASSUME Shaped, NEW j \in Jobs, JobOK(j), Persist(j)
  PROVE  Alone(j) /\ JobOK(j)'
<1>. DEFINE w == work[j]
            b == batch[j]
            T == table[j].files
<1>1. pc[j] = "persist" /\ UNCHANGED <<batch, log, table>>
  BY DEF Persist
<1>2. pc[j] \in Active \ {"begin"} /\ WorkOK("persist", w, b, log[j], T)
  BY <1>1, AtWork DEF Active
<1>3. log[j] = <<>> /\ WorkOK("persist", w, b, <<>>, T)
  BY <1>2 DEF WorkOK
<1>4. "finish" \in Active \ {"begin"} /\ "write" \in Active \ {"begin"}
  BY DEF Active
<1>5. CASE Step(j, "finish", w) /\ w.pending = <<>>
  <2>1. WorkOK("finish", w, b, log[j], T)
    BY <1>3, <1>5, NothingPends
  <2>. QED
    BY <1>1, <1>2, <1>4, <1>5, <2>1, SilentOK
<1>6. CASE Step(j, "finish", Failing(w))
  <2>1. WorkOK("finish", Failing(w), b, log[j], T)
    BY <1>3, AllFailing
  <2>. QED
    BY <1>1, <1>2, <1>4, <1>6, <2>1, SilentOK
<1>7. CASE Step(j, "write", w)
  <2>1. WorkOK("write", w, b, log[j], T)
    BY <1>3, GoesToWrite
  <2>. QED
    BY <1>1, <1>2, <1>4, <1>7, <2>1, SilentOK
<1>8. \/ Step(j, "finish", w) /\ w.pending = <<>>
      \/ Step(j, "finish", Failing(w))
      \/ Step(j, "write", w)
  BY DEF Persist
<1>. QED
  BY <1>5, <1>6, <1>7, <1>8

LEMMA WriteOK ==
  ASSUME Shaped, NEW j \in Jobs, JobOK(j), Write(j)
  PROVE  Alone(j) /\ JobOK(j)'
<1>. DEFINE w == work[j]
            b == batch[j]
            T == table[j].files
            inputs == [i \in DOMAIN w.pending |-> w.pending[i].in]
            results == BulkUpsert(inputs).results
            l == [i \in DOMAIN inputs |->
                   [in |-> inputs[i], id |-> results[i].id, created |-> results[i].created]]
<1>1. pc[j] = "write" /\ UNCHANGED <<batch, table>>
  BY DEF Write
<1>2. pc[j] \in Active \ {"begin"} /\ WorkOK("write", w, b, log[j], T)
  BY <1>1, AtWork DEF Active
<1>3. log[j] = <<>> /\ WorkOK("write", w, b, <<>>, T)
  BY <1>2 DEF WorkOK
<1>4. CASE Step(j, "finish", Failing(w)) /\ UNCHANGED log
  <2>1. WorkOK("finish", Failing(w), b, log[j], T) /\ "finish" \in Active \ {"begin"}
    BY <1>3, AllFailing DEF Active
  <2>. QED
    BY <1>1, <1>2, <1>4, <2>1, SilentOK
<1>5. CASE Step(j, "tell", [w EXCEPT !.stored = results]) /\ log' = [log EXCEPT ![j] = l]
  <2>1. IsSeq(w.pending)
    BY <1>3 DEF WorkOK, Gathered, Pending
  <2>2. IsSeq(inputs) /\ DOMAIN inputs = DOMAIN w.pending
    <3>1. Len(w.pending) \in Nat /\ DOMAIN w.pending = 1..Len(w.pending)
      BY <2>1, SeqFacts
    <3>2. inputs = [i \in 1..Len(w.pending) |-> inputs[i]]
      BY <3>1
    <3>3. DOMAIN inputs = DOMAIN w.pending
      OBVIOUS
    <3>. HIDE DEF inputs, w
    <3>4. inputs \in Seq({inputs[i] : i \in 1..Len(w.pending)})
      BY <3>1, <3>2
    <3>. QED
      BY <3>3, <3>4, SeqIs
  <2>3. DOMAIN results = DOMAIN w.pending
    <3>. HIDE DEF inputs
    <3>. QED
      BY <2>2, BulkAnswers
  <2>4. \A i \in DOMAIN w.pending : inputs[i] = w.pending[i].in
    OBVIOUS
  <2>. DEFINE u == [w EXCEPT !.stored = results]
  <2>. HIDE DEF inputs, results
  <2>5. DOMAIN l = DOMAIN w.pending /\ \A i \in DOMAIN l :
          l[i] = [in |-> w.pending[i].in, id |-> results[i].id, created |-> results[i].created]
    BY <2>2, <2>4
  <2>. HIDE DEF l
  <2>6. WorkOK("tell", u, b, l, T)
    BY <1>3, <2>3, <2>5, AllStored
  <2>7. Step(j, "tell", u)
    BY <1>5
  <2>. HIDE DEF u
  <2>8. pc' = [pc EXCEPT ![j] = "tell"] /\ work' = [work EXCEPT ![j] = u]
        /\ DOMAIN pc = Jobs /\ DOMAIN work = Jobs /\ DOMAIN log = Jobs /\ DOMAIN batch = Jobs
    BY <2>7 DEF Step, Shaped, Typed, Recorded
  <2>9. pc'[j] = "tell" /\ work'[j] = u /\ log'[j] = l /\ DOMAIN log' = Jobs
    BY <1>5, <2>8
  <2>10. ASSUME NEW i \in Jobs \ {j} PROVE Undisturbed(i)
    <3>1. pc'[i] = pc[i] /\ work'[i] = work[i] /\ log'[i] = log[i]
      BY <1>5, <2>8
    <3>. QED
      BY <1>1, <3>1 DEF Undisturbed
  <2>11. Alone(j)
    BY <1>1, <2>8, <2>9, <2>10 DEF Alone
  <2>12. j \in DOMAIN table /\ ~Finished(table[j]) /\ "files" \in DOMAIN table[j]
    BY <1>2, AtWork
  <2>13. j \in DOMAIN table' /\ ~Finished(table'[j]) /\ "files" \in DOMAIN table'[j]
         /\ pc'[j] \in Active \ {"begin"}
    BY <1>1, <2>9, <2>12 DEF Active
  <2>14. WorkOK(pc'[j], work'[j], batch'[j], log'[j], table'[j].files)
    BY <1>1, <2>6, <2>9
  <2>. QED
    BY <2>11, <2>13, <2>14, WorkingOK
<1>6. \/ Step(j, "finish", Failing(w)) /\ UNCHANGED log
      \/ Step(j, "tell", [w EXCEPT !.stored = results]) /\ log' = [log EXCEPT ![j] = l]
  BY DEF Write
<1>. QED
  BY <1>4, <1>5, <1>6

LEMMA TellOK ==
  ASSUME Shaped, NEW j \in Jobs, JobOK(j), Tell(j)
  PROVE  Alone(j) /\ JobOK(j)'
<1>. DEFINE w == work[j]
<1>1. pc[j] = "tell" /\ UNCHANGED <<batch, log, table>> /\ Step(j, "finish", Marked(w, MarksOf(w.stored)))
  BY DEF Tell, MarksOf
<1>2. pc[j] \in Active \ {"begin"} /\ "finish" \in Active \ {"begin"}
      /\ WorkOK("tell", w, batch[j], log[j], table[j].files)
  BY <1>1, AtWork DEF Active
<1>3. WorkOK("finish", Marked(w, MarksOf(w.stored)), batch[j], log[j], table[j].files)
  BY <1>2, AllTold
<1>. QED
  BY <1>1, <1>2, <1>3, SilentOK

\* No job but those that wait or work has anything in hand.
LEMMA EndedOK ==
  ASSUME NEW j, pc'[j] \in {"release", "done"},
         j \in DOMAIN table' => Finished(table'[j]) /\ FinalOK(batch'[j], log'[j], table'[j])
  PROVE  JobOK(j)'
<1>1. pc'[j] \notin {"new", "invalid", "overloaded"} /\ pc'[j] \notin Ready \cup Active
      /\ pc'[j] \notin Ready \cup {"begin"} /\ pc'[j] \notin Active \ {"begin"}
  BY DEF Active, Ready
<1>2. j \in DOMAIN table' => Finished(table[j])'
  BY DEF Finished
<1>. QED
  BY <1>1, <1>2 DEF JobOK

LEMMA FinishOK ==
  ASSUME Shaped, NEW j \in Jobs, JobOK(j), Finish(j)
  PROVE  Alone(j) /\ JobOK(j)'
<1>. DEFINE w == work[j]
            b == batch[j]
            l == log[j]
            T == table[j].files
            files == FinalFiles(j)
            rows == FlattenSeq([f \in DOMAIN files |-> files[f].rows])
            report == FinalReport(files, rows, pc[j] = "finish" /\ work[j].late)
<1>1. /\ pc[j] \in {"finish", "reject"} /\ UNCHANGED <<batch, log>>
      /\ Step(j, "release", NoWork) /\ Publish(j, report)
  BY DEF Finish, WorkerOnly, credentials
<1>2. pc[j] \in Active \ {"begin"}
  BY <1>1 DEF Active
<1>3. j \in DOMAIN table /\ WorkOK(pc[j], w, b, l, T)
  BY <1>2, AtWork
<1>4. DOMAIN w.rows = DOMAIN b
  BY <1>3 DEF WorkOK, Shape
<1>5. Settles(T, w.rows, files)
  BY <1>4 DEF Settles, FinalFiles
<1>6. report.files = files /\ report.status = Verdict(FlattenSeq(ShownRows(files)))
  BY DEF FinalReport, ShownRows
<1>7. Finished(report)
  BY VerdictFinal DEF FinalReport, Finished
<1>. HIDE DEF report, rows, files
<1>8. FinalOK(b, l, report)
  BY <1>1, <1>3, <1>5, <1>6, FinalTruth
<1>9. Stays(j) /\ (j \in DOMAIN table' => table'[j] = report)
  BY <1>1, <1>3, Published
<1>10. Alone(j) /\ pc'[j] = "release"
  BY <1>1, <1>9, StepAlone
<1>11. j \in DOMAIN table' => Finished(table'[j]) /\ FinalOK(batch'[j], log'[j], table'[j])
  BY <1>1, <1>7, <1>8, <1>9
<1>. QED
  BY <1>10, <1>11, EndedOK

LEMMA AcceptOK ==
  ASSUME Shaped, NEW j \in Jobs, JobOK(j), pc[j] = "new", NEW files \in Uploads[j], files # <<>>,
         NEW at \in {"begin", "queued"}, Accept(j, files, at), UNCHANGED <<work, credentials>>
  PROVE  Alone(j) /\ JobOK(j)'
<1>1. PICK reports \in Pruned(table) :
        table' = [i \in DOMAIN reports \cup {j} |-> IF i = j THEN NewReport(files) ELSE reports[i]]
  BY DEF Accept
<1>2. Left(table, reports)
  BY PrunedLeft
<1>3. pc' = [pc EXCEPT ![j] = at] /\ batch' = [batch EXCEPT ![j] = files] /\ UNCHANGED <<work, log>>
      /\ DOMAIN pc = Jobs /\ DOMAIN batch = Jobs /\ DOMAIN log = Jobs
  BY DEF Accept, credentials, Shaped, Typed
<1>4. DOMAIN table' = DOMAIN reports \cup {j} /\ table'[j] = NewReport(files)
      /\ \A i \in DOMAIN reports : i # j => table'[i] = reports[i]
  BY <1>1
<1>5. ASSUME NEW i \in Jobs \ {j} PROVE Undisturbed(i)
  <2>1. pc'[i] = pc[i] /\ work'[i] = work[i] /\ batch'[i] = batch[i] /\ log'[i] = log[i]
    BY <1>3
  <2>2. i \in DOMAIN table' => i \in DOMAIN table /\ table'[i] = table[i]
    BY <1>2, <1>4 DEF Left
  <2>3. i \in DOMAIN table /\ ~Finished(table[i]) => i \in DOMAIN table'
    BY <1>2, <1>4 DEF Left
  <2>. QED
    BY <2>1, <2>2, <2>3 DEF Undisturbed
<1>6. Alone(j)
  <2>1. DOMAIN batch' = Jobs /\ DOMAIN log' = Jobs
    BY <1>3
  <2>2. DOMAIN table' \subseteq DOMAIN table \cup {j}
    BY <1>2, <1>4 DEF Left
  <2>. QED
    BY <1>5, <2>1, <2>2 DEF Alone
<1>7. log[j] = <<>> /\ work[j] = NoWork
  BY DEF JobOK
<1>8. Batched(files)
  <2>1. files \in Seq(Files)
    BY SizesOK
  <2>2. IsSeq(files) /\ \A f \in DOMAIN files : files[f] \in Files
    BY <2>1, SeqIs, SeqParts
  <2>. QED
    BY <2>2 DEF Batched
<1>9. pc'[j] = at /\ batch'[j] = files /\ log'[j] = <<>> /\ work'[j] = NoWork
      /\ j \in DOMAIN table' /\ table'[j] = NewReport(files)
  BY <1>3, <1>4, <1>7
<1>10. "files" \in DOMAIN NewReport(files) /\ NewReport(files).status = "queued"
  BY DEF NewReport
<1>11. ~Finished(table[j])'
  BY <1>9, <1>10 DEF Finished, Final
<1>12. at \notin {"new", "invalid", "overloaded"} /\ at \notin Active \ {"begin"}
       /\ at \notin {"release", "done"}
  BY DEF Active
<1>13. JobOK(j)'
  BY <1>8, <1>9, <1>10, <1>11, <1>12 DEF JobOK
<1>. QED
  BY <1>6, <1>13

\* A job takes a step outside its work, and its record stays as it is.
LEMMA PassesOK ==
  ASSUME Shaped, NEW j \in Jobs, NEW to, pc' = [pc EXCEPT ![j] = to],
         UNCHANGED <<work, batch, log>>, Left(table, table')
  PROVE  Alone(j) /\ pc'[j] = to
<1>1. DOMAIN pc = Jobs /\ DOMAIN batch = Jobs /\ DOMAIN log = Jobs
  BY DEF Shaped, Typed
<1>2. ASSUME NEW i \in Jobs \ {j} PROVE Undisturbed(i)
  <2>1. pc'[i] = pc[i]
    BY <1>1
  <2>. QED
    BY <2>1 DEF Undisturbed, Left
<1>. QED
  BY <1>1, <1>2 DEF Alone, Left

LEMMA SameLeft == table' = table => Left(table, table')
  BY DEF Left

LEMMA StartOK ==
  ASSUME Shaped, NEW j \in Jobs, JobOK(j), NEW files \in Uploads[j],
         Start(j, files) \/ Refuse(j, files)
  PROVE  Alone(j) /\ JobOK(j)'
<1>1. pc[j] = "new" /\ UNCHANGED <<work, credentials, log>>
  BY DEF Start, Refuse, credentials
<1>2. CASE Start(j, files) /\ (StartNow(j, files) \/ StartLater(j, files))
  <2>1. files # <<>>
    BY <1>2 DEF Start, Acceptable
  <2>2. Accept(j, files, "begin") \/ Accept(j, files, "queued")
    BY <1>2 DEF StartNow, StartLater
  <2>3. PICK at \in {"begin", "queued"} : Accept(j, files, at)
    BY <2>2
  <2>. QED
    BY <1>1, <2>1, <2>3, AcceptOK
<1>3. CASE (Start(j, files) /\ Overloaded(j, files)) \/ Refuse(j, files)
  <2>1. PICK to \in {"overloaded", "invalid"} : pc' = [pc EXCEPT ![j] = to]
    BY <1>3 DEF Overloaded, Refuse
  <2>2. UNCHANGED <<work, batch, log>>
    BY <1>1, <1>3 DEF Overloaded, Refuse
  <2>3. Left(table, table')
    <3>1. CASE Overloaded(j, files)
      BY <3>1, PrunedLeft DEF Overloaded
    <3>2. CASE Refuse(j, files)
      BY <3>2, SameLeft DEF Refuse
    <3>. QED
      BY <1>3, <3>1, <3>2
  <2>4. Alone(j) /\ pc'[j] = to
    BY <2>1, <2>2, <2>3, PassesOK
  <2>5. j \notin DOMAIN table /\ log[j] = <<>> /\ work[j] = NoWork
    BY <1>1 DEF JobOK
  <2>6. j \notin DOMAIN table' /\ log'[j] = <<>> /\ work'[j] = NoWork
    BY <2>2, <2>3, <2>5 DEF Left
  <2>7. to \notin Ready \cup Active /\ to \notin Ready \cup {"begin"} /\ to \notin Active \ {"begin"}
        /\ to \notin {"release", "done"}
    BY DEF Ready, Active
  <2>8. JobOK(j)'
    BY <2>4, <2>6, <2>7 DEF JobOK
  <2>. QED
    BY <2>4, <2>8
<1>. QED
  BY <1>2, <1>3 DEF Start

LEMMA WaitsOK ==
  ASSUME Shaped, NEW j \in Jobs, JobOK(j), TakeSlot(j) \/ LeaveQueue(j)
  PROVE  Alone(j) /\ JobOK(j)'
<1>1. pc[j] \in Ready /\ UNCHANGED <<work, batch, log, table>>
  BY DEF TakeSlot, LeaveQueue, credentials, Ready
<1>2. PICK to \in {"slot", "begin"} : pc' = [pc EXCEPT ![j] = to]
  BY DEF TakeSlot, LeaveQueue
<1>3. Alone(j) /\ pc'[j] = to
  BY <1>1, <1>2, SameLeft, PassesOK
<1>4. /\ j \in DOMAIN table /\ ~Finished(table[j]) /\ "files" \in DOMAIN table[j]
      /\ table[j] = NewReport(batch[j]) /\ log[j] = <<>> /\ work[j] = NoWork
      /\ Batched(batch[j])
  BY <1>1, WaitsOrBegins
<1>5. to \notin {"new", "invalid", "overloaded"} /\ to \notin Active \ {"begin"}
      /\ to \notin {"release", "done"}
  BY DEF Active
<1>6. ~Finished(table[j])'
  BY <1>1, <1>4
<1>7. JobOK(j)'
  BY <1>1, <1>3, <1>4, <1>5, <1>6 DEF JobOK
<1>. QED
  BY <1>3, <1>7

LEMMA ReleaseOK ==
  ASSUME Shaped, NEW j \in Jobs, JobOK(j), Release(j)
  PROVE  Alone(j) /\ JobOK(j)'
<1>1. pc[j] = "release" /\ pc' = [pc EXCEPT ![j] = "done"] /\ UNCHANGED <<work, batch, log, table>>
  BY DEF Release, credentials
<1>2. Alone(j) /\ pc'[j] = "done"
  BY <1>1, SameLeft, PassesOK
<1>3. j \in DOMAIN table => Finished(table[j]) /\ FinalOK(batch[j], log[j], table[j])
  BY <1>1 DEF JobOK
<1>4. j \in DOMAIN table' => Finished(table'[j]) /\ FinalOK(batch'[j], log'[j], table'[j])
  BY <1>1, <1>3
<1>. QED
  BY <1>2, <1>4, EndedOK

LEMMA ExpireOK ==
  ASSUME Shaped, NEW j \in Jobs, JobOK(j), Expire(j)
  PROVE  Alone(j) /\ JobOK(j)'
<1>. DEFINE w == [work[j] EXCEPT !.late = TRUE]
<1>1. pc[j] \in Active \ {"begin"} /\ UNCHANGED <<pc, batch, log, table>>
      /\ work' = [work EXCEPT ![j] = w]
  BY DEF Expire, credentials
<1>2. /\ j \in DOMAIN table /\ ~Finished(table[j]) /\ "files" \in DOMAIN table[j]
      /\ WorkOK(pc[j], work[j], batch[j], log[j], table[j].files)
  BY <1>1, AtWork
<1>3. WorkOK(pc[j], w, batch[j], log[j], table[j].files)
  BY <1>2, TurnsLate
<1>. HIDE DEF w
<1>4. Step(j, pc[j], w)
  BY <1>1 DEF Step, Shaped, Typed
<1>. QED
  BY <1>1, <1>3, <1>4, SilentOK

\* No job takes the step.
LEMMA QuietTruth ==
  ASSUME TruthInv, UNCHANGED <<pc, work, batch, log>>, Left(table, table')
  PROVE  TruthInv'
<1>1. ASSUME NEW i \in Jobs PROVE JobOK(i)'
  <2>1. Undisturbed(i)
    BY DEF Undisturbed, Left
  <2>. QED
    BY <2>1, UndisturbedOK DEF TruthInv
<1>. QED
  BY <1>1 DEF TruthInv, Left

LEMMA InitTruth == Init => TruthInv
<1>. SUFFICES ASSUME Init PROVE TruthInv
  OBVIOUS
<1>1. DOMAIN table = {} /\ DOMAIN batch = Jobs /\ DOMAIN log = Jobs
  BY DEF Init
<1>2. ASSUME NEW j \in Jobs PROVE JobOK(j)
  <2>1. pc[j] = "new" /\ log[j] = <<>> /\ work[j] = NoWork
    BY DEF Init
  <2>2. "new" \notin Ready \cup Active /\ "new" \notin Ready \cup {"begin"} /\ "new" \notin Active \ {"begin"}
    BY DEF Ready, Active
  <2>. QED
    BY <1>1, <2>1, <2>2 DEF JobOK
<1>. QED
  BY <1>1, <1>2 DEF TruthInv

LEMMA StepTruth == JobsInv /\ TruthInv /\ [Next]_vars => TruthInv'
<1>. SUFFICES ASSUME JobsInv, TruthInv, [Next]_vars PROVE TruthInv'
  OBVIOUS
<1>1. Shaped
  BY TypeParts DEF Shaped, TruthInv
<1>2. CASE \E j \in Jobs : \/ \E files \in Uploads[j] : Start(j, files) \/ Refuse(j, files)
                           \/ Run(j) \/ Expire(j)
  <2>1. PICK j \in Jobs : \/ \E files \in Uploads[j] : Start(j, files) \/ Refuse(j, files)
                          \/ Run(j) \/ Expire(j)
    BY <1>2
  <2>2. JobOK(j)
    BY DEF TruthInv
  <2>3. Alone(j) /\ JobOK(j)'
    <3>1. CASE \E files \in Uploads[j] : Start(j, files) \/ Refuse(j, files)
      BY <1>1, <2>2, <3>1, StartOK
    <3>2. CASE TakeSlot(j) \/ LeaveQueue(j)
      BY <1>1, <2>2, <3>2, WaitsOK
    <3>3. CASE Begin(j)
      BY <1>1, <2>2, <3>3, BeginOK
    <3>4. CASE NextFile(j)
      BY <1>1, <2>2, <3>4, NextFileOK
    <3>5. CASE ParseFile(j)
      BY <1>1, <2>2, <3>5, ParseFileOK
    <3>6. CASE Overflow(j)
      BY <1>1, <2>2, <3>6, OverflowOK
    <3>7. CASE Persist(j)
      BY <1>1, <2>2, <3>7, PersistOK
    <3>8. CASE Write(j)
      BY <1>1, <2>2, <3>8, WriteOK
    <3>9. CASE Tell(j)
      BY <1>1, <2>2, <3>9, TellOK
    <3>10. CASE Finish(j)
      BY <1>1, <2>2, <3>10, FinishOK
    <3>11. CASE Release(j)
      BY <1>1, <2>2, <3>11, ReleaseOK
    <3>12. CASE Expire(j)
      BY <1>1, <2>2, <3>12, ExpireOK
    <3>. QED
      BY <2>1, <3>1, <3>2, <3>3, <3>4, <3>5, <3>6, <3>7, <3>8, <3>9, <3>10, <3>11, <3>12 DEF Run
  <2>. QED
    BY <2>3, AloneOK
<1>3. CASE Tick \/ (\E id \in DOMAIN store : Serve(id)) \/ Terminated \/ UNCHANGED vars
  <2>1. UNCHANGED <<pc, work, batch, log, table>>
    BY <1>3 DEF Tick, Serve, Terminated, vars, credentials
  <2>. QED
    BY <2>1, SameLeft, QuietTruth
<1>4. CASE Get
  <2>1. UNCHANGED <<pc, work, batch, log>> /\ table' \in Pruned(table)
    BY <1>4 DEF Get, credentials
  <2>. QED
    BY <2>1, PrunedLeft, QuietTruth
<1>. QED
  BY <1>2, <1>3, <1>4 DEF Next

-----------------------------------------------------------------------------
(***************************************************************************)
(* Reports tell the truth.                                                 *)
(***************************************************************************)
\* What ReportTruthful asks of one report.
Truthful(b, l, report) ==
  /\ \A f \in DOMAIN report.files : \A k \in DOMAIN report.files[f].rows :
       LET row == report.files[f].rows[k]
       IN /\ row.status \in Stored =>
               \E i \in DOMAIN l : Says(row, Contents[b[f]].list[k], l[i])
          /\ row.status = "skipped" =>
               \E g \in 1..f : \E m \in DOMAIN report.files[g].rows :
                 (g < f \/ m < k) /\ Who(b, g, m) = Who(b, f, k)
  /\ Finished(report) =>
       /\ \A f \in DOMAIN report.files :
            report.files[f].rows # <<>> /\
            \A k \in DOMAIN report.files[f].rows : report.files[f].rows[k].status \in Settled
       /\ \A i \in DOMAIN l : \E f \in DOMAIN report.files :
            \E k \in DOMAIN report.files[f].rows :
              Says(report.files[f].rows[k], Contents[b[f]].list[k], l[i])
       /\ report.status = "completed" =>
            \A f \in DOMAIN b : \A e \in DOMAIN Contents[b[f]].list : Names(l, Who(b, f, e))

LEMMA TruthfulReports ==
  (\A j \in DOMAIN table : Truthful(batch[j], log[j], table[j])) => ReportTruthful
<1>. SUFFICES ASSUME \A j \in DOMAIN table : Truthful(batch[j], log[j], table[j])
              PROVE  ReportTruthful
  OBVIOUS
<1>1. ASSUME NEW j \in DOMAIN table, NEW f \in DOMAIN table[j].files,
             NEW k \in DOMAIN table[j].files[f].rows
      PROVE  /\ table[j].files[f].rows[k].status \in Stored =>
                  \E i \in DOMAIN log[j] : Says(table[j].files[f].rows[k], EntryOf(j, f, k), log[j][i])
             /\ table[j].files[f].rows[k].status = "skipped" =>
                  \E g \in 1..f : \E l \in DOMAIN table[j].files[g].rows :
                    /\ g < f \/ l < k
                    /\ ImportIdentity(EntryOf(j, g, l)) = ImportIdentity(EntryOf(j, f, k))
  <2>1. Truthful(batch[j], log[j], table[j])
    OBVIOUS
  <2>2. /\ EntryOf(j, f, k) = Contents[batch[j][f]].list[k]
        /\ \A g, l : Who(batch[j], g, l) = ImportIdentity(EntryOf(j, g, l))
    BY DEF Who, EntryOf
  <2>3. table[j].files[f].rows[k].status \in Stored =>
          \E i \in DOMAIN log[j] : Says(table[j].files[f].rows[k], EntryOf(j, f, k), log[j][i])
    BY <2>1, <2>2 DEF Truthful
  <2>4. table[j].files[f].rows[k].status = "skipped" =>
          \E g \in 1..f : \E l \in DOMAIN table[j].files[g].rows :
            (g < f \/ l < k) /\ Who(batch[j], g, l) = Who(batch[j], f, k)
    BY <2>1 DEF Truthful
  <2>. QED
    BY <2>2, <2>3, <2>4
<1>2. ASSUME NEW j \in DOMAIN table, Finished(table[j])
      PROVE  /\ \A f \in DOMAIN table[j].files : 
                  /\ table[j].files[f].rows # <<>>
                  /\ \A k \in DOMAIN table[j].files[f].rows : table[j].files[f].rows[k].status \in Settled
             /\ \A i \in DOMAIN log[j] : \E f \in DOMAIN table[j].files :
                  \E k \in DOMAIN table[j].files[f].rows :
                    Says(table[j].files[f].rows[k], EntryOf(j, f, k), log[j][i])
             /\ table[j].status = "completed" =>
                  \A f \in DOMAIN batch[j] : \A e \in DOMAIN Contents[batch[j][f]].list :
                    \E i \in DOMAIN log[j] :
                      ImportIdentity(log[j][i].in) = ImportIdentity(EntryOf(j, f, e))
  <2>1. Truthful(batch[j], log[j], table[j])
    OBVIOUS
  <2>2. /\ \A f, k : EntryOf(j, f, k) = Contents[batch[j][f]].list[k]
        /\ \A g, l : Who(batch[j], g, l) = ImportIdentity(EntryOf(j, g, l))
    BY DEF Who, EntryOf
  <2>3. \A f \in DOMAIN table[j].files :
          /\ table[j].files[f].rows # <<>>
          /\ \A k \in DOMAIN table[j].files[f].rows : table[j].files[f].rows[k].status \in Settled
    BY <1>2, <2>1 DEF Truthful
  <2>4. \A i \in DOMAIN log[j] : \E f \in DOMAIN table[j].files :
          \E k \in DOMAIN table[j].files[f].rows :
            Says(table[j].files[f].rows[k], EntryOf(j, f, k), log[j][i])
    BY <1>2, <2>1, <2>2 DEF Truthful
  <2>5. table[j].status = "completed" =>
          \A f \in DOMAIN batch[j] : \A e \in DOMAIN Contents[batch[j][f]].list :
            \E i \in DOMAIN log[j] : ImportIdentity(log[j][i].in) = Who(batch[j], f, e)
    BY <1>2, <2>1 DEF Truthful, Names
  <2>. QED
    BY <2>2, <2>3, <2>4, <2>5
<1>3. \A j, f, k, done : Says(table[j].files[f].rows[k], EntryOf(j, f, k), done) <=>
        /\ table[j].files[f].rows[k].id = done.id
        /\ table[j].files[f].rows[k].status = IF done.created THEN "created" ELSE "updated"
        /\ EntryOf(j, f, k) = done.in
  BY DEF Says
<1>. QED
  BY <1>1, <1>2, <1>3, SMTT(60) DEF ReportTruthful

\* A report of settled and unsettled rows, none of them stored.
LEMMA UnstoredTruthful ==
  ASSUME NEW b, NEW l, NEW report, ~Finished(report),
         \A f \in DOMAIN report.files : \A k \in DOMAIN report.files[f].rows :
           report.files[f].rows[k].status \in Unstored,
         NEW N \in Nat, DOMAIN report.files = 1..N, SkipsRepeat(b, ShownRows(report.files))
  PROVE  Truthful(b, l, report)
<1>. DEFINE P == ShownRows(report.files)
<1>1. DOMAIN P = 1..N /\ \A f \in 1..N : P[f] = report.files[f].rows
  BY DEF ShownRows
<1>2. \A f \in 1..N : \A g \in 1..f : g \in 1..N
  OBVIOUS
<1>. HIDE DEF P
<1>3. ASSUME NEW f \in DOMAIN report.files, NEW k \in DOMAIN report.files[f].rows,
             report.files[f].rows[k].status = "skipped"
      PROVE  \E g \in 1..f : \E m \in DOMAIN report.files[g].rows :
               (g < f \/ m < k) /\ Who(b, g, m) = Who(b, f, k)
  <2>1. Before(b, P, f, k)
    BY <1>1, <1>3 DEF SkipsRepeat, P
  <2>. QED
    BY <1>1, <1>2, <1>3, <2>1 DEF Before
<1>4. \A f \in DOMAIN report.files : \A k \in DOMAIN report.files[f].rows :
        report.files[f].rows[k].status \notin Stored
  BY DEF Unstored, Stored
<1>. QED
  BY <1>3, <1>4 DEF Truthful

LEMMA FinalTruthful ==
  ASSUME NEW b, NEW l, NEW report, FinalOK(b, l, report)
  PROVE  Truthful(b, l, report)
<1>. DEFINE N == Len(b)
            P == ShownRows(report.files)
<1>n. N \in Nat /\ DOMAIN b = 1..N
  BY NewBatch DEF FinalOK
<1>. HIDE DEF N
<1>1. DOMAIN report.files = 1..N /\ DOMAIN P = 1..N /\ \A f \in 1..N : P[f] = report.files[f].rows
  BY <1>n DEF FinalOK, ShownRows
<1>2. \A f \in 1..N : \A g \in 1..f : g \in 1..N
  BY <1>n
<1>3. SkipsRepeat(b, P) /\ Told(b, P, l) /\ Rowed(P, Settled)
  BY DEF FinalOK
<1>. HIDE DEF P
<1>4. ASSUME NEW f \in 1..N, NEW k \in DOMAIN report.files[f].rows
      PROVE  /\ report.files[f].rows[k].status \in Settled
             /\ report.files[f].rows[k].status \in Stored =>
                  \E i \in DOMAIN l : Says(report.files[f].rows[k], Contents[b[f]].list[k], l[i])
             /\ report.files[f].rows[k].status = "skipped" =>
                  \E g \in 1..f : \E m \in DOMAIN report.files[g].rows :
                    (g < f \/ m < k) /\ Who(b, g, m) = Who(b, f, k)
  <2>1. P[f] = report.files[f].rows /\ f \in DOMAIN P /\ k \in DOMAIN P[f]
    BY <1>1
  <2>2. P[f][k].status \in Settled
    BY <1>3, <2>1 DEF Rowed, RowIn
  <2>3. P[f][k].status \in Stored => \E i \in DOMAIN l : Says(P[f][k], Contents[b[f]].list[k], l[i])
    BY <1>3, <2>1 DEF Told
  <2>4. P[f][k].status = "skipped" => Before(b, P, f, k)
    BY <1>3, <2>1 DEF SkipsRepeat
  <2>5. Before(b, P, f, k) =>
          \E g \in 1..f : \E m \in DOMAIN report.files[g].rows :
            (g < f \/ m < k) /\ Who(b, g, m) = Who(b, f, k)
    BY <1>1, <1>2 DEF Before
  <2>. QED
    BY <2>1, <2>2, <2>3, <2>4, <2>5
<1>5. ASSUME NEW i \in DOMAIN l
      PROVE  \E f \in 1..N : \E k \in DOMAIN report.files[f].rows :
               Says(report.files[f].rows[k], Contents[b[f]].list[k], l[i])
  BY <1>1, <1>3 DEF Told
<1>6. \A f \in 1..N : report.files[f].rows # <<>>
  BY <1>n DEF FinalOK
<1>7. report.status = "completed" =>
        \A f \in DOMAIN b : \A e \in DOMAIN Contents[b[f]].list : Names(l, Who(b, f, e))
  BY DEF FinalOK
<1>. QED
  BY <1>1, <1>4, <1>5, <1>6, <1>7 DEF Truthful

LEMMA TruthMeans == JobsInv /\ TruthInv => ReportTruthful
<1>. SUFFICES ASSUME JobsInv, TruthInv, NEW j \in DOMAIN table
              PROVE  Truthful(batch[j], log[j], table[j])
  BY TruthfulReports
<1>. DEFINE b == batch[j]
            T == table[j].files
<1>1. j \in Jobs /\ JobOK(j) /\ pc[j] \in Stages
  BY TypeParts DEF TruthInv, Typed
<1>2. CASE pc[j] \in {"new", "invalid", "overloaded"}
  BY <1>1, <1>2 DEF JobOK
<1>3. ASSUME Batched(b), T = NewReport(b).files, ~Finished(table[j])
      PROVE  Truthful(b, log[j], table[j])
  <2>1. Len(b) \in Nat /\ DOMAIN T = 1..Len(b) /\ \A f \in DOMAIN T : DOMAIN T[f].rows = {}
    <3>1. DOMAIN <<>> = {}
      OBVIOUS
    <3>. QED
      BY <1>3, <3>1, NewBatch
  <2>2. SkipsRepeat(b, ShownRows(T))
    BY <2>1 DEF SkipsRepeat, ShownRows
  <2>. QED
    BY <1>3, <2>1, <2>2, UnstoredTruthful
<1>4. CASE pc[j] \in Ready \cup {"begin"}
  <2>1. Batched(b) /\ ~Finished(table[j]) /\ table[j] = NewReport(b)
    BY <1>1, <1>4, WaitsOrBegins
  <2>. QED
    BY <1>3, <2>1
<1>5. CASE pc[j] \in Active \ {"begin"}
  <2>1. ~Finished(table[j]) /\ WorkOK(pc[j], work[j], b, log[j], T)
    BY <1>1, <1>5, AtWork
  <2>2. Batched(b)
    BY <2>1 DEF WorkOK, Shape
  <2>3. CASE pc[j] = "reject"
    <3>1. T = NewReport(b).files
      BY <2>1, <2>3 DEF WorkOK
    <3>. QED
      BY <1>3, <2>1, <2>2, <3>1
  <2>4. CASE pc[j] # "reject"
    <3>1. Shown(pc[j], b, work[j], T)
      BY <2>1, <2>4 DEF WorkOK
    <3>2. Len(b) \in Nat /\ DOMAIN T = 1..Len(b)
      BY <2>2, <3>1, NewBatch DEF Shown
    <3>3. SkipsRepeat(b, ShownRows(T)) /\ Rowed(ShownRows(T), Unstored)
      BY <3>1 DEF Shown
    <3>4. \A f \in DOMAIN T : \A k \in DOMAIN T[f].rows : T[f].rows[k].status \in Unstored
      BY <3>3 DEF Rowed, RowIn, ShownRows
    <3>. QED
      BY <2>1, <3>2, <3>3, <3>4, UnstoredTruthful
  <2>. QED
    BY <2>3, <2>4
<1>6. CASE pc[j] \in {"release", "done"}
  <2>1. FinalOK(b, log[j], table[j])
    BY <1>1, <1>6 DEF JobOK
  <2>. QED
    BY <2>1, FinalTruthful
<1>. QED
  BY <1>1, <1>2, <1>4, <1>5, <1>6 DEF Stages, Resting

\* What a report says of every row is what the store did with that very entry
\* (ReportTruthful): the row numbers that parseFile gave the entries, the marks
\* that run puts on them after the one write, and the summary of finish agree,
\* for every batch of documents and whatever happens to the other jobs.
THEOREM ReportsTruthful == Spec => []ReportTruthful
<1>. DEFINE Inv == JobsInv /\ TruthInv
<1>1. Init => Inv
  BY InitJobs, InitTruth
<1>2. Inv /\ [Next]_vars => Inv'
  BY StepJobs, StepTruth
<1>3. Inv => ReportTruthful
  BY TruthMeans
<1>. QED
  BY <1>1, <1>2, <1>3, PTL DEF Spec
=============================================================================
