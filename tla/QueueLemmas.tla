---------------------------- MODULE QueueLemmas -----------------------------
(***************************************************************************)
(* Facts that the proofs about books and about their nodes share: unsigned *)
(* arithmetic, sequences as FIFO queues, and sums over a queue or a set.   *)
(* The provers instantiate no theorem that takes an operator, so induction *)
(* is stated for sets, and what the folds compute is proved from it.       *)
(***************************************************************************)
EXTENDS Integers, FiniteSetsExt, Filter, SequenceTheorems,
        FiniteSetTheorems, TLAPS

(* An unsigned result of modulus n is at most n - 1.                       *)
LEMMA ModRange ==
  ASSUME NEW x \in Int, NEW n \in Nat \ {0}
  PROVE  x % n \in 0..(n - 1)
  OBVIOUS

(* Removing element i of a queue moves the elements behind it up by one.   *)
LEMMA RemoveAtProperties ==
  ASSUME NEW S, NEW q \in Seq(S), NEW i \in DOMAIN q
  PROVE  /\ RemoveAt(q, i) \in Seq(S)
         /\ Len(RemoveAt(q, i)) = Len(q) - 1
         /\ \A j \in DOMAIN RemoveAt(q, i) :
              RemoveAt(q, i)[j] = IF j < i THEN q[j] ELSE q[j + 1]
<1> DEFINE n == Len(q)
           a == SubSeq(q, 1, i - 1)
           b == SubSeq(q, i + 1, n)
<1>0. n \in Nat /\ i \in 1..n
  BY LenProperties
<1>1. /\ a \in Seq(S) /\ Len(a) = i - 1
      /\ \A j \in 1..(i - 1) : a[j] = q[j]
  BY <1>0, SubSeqProperties
<1>2. /\ b \in Seq(S) /\ Len(b) = n - i
      /\ \A j \in 1..(n - i) : b[j] = q[i + j]
  BY <1>0, SubSeqProperties
<1>3. RemoveAt(q, i) = a \o b
  BY DEF RemoveAt
<1> HIDE DEF a, b
<1>4. /\ a \o b \in Seq(S)
      /\ Len(a \o b) = n - 1
      /\ \A j \in 1..(n - 1) : (a \o b)[j] = IF j <= i - 1 THEN a[j] ELSE b[j - (i - 1)]
  <2>1. /\ a \o b \in Seq(S)
        /\ Len(a \o b) = Len(a) + Len(b)
        /\ \A j \in 1..(Len(a) + Len(b)) :
             (a \o b)[j] = IF j <= Len(a) THEN a[j] ELSE b[j - Len(a)]
    BY <1>1, <1>2, ConcatProperties, Zenon
  <2>2. Len(a) = i - 1 /\ Len(a) + Len(b) = n - 1
    BY <1>0, <1>1, <1>2
  <2> QED
    BY <2>1, <2>2
<1>5. DOMAIN (a \o b) = 1..(n - 1)
  BY <1>0, <1>3, <1>4, LenProperties
<1>6. \A j \in 1..(n - 1) : (a \o b)[j] = IF j < i THEN q[j] ELSE q[j + 1]
  <2> TAKE j \in 1..(n - 1)
  <2>1. CASE j < i
    BY <2>1, <1>0, <1>1, <1>4
  <2>2. CASE ~(j < i)
    <3>1. j - (i - 1) \in 1..(n - i) /\ i + (j - (i - 1)) = j + 1
      BY <2>2, <1>0
    <3> QED
      BY <3>1, <2>2, <1>0, <1>2, <1>4, SMTT(30)
  <2> QED
    BY <2>1, <2>2
<1> QED
  BY <1>3, <1>4, <1>5, <1>6

(* Putting an element in front moves the others down by one.               *)
LEMMA PushProperties ==
  ASSUME NEW S, NEW q \in Seq(S), NEW x \in S
  PROVE  /\ <<x>> \o q \in Seq(S)
         /\ Len(<<x>> \o q) = Len(q) + 1
         /\ \A j \in 1..(Len(q) + 1) : (<<x>> \o q)[j] = IF j = 1 THEN x ELSE q[j - 1]
<1>1. <<x>> \in Seq(S) /\ Len(<<x>>) = 1 /\ <<x>>[1] = x
  OBVIOUS
<1>2. Len(q) \in Nat
  BY LenProperties
<1>3. /\ <<x>> \o q \in Seq(S)
      /\ Len(<<x>> \o q) = Len(<<x>>) + Len(q)
      /\ \A j \in 1..(Len(<<x>>) + Len(q)) :
           (<<x>> \o q)[j] = IF j <= Len(<<x>>) THEN <<x>>[j] ELSE q[j - Len(<<x>>)]
  BY <1>1, ConcatProperties, Zenon
<1> QED
  BY <1>1, <1>2, <1>3

(* A non-empty family of subsets of a finite set has a smallest member.    *)
LEMMA SmallestSet ==
  ASSUME NEW S, IsFiniteSet(S), NEW F, F \subseteq SUBSET S, F # {}
  PROVE  \E T \in F : \A U \in F : ~(<<U, T>> \in StrictSubsetOrdering(S))
<1>1. IsWellFoundedOn(StrictSubsetOrdering(S), SUBSET S)
  BY FS_StrictSubsetOrderingWellFounded, FS_FiniteSubsetsOfFinite
<1> QED
  BY <1>1, WFMin, Zenon

(* A non-empty set of naturals has a least element.                        *)
LEMMA LeastNat ==
  ASSUME NEW T \in SUBSET Nat, T # {}
  PROVE  \E m \in T : \A n \in T : m <= n
<1>1. PICK k \in T : TRUE
  OBVIOUS
<1> DEFINE F == {1..n : n \in {m \in T : m <= k}}
<1>2. F \in SUBSET SUBSET (1..k) /\ F # {}
  BY <1>1
<1>3. IsFiniteSet(1..k)
  BY <1>1, FS_Interval
<1>4. PICK V \in F : \A U \in F : U \subseteq V => U = V
  <2> HIDE DEF F
  <2>1. F \subseteq SUBSET (1..k)
    BY <1>2
  <2>2. \E V \in F : \A U \in F : ~(<<U, V>> \in StrictSubsetOrdering(1..k))
    BY <2>1, <1>2, <1>3, SmallestSet, Zenon
  <2> QED BY <2>1, <2>2 DEF StrictSubsetOrdering
<1>5. PICK m \in T : m <= k /\ V = 1..m
  OBVIOUS
<1>6. ASSUME NEW n \in T, n < m PROVE FALSE
  <2>1. 1..n \in F
    BY <1>5, <1>6, <1>1
  <2>2. 1..n \subseteq 1..m /\ m \in 1..m /\ m \notin 1..n
    BY <1>5, <1>6, <1>1
  <2> QED BY <2>1, <2>2, <1>4, <1>5
<1> QED
  BY <1>5, <1>6

(* Induction over the naturals, for a set of naturals: the library states  *)
(* it for an operator.                                                     *)
LEMMA Induction ==
  ASSUME NEW P \in SUBSET Nat, 0 \in P, \A n \in P : n + 1 \in P
  PROVE  P = Nat
<1> SUFFICES ASSUME Nat \ P # {} PROVE FALSE
  OBVIOUS
<1>1. PICK m \in Nat \ P : \A n \in Nat \ P : m <= n
  BY LeastNat
<1>2. m - 1 \in Nat /\ m - 1 \in P
  BY <1>1
<1> QED
  BY <1>1, <1>2

(* Induction over the subsets of a finite set: a family that holds a set   *)
(* whenever it holds it short of any one element holds every set.          *)
LEMMA SubsetInduction ==
  ASSUME NEW S, IsFiniteSet(S), NEW P \in SUBSET SUBSET S,
         \A T \in SUBSET S : (\A x \in T : T \ {x} \in P) => T \in P
  PROVE  \A T \in SUBSET S : T \in P
<1> SUFFICES ASSUME (SUBSET S) \ P # {} PROVE FALSE
  OBVIOUS
<1>1. PICK T \in (SUBSET S) \ P : \A U \in (SUBSET S) \ P : U \subseteq T => U = T
  <2>1. (SUBSET S) \ P \subseteq SUBSET S
    OBVIOUS
  <2>2. \E T \in (SUBSET S) \ P :
          \A U \in (SUBSET S) \ P : ~(<<U, T>> \in StrictSubsetOrdering(S))
    BY <2>1, SmallestSet, Zenon
  <2> QED BY <2>1, <2>2 DEF StrictSubsetOrdering
<1>2. ASSUME NEW x \in T PROVE T \ {x} \in P
  <2>1. T \ {x} \in SUBSET S /\ T \ {x} \subseteq T /\ T \ {x} # T
    BY <1>1
  <2> QED BY <2>1, <1>1
<1> QED
  BY <1>1, <1>2

(* pick chooses an element of every non-empty subset of S.                 *)
Picks(pick, S) == \A T \in SUBSET S : T # {} => pick[T] \in T

(* f is what MapThenFoldSet iterates over the subsets of S.                *)
Folds(f, S, base, pick, step) ==
  \A T \in SUBSET S :
    f[T] = IF T = {} THEN base ELSE step[pick[T]][f[T \ {pick[T]}]]

(* Recursion over the subsets of a finite set defines a function.          *)
LEMMA SubsetRecursion ==
  ASSUME NEW S, IsFiniteSet(S), NEW V, NEW base \in V,
         NEW pick, Picks(pick, S),
         NEW step \in [S -> [V -> V]]
  PROVE  \E f \in [SUBSET S -> V] : Folds(f, S, base, pick, step)
<1> DEFINE Sub(n) == {T \in SUBSET S : Cardinality(T) <= n}
           Good(f, n) == /\ f \in [Sub(n) -> V]
                         /\ \A T \in Sub(n) :
                              f[T] = IF T = {} THEN base ELSE step[pick[T]][f[T \ {pick[T]}]]
           P == {n \in Nat : \E f : Good(f, n)}
<1>0. /\ \A T \in SUBSET S : IsFiniteSet(T) /\ Cardinality(T) \in Nat /\ Cardinality(T) <= Cardinality(S)
      /\ Cardinality(S) \in Nat
      /\ \A T \in SUBSET S : Cardinality(T) = 0 <=> T = {}
      /\ \A T \in SUBSET S : T # {} => /\ T \ {pick[T]} \in SUBSET S
                                       /\ Cardinality(T \ {pick[T]}) = Cardinality(T) - 1
                                       /\ pick[T] \in S
  BY FS_Subset, FS_CardinalityType, FS_EmptySet, FS_RemoveElement DEF Picks
<1>1. 0 \in P
  <2>1. \A T \in Sub(0) : T = {}
    BY <1>0
  <2>2. Good([T \in Sub(0) |-> base], 0)
    BY <2>1
  <2> QED BY <2>2
<1>2. ASSUME NEW n \in P PROVE n + 1 \in P
  <2>1. PICK f : Good(f, n)
    OBVIOUS
  <2> DEFINE g == [T \in Sub(n + 1) |->
                     IF Cardinality(T) <= n THEN f[T]
                     ELSE step[pick[T]][f[T \ {pick[T]}]]]
  <2>2. \A T \in Sub(n + 1) : T # {} => T \ {pick[T]} \in Sub(n) /\ T \ {pick[T]} \in Sub(n + 1)
    BY <1>0
  <2>3. \A T \in Sub(n) : g[T] = f[T] /\ T \in Sub(n + 1) /\ f[T] \in V
    BY <2>1, <1>0
  <2>4. \A T \in Sub(n + 1) : T \notin Sub(n) => T # {} /\ ~(Cardinality(T) <= n)
    BY <1>0
  <2>5. ASSUME NEW T \in Sub(n + 1)
        PROVE  /\ g[T] \in V
               /\ g[T] = IF T = {} THEN base ELSE step[pick[T]][g[T \ {pick[T]}]]
    <3>1. CASE T \in Sub(n)
      <4>1. f[T] = IF T = {} THEN base ELSE step[pick[T]][f[T \ {pick[T]}]]
        BY <3>1, <2>1
      <4>2. T # {} => f[T \ {pick[T]}] = g[T \ {pick[T]}]
        BY <2>2, <2>3
      <4> QED BY <3>1, <4>1, <4>2, <2>3, Zenon
    <3>2. CASE T \notin Sub(n)
      <4>1. T # {} /\ g[T] = step[pick[T]][f[T \ {pick[T]}]]
        BY <3>2, <2>4
      <4>2. f[T \ {pick[T]}] = g[T \ {pick[T]}] /\ f[T \ {pick[T]}] \in V
        BY <4>1, <2>2, <2>3, Zenon
      <4>3. pick[T] \in S
        BY <4>1, <1>0
      <4>4. step[pick[T]] \in [V -> V]
        BY <4>3
      <4>5. step[pick[T]][f[T \ {pick[T]}]] \in V
        <5> HIDE DEF Sub, Good, P
        <5> QED BY <4>2, <4>4
      <4> QED BY <4>1, <4>2, <4>5, Zenon
    <3> QED BY <3>1, <3>2
  <2>6. g \in [Sub(n + 1) -> V]
    <3>1. \A T \in Sub(n + 1) : g[T] \in V
      BY <2>5
    <3> QED BY <3>1
  <2>7. \A T \in Sub(n + 1) :
          g[T] = IF T = {} THEN base ELSE step[pick[T]][g[T \ {pick[T]}]]
    BY <2>5
  <2>8. Good(g, n + 1)
    <3> HIDE DEF g, Sub
    <3> QED BY <2>6, <2>7
  <2>9. n + 1 \in Nat /\ \E h : Good(h, n + 1)
    <3> HIDE DEF Good
    <3> QED BY <2>8
  <2> QED BY <2>9
<1>3. Cardinality(S) \in P
  <2>1. P \in SUBSET Nat
    OBVIOUS
  <2> HIDE DEF P
  <2> QED BY <1>0, <1>1, <1>2, <2>1, Induction
<1>4. PICK f : Good(f, Cardinality(S))
  BY <1>3
<1>5. Sub(Cardinality(S)) = SUBSET S
  BY <1>0
<1> QED
  BY <1>4, <1>5 DEF Folds

(* The largest of some of the indices 1..n.                                *)
LEMMA MaxOfPart ==
  ASSUME NEW n \in Nat, NEW T \in SUBSET (1..n), T # {}
  PROVE  Max(T) \in T /\ \A i \in T : Max(T) >= i
<1> DEFINE U == {n - i : i \in T}
<1>1. U \in SUBSET Nat /\ U # {}
  <2>1. \A i \in T : i \in 1..n
    OBVIOUS
  <2>2. \A i \in T : n - i \in Nat
    BY <2>1
  <2> QED BY <2>2
<1>2. PICK m \in U : \A k \in U : m <= k
  <2> HIDE DEF U
  <2> QED BY <1>1, LeastNat
<1>3. PICK i \in T : m = n - i
  OBVIOUS
<1>4. \A j \in T : i >= j
  <2> TAKE j \in T
  <2>1. n - j \in U
    OBVIOUS
  <2> QED BY <2>1, <1>2, <1>3
<1> QED
  BY <1>4 DEF Max

(* f is what FoldLeft iterates over the parts of 1..n, from the largest    *)
(* index down.                                                             *)
FoldsUp(f, n, V, base, step) ==
  /\ f[{}] = base
  /\ \A T \in SUBSET (1..n) :
       T # {} /\ f[T \ {Max(T)}] \in V => f[T] = step[Max(T)][f[T \ {Max(T)}]]

(* F folds step over 1..n, from the smallest index up.                     *)
Steps(F, n, V, base, step) ==
  /\ F \in [0..n -> V]
  /\ F[0] = base
  /\ \A k \in 1..n : F[k] = step[k][F[k - 1]]

(* step gives, for each index, a function on the accumulated values.       *)
IsStep(step, n, V) == step \in [1..n -> [V -> V]]

(* The function FoldLeft iterates exists.                                  *)
LEMMA FoldExists ==
  ASSUME NEW n \in Nat, NEW V, NEW base \in V, NEW step, IsStep(step, n, V)
  PROVE  \E f \in [SUBSET (1..n) -> V] : FoldsUp(f, n, V, base, step)
<1> DEFINE pick == [T \in SUBSET (1..n) |-> Max(T)]
<1>1. Picks(pick, 1..n)
  BY MaxOfPart DEF Picks
<1>2. IsFiniteSet(1..n)
  BY FS_Interval
<1>3. \A T \in SUBSET (1..n) : pick[T] = Max(T)
  OBVIOUS
<1> HIDE DEF pick
<1>4. PICK f \in [SUBSET (1..n) -> V] : Folds(f, 1..n, base, pick, step)
  BY <1>1, <1>2, SubsetRecursion, Zenon DEF IsStep
<1>5. \A T \in SUBSET (1..n) :
        f[T] = IF T = {} THEN base ELSE step[Max(T)][f[T \ {Max(T)}]]
  BY <1>3, <1>4, Zenon DEF Folds
<1>6. f[{}] = base
  BY <1>5
<1>7. \A T \in SUBSET (1..n) : T # {} => f[T] = step[Max(T)][f[T \ {Max(T)}]]
  BY <1>5, Zenon
<1> QED
  BY <1>6, <1>7 DEF FoldsUp

(* It goes through the prefixes of 1..n only.                              *)
LEMMA FoldPrefixes ==
  ASSUME NEW n \in Nat, NEW V, NEW base \in V, NEW step, IsStep(step, n, V),
         NEW f, FoldsUp(f, n, V, base, step)
  PROVE  \E F : Steps(F, n, V, base, step) /\ f[1..n] = F[n]
<1> DEFINE F == [k \in 0..n |-> f[1..k]]
           P == {k \in Nat : k <= n => f[1..k] \in V}
<1>2. f[1..0] = base
  <2>1. 1..0 = {}
    OBVIOUS
  <2> QED BY <2>1 DEF FoldsUp
<1>3. ASSUME NEW k \in 1..n, f[1..(k - 1)] \in V PROVE f[1..k] = step[k][f[1..(k - 1)]]
  <2>1. 1..k \in SUBSET (1..n) /\ 1..k # {} /\ k \in 1..k
    <3>1. \A i \in 1..k : i \in 1..n
      OBVIOUS
    <3>2. 1..k \subseteq 1..n /\ k \in 1..k
      BY <3>1
    <3> QED BY <3>2
  <2>2. Max(1..k) = k
    <3>1. Max(1..k) \in 1..k /\ \A i \in 1..k : Max(1..k) >= i
      BY <2>1, MaxOfPart
    <3> QED BY <3>1, <2>1
  <2>3. (1..k) \ {k} = 1..(k - 1)
    OBVIOUS
  <2> QED BY <1>3, <2>1, <2>2, <2>3 DEF FoldsUp
<1>4. P = Nat
  <2>1. 0 \in P
    BY <1>2
  <2>2. ASSUME NEW k \in P PROVE k + 1 \in P
    <3>1. CASE k + 1 <= n
      <4>1. k + 1 \in 1..n /\ (k + 1) - 1 = k /\ k \in Nat
        BY <3>1
      <4>2. f[1..k] \in V
        <5>1. k <= n
          BY <3>1, <4>1
        <5>2. k <= n => f[1..k] \in V
          BY Zenon
        <5> QED BY <5>1, <5>2
      <4>3. f[1..(k + 1)] = step[k + 1][f[1..k]]
        BY <4>1, <4>2, <1>3
      <4>4. step[k + 1] \in [V -> V]
        BY <4>1 DEF IsStep
      <4> HIDE DEF P
      <4>5. f[1..(k + 1)] \in V
        BY <4>2, <4>3, <4>4
      <4>6. k + 1 \in Nat
        BY <4>1
      <4> QED BY <4>5, <4>6 DEF P
    <3>2. CASE ~(k + 1 <= n)
      BY <3>2
    <3> QED BY <3>1, <3>2
  <2>3. P \in SUBSET Nat
    OBVIOUS
  <2> HIDE DEF P
  <2> QED BY <2>1, <2>2, <2>3, Induction
<1>5. \A k \in 0..n : f[1..k] \in V /\ F[k] = f[1..k]
  <2> TAKE k \in 0..n
  <2>1. k \in Nat /\ k <= n
    OBVIOUS
  <2>2. f[1..k] \in V
    BY <1>4, <2>1, Zenon
  <2> QED BY <2>2
<1>6. F \in [0..n -> V]
  BY <1>5
<1>7. F[0] = base /\ f[1..n] = F[n]
  <2>1. 0 \in 0..n /\ n \in 0..n
    OBVIOUS
  <2>2. F[0] = f[1..0] /\ F[n] = f[1..n]
    BY <2>1, Zenon
  <2> QED BY <1>2, <2>2
<1>8. \A k \in 1..n : F[k] = step[k][F[k - 1]]
  <2> TAKE k \in 1..n
  <2>0. k \in 0..n /\ k - 1 \in 0..n
    OBVIOUS
  <2>1. F[k] = f[1..k] /\ F[k - 1] = f[1..(k - 1)] /\ f[1..(k - 1)] \in V
    BY <2>0, <1>5, Zenon
  <2> HIDE DEF F
  <2> QED BY <1>3, <2>1
<1> HIDE DEF F
<1> QED
  BY <1>6, <1>7, <1>8 DEF Steps

(* f gives an integer for each element of S.                               *)
Whole(f, S) == \A x \in S : f[x] \in Int

(* F adds up the first numbers of v.                                       *)
RunningSum(F, v, n) ==
  /\ F \in [0..n -> Int]
  /\ F[0] = 0
  /\ \A k \in 1..n : F[k] = F[k - 1] + v[k]

(* Adding up the same numbers gives the same sum.                          *)
LEMMA RunningSumUnique ==
  ASSUME NEW n \in Nat, NEW v, Whole(v, 1..n),
         NEW F, RunningSum(F, v, n), NEW G, RunningSum(G, v, n)
  PROVE  F[n] = G[n]
<1> USE DEF Whole
<1> DEFINE P == {k \in Nat : k <= n => F[k] = G[k]}
<1>1. 0 \in P
  BY DEF RunningSum
<1>2. ASSUME NEW k \in P PROVE k + 1 \in P
  <2>1. CASE k + 1 <= n
    <3>1. k \in Nat /\ k + 1 \in 1..n /\ (k + 1) - 1 = k /\ F[k] = G[k]
      BY <2>1
    <3>2. F[k + 1] = F[k] + v[k + 1] /\ G[k + 1] = G[k] + v[k + 1]
      BY <3>1 DEF RunningSum
    <3> QED BY <3>1, <3>2
  <2>2. CASE ~(k + 1 <= n)
    BY <2>2
  <2> QED BY <2>1, <2>2
<1>3. P = Nat
  <2>1. P \in SUBSET Nat
    OBVIOUS
  <2> HIDE DEF P
  <2> QED BY <1>1, <1>2, <2>1, Induction
<1> QED
  BY <1>3

(* A sum of naturals is at least each of them.                             *)
LEMMA RunningSumMember ==
  ASSUME NEW n \in Nat, NEW v, \A k \in 1..n : v[k] \in Nat,
         NEW F, RunningSum(F, v, n), NEW i \in 1..n
  PROVE  F[n] >= v[i] /\ F[n] \in Nat
<1> DEFINE P == {k \in Nat : k <= n => F[k] >= 0 /\ (k >= i => F[k] >= v[i])}
<1>0. /\ F \in [0..n -> Int] /\ F[0] = 0
      /\ \A k \in 1..n : F[k] = F[k - 1] + v[k]
  BY DEF RunningSum
<1>1. 0 \in P
  BY <1>0
<1>2. ASSUME NEW k \in P PROVE k + 1 \in P
  <2>1. CASE k + 1 <= n
    <3>1. k \in Nat /\ k + 1 \in 1..n /\ k \in 0..n /\ (k + 1) - 1 = k
      BY <2>1
    <3>2. F[k + 1] = F[k] + v[k + 1] /\ v[k + 1] \in Nat /\ F[k] \in Int /\ v[i] \in Nat
      BY <3>1, <1>0
    <3>3. F[k] >= 0 /\ (k >= i => F[k] >= v[i])
      BY <3>1
    <3>4. k + 1 >= i => k >= i \/ i = k + 1
      BY <3>1
    <3>5. F[k + 1] >= 0 /\ (k + 1 >= i => F[k + 1] >= v[i])
      <4> HIDE DEF P
      <4> QED BY <3>2, <3>3, <3>4
    <3> QED BY <3>1, <3>5
  <2>2. CASE ~(k + 1 <= n)
    BY <2>2
  <2> QED BY <2>1, <2>2
<1>3. P = Nat
  <2>1. P \in SUBSET Nat
    OBVIOUS
  <2> HIDE DEF P
  <2> QED BY <1>1, <1>2, <2>1, Induction
<1>4. n <= n /\ n >= i
  OBVIOUS
<1>5. F[n] >= 0 /\ F[n] >= v[i]
  BY <1>3, <1>4
<1> QED
  BY <1>0, <1>5

(* w is v but for element i.                                               *)
Differs(w, v, n, i) == w[i] \in Int /\ \A k \in 1..n : k # i => w[k] = v[k]

(* Changing one number changes the sum by as much.                         *)
LEMMA RunningSumUpdate ==
  ASSUME NEW n \in Nat, NEW v, Whole(v, 1..n),
         NEW i \in 1..n, NEW w, Differs(w, v, n, i),
         NEW F, RunningSum(F, v, n)
  PROVE  \E G : RunningSum(G, w, n) /\ G[n] = F[n] + w[i] - v[i]
<1> USE DEF Whole, Differs
<1> DEFINE G == [k \in 0..n |-> IF k < i THEN F[k] ELSE F[k] + (w[i] - v[i])]
<1>0. /\ F \in [0..n -> Int] /\ F[0] = 0
      /\ \A k \in 1..n : F[k] = F[k - 1] + v[k]
  BY DEF RunningSum
<1>1. \A k \in 0..n : G[k] \in Int /\ G[k] = IF k < i THEN F[k] ELSE F[k] + (w[i] - v[i])
  <2>1. w[i] \in Int /\ v[i] \in Int /\ w[i] - v[i] \in Int
    OBVIOUS
  <2> QED BY <1>0, <2>1
<1>2. G \in [0..n -> Int]
  BY <1>1
<1> HIDE DEF G
<1>3. \A k \in 1..n : G[k] = G[k - 1] + w[k]
  <2> TAKE k \in 1..n
  <2>1. k \in 0..n /\ k - 1 \in 0..n /\ F[k] = F[k - 1] + v[k] /\ v[k] \in Int /\ F[k - 1] \in Int
    BY <1>0
  <2>2. CASE k < i
    BY <2>1, <2>2, <1>1
  <2>3. CASE k = i
    BY <2>1, <2>3, <1>1
  <2>4. CASE k > i
    BY <2>1, <2>4, <1>1
  <2> QED BY <2>2, <2>3, <2>4
<1>4. G[0] = 0 /\ G[n] = F[n] + w[i] - v[i]
  BY <1>0, <1>1
<1> QED
  BY <1>2, <1>3, <1>4 DEF RunningSum

(* w is v without element i.                                               *)
Skips(w, v, n, i) ==
  \A k \in 1..(n - 1) : w[k] = IF k < i THEN v[k] ELSE v[k + 1]

(* Dropping one number takes it off the sum.                               *)
LEMMA RunningSumRemove ==
  ASSUME NEW n \in Nat, NEW v, Whole(v, 1..n),
         NEW i \in 1..n, NEW w,
         Skips(w, v, n, i),
         NEW F, RunningSum(F, v, n)
  PROVE  \E G : RunningSum(G, w, n - 1) /\ G[n - 1] = F[n] - v[i]
<1> USE DEF Whole, Skips
<1> DEFINE G == [k \in 0..(n - 1) |-> IF k < i THEN F[k] ELSE F[k + 1] - v[i]]
<1>0. /\ F \in [0..n -> Int] /\ F[0] = 0
      /\ \A k \in 1..n : F[k] = F[k - 1] + v[k]
  BY DEF RunningSum
<1>1. \A k \in 0..(n - 1) : G[k] \in Int /\ G[k] = IF k < i THEN F[k] ELSE F[k + 1] - v[i]
  <2> TAKE k \in 0..(n - 1)
  <2>1. k \in 0..n /\ k + 1 \in 0..n
    OBVIOUS
  <2>2. F[k] \in Int /\ F[k + 1] \in Int
    BY <1>0, <2>1
  <2> QED BY <2>2
<1>2. G \in [0..(n - 1) -> Int]
  BY <1>1
<1> HIDE DEF G
<1>3. \A k \in 1..(n - 1) : G[k] = G[k - 1] + w[k]
  <2> TAKE k \in 1..(n - 1)
  <2>1. /\ k \in 0..(n - 1) /\ k - 1 \in 0..(n - 1) /\ k + 1 \in 1..n /\ k \in 1..n
        /\ (k + 1) - 1 = k /\ (k - 1) + 1 = k
    OBVIOUS
  <2>2. F[k] = F[k - 1] + v[k] /\ F[k + 1] = F[k] + v[k + 1]
    BY <1>0, <2>1
  <2>3. F[k] \in Int /\ F[k - 1] \in Int /\ F[k + 1] \in Int /\ v[k] \in Int /\ v[k + 1] \in Int
    BY <1>0, <2>1
  <2>4. CASE k < i
    BY <2>1, <2>2, <2>3, <2>4, <1>1
  <2>5. CASE k = i
    <3>1. G[k] = F[k + 1] - v[i] /\ G[k - 1] = F[k - 1] /\ w[k] = v[k + 1]
      BY <2>1, <2>5, <1>1
    <3> QED BY <3>1, <2>2, <2>3, <2>5
  <2>6. CASE k > i
    <3>1. G[k] = F[k + 1] - v[i] /\ G[k - 1] = F[k] - v[i] /\ w[k] = v[k + 1]
      BY <2>1, <2>6, <1>1
    <3> QED BY <3>1, <2>2, <2>3
  <2> QED BY <2>4, <2>5, <2>6
<1>4. G[0] = 0 /\ G[n - 1] = F[n] - v[i]
  <2>1. CASE n - 1 < i
    <3>1. n = i /\ G[n - 1] = F[n - 1] /\ F[n] = F[n - 1] + v[n] /\ F[n - 1] \in Int
      BY <2>1, <1>0, <1>1
    <3> QED BY <3>1, <1>0, <1>1
  <2>2. CASE ~(n - 1 < i)
    <3>1. n - 1 \in 0..(n - 1) /\ (n - 1) + 1 = n
      OBVIOUS
    <3>2. G[n - 1] = F[n] - v[i]
      BY <2>2, <3>1, <1>1
    <3> QED BY <3>2, <1>0, <1>1
  <2>3. G[0] = 0
    BY <1>0, <1>1
  <2>4. n - 1 < i => G[n - 1] = F[n] - v[i]
    BY <2>1
  <2> QED BY <2>2, <2>3, <2>4
<1> QED
  BY <1>2, <1>3, <1>4 DEF RunningSum

(* A number more adds to the sum.                                          *)
LEMMA RunningSumAppend ==
  ASSUME NEW n \in Nat, NEW v, Whole(v, 1..n),
         NEW w, \A k \in 1..n : w[k] = v[k], w[n + 1] \in Int,
         NEW F, RunningSum(F, v, n)
  PROVE  \E G : RunningSum(G, w, n + 1) /\ G[n + 1] = F[n] + w[n + 1]
<1> USE DEF Whole
<1> DEFINE G == [k \in 0..(n + 1) |-> IF k <= n THEN F[k] ELSE F[n] + w[n + 1]]
<1>0. /\ F \in [0..n -> Int] /\ F[0] = 0
      /\ \A k \in 1..n : F[k] = F[k - 1] + v[k]
  BY DEF RunningSum
<1>1. \A k \in 0..(n + 1) : G[k] \in Int /\ G[k] = IF k <= n THEN F[k] ELSE F[n] + w[n + 1]
  BY <1>0
<1>2. G \in [0..(n + 1) -> Int]
  BY <1>1
<1> HIDE DEF G
<1>3. \A k \in 1..(n + 1) : G[k] = G[k - 1] + w[k]
  <2> TAKE k \in 1..(n + 1)
  <2>1. CASE k <= n
    BY <2>1, <1>0, <1>1
  <2>2. CASE k = n + 1
    BY <2>2, <1>0, <1>1
  <2> QED BY <2>1, <2>2
<1>4. G[0] = 0 /\ G[n + 1] = F[n] + w[n + 1]
  BY <1>0, <1>1
<1> QED
  BY <1>2, <1>3, <1>4 DEF RunningSum

(* The sum of what f gives the elements of q, as the books and the nodes   *)
(* fold it over a level's queue.                                           *)
Added(q, f) == FoldLeft(LAMBDA x, i : x + f[i], 0, q)

(* What FoldLeft iterates in Added                                         *)
Adds(g, n, q, f) == g = [T \in SUBSET (1..n) |->
                           IF T = {} THEN 0 ELSE g[T \ {Max(T)}] + f[q[Max(T)]]]

(* v lists the numbers that f gives the first n elements of q.             *)
Gives(v, q, f, n) == \A k \in 1..n : v[k] = f[q[k]]

(* What Added iterates is a running sum.                                   *)
LEMMA AddsFolds ==
  ASSUME NEW n \in Nat, NEW q, NEW f, NEW v, Whole(v, 1..n), Gives(v, q, f, n)
  PROVE  \E F : RunningSum(F, v, n) /\ F[n] = (CHOOSE g : Adds(g, n, q, f))[1..n]
<1> USE DEF Gives
<1>0. \A k \in 1..n : f[q[k]] \in Int
  BY DEF Whole
<1> DEFINE step == [k \in 1..n |-> [x \in Int |-> x + f[q[k]]]]
           iter == CHOOSE g : Adds(g, n, q, f)
<1>1. IsStep(step, n, Int)
  BY <1>0 DEF IsStep
<1>2. \A k \in 1..n, x \in Int : step[k][x] = x + f[q[k]]
  BY <1>0
<1>3. 0 \in Int
  OBVIOUS
<1> HIDE DEF step
<1>4. PICK g \in [SUBSET (1..n) -> Int] : FoldsUp(g, n, Int, 0, step)
  BY <1>1, <1>3, FoldExists, Zenon
<1>5. Adds(g, n, q, f)
  <2>1. ASSUME NEW T \in SUBSET (1..n)
        PROVE  g[T] = IF T = {} THEN 0 ELSE g[T \ {Max(T)}] + f[q[Max(T)]]
    <3>1. CASE T # {}
      <4>1. Max(T) \in 1..n
        BY <3>1, MaxOfPart
      <4>2. T \ {Max(T)} \in SUBSET (1..n)
        OBVIOUS
      <4>3. g[T \ {Max(T)}] \in Int
        BY <4>2
      <4>4. g[T] = step[Max(T)][g[T \ {Max(T)}]]
        BY <1>4, <3>1, <4>3, Zenon DEF FoldsUp
      <4> QED BY <3>1, <4>1, <4>3, <4>4, <1>0, <1>2
    <3>2. CASE T = {}
      BY <3>2, <1>4 DEF FoldsUp
    <3> QED BY <3>1, <3>2
  <2> QED BY <2>1 DEF Adds
<1>6. Adds(iter, n, q, f)
  BY <1>5, Zenon
<1>7. \A T \in SUBSET (1..n) :
        iter[T] = IF T = {} THEN 0 ELSE iter[T \ {Max(T)}] + f[q[Max(T)]]
  <2> HIDE DEF iter
  <2> QED BY <1>6 DEF Adds
<1> HIDE DEF iter
<1>8. FoldsUp(iter, n, Int, 0, step)
  <2>1. \A T \in SUBSET (1..n) : T # {} => Max(T) \in 1..n
    BY MaxOfPart
  <2>2. \A T \in SUBSET (1..n) :
          T # {} /\ iter[T \ {Max(T)}] \in Int
            => iter[T] = step[Max(T)][iter[T \ {Max(T)}]]
    <3> TAKE T \in SUBSET (1..n)
    <3> HAVE T # {} /\ iter[T \ {Max(T)}] \in Int
    <3>1. iter[T] = iter[T \ {Max(T)}] + f[q[Max(T)]]
      BY <1>7
    <3>2. Max(T) \in 1..n
      BY <2>1
    <3> QED BY <1>2, <3>1, <3>2
  <2>3. iter[{}] = 0
    BY <1>7
  <2> QED BY <2>2, <2>3 DEF FoldsUp
<1>9. PICK F : Steps(F, n, Int, 0, step) /\ iter[1..n] = F[n]
  BY <1>1, <1>3, <1>8, FoldPrefixes
<1>10. F \in [0..n -> Int] /\ F[0] = 0 /\ \A k \in 1..n : F[k] = step[k][F[k - 1]]
  BY <1>9 DEF Steps
<1>11. \A k \in 1..n : F[k] = F[k - 1] + f[q[k]]
  <2> TAKE k \in 1..n
  <2>1. k - 1 \in 0..n
    OBVIOUS
  <2>2. F[k - 1] \in Int
    BY <1>10, <2>1
  <2> QED BY <2>2, <1>2, <1>10
<1> QED
  BY <1>9, <1>10, <1>11 DEF iter, RunningSum

(* Added is the sum of the numbers that f gives the elements of the queue. *)
LEMMA AddedIsRunningSum ==
  ASSUME NEW S, NEW q \in Seq(S), NEW f, Whole(f, S), NEW v, Gives(v, q, f, Len(q))
  PROVE  \E F : RunningSum(F, v, Len(q)) /\ Added(q, f) = F[Len(q)]
<1>1. Len(q) \in Nat /\ DOMAIN q = 1..Len(q) /\ \A k \in 1..Len(q) : q[k] \in S
  BY LenProperties, ElementOfSeq
<1>2. \A k \in 1..Len(q) : v[k] = f[q[k]]
  BY DEF Gives
<1>3. Whole(v, 1..Len(q))
  BY <1>1, <1>2 DEF Whole
<1>4. Added(q, f) = (CHOOSE g : Adds(g, Len(q), q, f))[1..Len(q)]
  BY <1>1 DEF Added, FoldLeft, MapThenFoldSet, Adds
<1> QED
  BY <1>1, <1>3, <1>4, AddsFolds

(* An empty queue adds up to nothing.                                      *)
LEMMA AddedEmpty ==
  ASSUME NEW f
  PROVE  Added(<<>>, f) = 0
<1>1. <<>> \in Seq({}) /\ Len(<<>>) = 0 /\ Whole(f, {}) /\ Gives(f, <<>>, f, Len(<<>>))
  BY DEF Whole, Gives
<1>2. PICK F : RunningSum(F, f, 0) /\ Added(<<>>, f) = F[0]
  BY <1>1, AddedIsRunningSum
<1> QED
  BY <1>2 DEF RunningSum

(* A queue adds up to at least each of its elements.                       *)
LEMMA AddedMember ==
  ASSUME NEW S, NEW q \in Seq(S), NEW f, \A x \in S : f[x] \in Nat, NEW i \in DOMAIN q
  PROVE  Added(q, f) \in Nat /\ Added(q, f) >= f[q[i]]
<1> DEFINE n == Len(q)
           v == [k \in 1..Len(q) |-> f[q[k]]]
<1>0. n \in Nat /\ i \in 1..n /\ \A k \in 1..n : q[k] \in S
  BY LenProperties, ElementOfSeq
<1>1. \A k \in 1..n : v[k] = f[q[k]] /\ v[k] \in Nat
  BY <1>0
<1>2. Gives(v, q, f, Len(q)) /\ Whole(f, S)
  BY <1>1 DEF Gives, Whole
<1> HIDE DEF v
<1>3. PICK F : RunningSum(F, v, n) /\ Added(q, f) = F[n]
  BY <1>2, AddedIsRunningSum
<1> HIDE DEF n
<1>4. F[n] >= v[i] /\ F[n] \in Nat
  BY <1>0, <1>1, <1>3, RunningSumMember
<1> QED
  BY <1>0, <1>1, <1>3, <1>4

(* g is f but for element i of q.                                          *)
AgreeBut(g, f, q, i) == \A k \in DOMAIN q : k # i => g[q[k]] = f[q[k]]

(* Changing one element of a queue changes what the queue adds up to by as *)
(* much.                                                                   *)
LEMMA AddedUpdate ==
  ASSUME NEW S, NEW q \in Seq(S), NEW f, Whole(f, S), NEW g, Whole(g, S),
         NEW i \in DOMAIN q, AgreeBut(g, f, q, i)
  PROVE  Added(q, g) = Added(q, f) + g[q[i]] - f[q[i]]
<1> DEFINE n == Len(q)
           v == [k \in 1..Len(q) |-> f[q[k]]]
           w == [k \in 1..Len(q) |-> g[q[k]]]
<1>0. n \in Nat /\ DOMAIN q = 1..n /\ i \in 1..n /\ \A k \in 1..n : q[k] \in S
  BY LenProperties, ElementOfSeq
<1>1. \A k \in 1..n : /\ v[k] = f[q[k]] /\ w[k] = g[q[k]] /\ v[k] \in Int /\ w[k] \in Int
                      /\ k # i => w[k] = v[k]
  BY <1>0 DEF Whole, AgreeBut
<1>2. Gives(v, q, f, Len(q)) /\ Gives(w, q, g, Len(q)) /\ Whole(v, 1..n) /\ Whole(w, 1..n)
  BY <1>1 DEF Gives, Whole
<1> HIDE DEF v, w
<1>3. PICK F : RunningSum(F, v, n) /\ Added(q, f) = F[n]
  BY <1>2, AddedIsRunningSum
<1>4. PICK G : RunningSum(G, w, n) /\ Added(q, g) = G[n]
  BY <1>2, AddedIsRunningSum
<1> HIDE DEF n
<1>7. Differs(w, v, n, i)
  BY <1>0, <1>1 DEF Differs
<1>5. PICK H : RunningSum(H, w, n) /\ H[n] = F[n] + w[i] - v[i]
  BY <1>0, <1>2, <1>3, <1>7, RunningSumUpdate
<1>6. H[n] = G[n]
  BY <1>0, <1>2, <1>4, <1>5, RunningSumUnique
<1> QED
  BY <1>0, <1>1, <1>3, <1>4, <1>5, <1>6

(* Only the elements of a queue count.                                     *)
LEMMA AddedAgree ==
  ASSUME NEW S, NEW q \in Seq(S), NEW f, Whole(f, S),
         NEW g, \A k \in DOMAIN q : g[q[k]] = f[q[k]]
  PROVE  Added(q, g) = Added(q, f)
<1> DEFINE n == Len(q)
           v == [k \in 1..Len(q) |-> f[q[k]]]
           R == {q[k] : k \in 1..n}
<1>0. n \in Nat /\ DOMAIN q = 1..n /\ \A k \in 1..n : q[k] \in S
  BY LenProperties, ElementOfSeq
<1>1. \A k \in 1..n : v[k] = f[q[k]] /\ v[k] = g[q[k]] /\ v[k] \in Int
  BY <1>0 DEF Whole
<1>2. q \in Seq(R)
  BY <1>0, SeqDef
<1>3. Whole(f, R) /\ Whole(g, R) /\ Whole(v, 1..n)
  BY <1>0, <1>1 DEF Whole
<1>4. Gives(v, q, f, Len(q)) /\ Gives(v, q, g, Len(q))
  BY <1>1 DEF Gives
<1> HIDE DEF R, v
<1>5. PICK F : RunningSum(F, v, n) /\ Added(q, f) = F[n]
  BY <1>2, <1>3, <1>4, AddedIsRunningSum
<1>6. PICK G : RunningSum(G, v, n) /\ Added(q, g) = G[n]
  BY <1>2, <1>3, <1>4, AddedIsRunningSum
<1> HIDE DEF n
<1>7. F[n] = G[n]
  BY <1>0, <1>3, <1>5, <1>6, RunningSumUnique
<1> QED
  BY <1>5, <1>6, <1>7

(* Joining the back of a queue adds to its sum.                            *)
LEMMA AddedAppend ==
  ASSUME NEW S, NEW q \in Seq(S), NEW f, Whole(f, S), NEW a \in S
  PROVE  Added(Append(q, a), f) = Added(q, f) + f[a]
<1> DEFINE n == Len(q)
           r == Append(q, a)
           w == [k \in 1..(n + 1) |-> f[r[k]]]
<1>0. n \in Nat /\ n + 1 \in Nat /\ \A k \in 1..n : q[k] \in S
  BY LenProperties, ElementOfSeq
<1>1. r \in Seq(S) /\ Len(r) = n + 1 /\ r[n + 1] = a /\ \A k \in 1..n : r[k] = q[k]
  BY AppendProperties
<1> HIDE DEF r, n
<1>2. \A k \in 1..(n + 1) : k \in 1..n \/ k = n + 1
  BY <1>0
<1>3. \A k \in 1..(n + 1) : w[k] = f[r[k]] /\ r[k] \in S /\ w[k] \in Int
  BY <1>0, <1>1, <1>2 DEF Whole
<1>4. /\ \A k \in 1..n : k \in 1..(n + 1)
      /\ n + 1 \in 1..(n + 1)
  BY <1>0
<1>5. /\ \A k \in 1..n : w[k] = f[q[k]]
      /\ w[n + 1] = f[a] /\ f[a] \in Int
  BY <1>1, <1>3, <1>4
<1> HIDE DEF w
<1>6. Gives(w, q, f, Len(q)) /\ Gives(w, r, f, Len(r)) /\ Whole(w, 1..n)
  BY <1>1, <1>3, <1>4, <1>5 DEF Gives, Whole, n
<1>61. Whole(w, 1..(n + 1))
  BY <1>3 DEF Whole
<1>7. PICK F : RunningSum(F, w, n) /\ Added(q, f) = F[n]
  BY <1>6, AddedIsRunningSum DEF n
<1>8. PICK G : RunningSum(G, w, n + 1) /\ Added(r, f) = G[n + 1]
  <2>1. \E G : RunningSum(G, w, Len(r)) /\ Added(r, f) = G[Len(r)]
    BY <1>1, <1>6, AddedIsRunningSum
  <2> QED BY <2>1, <1>1
<1>9. PICK H : RunningSum(H, w, n + 1) /\ H[n + 1] = F[n] + w[n + 1]
  BY <1>0, <1>5, <1>6, <1>7, RunningSumAppend
<1>10. H[n + 1] = G[n + 1]
  BY <1>0, <1>61, <1>8, <1>9, RunningSumUnique
<1> QED
  BY <1>5, <1>7, <1>8, <1>9, <1>10 DEF r

(* Leaving a queue takes off its sum.                                      *)
LEMMA AddedRemove ==
  ASSUME NEW S, NEW q \in Seq(S), NEW f, Whole(f, S), NEW i \in DOMAIN q
  PROVE  Added(RemoveAt(q, i), f) = Added(q, f) - f[q[i]]
<1> DEFINE n == Len(q)
           r == RemoveAt(q, i)
           v == [k \in 1..n |-> f[q[k]]]
           w == [k \in 1..(n - 1) |-> f[r[k]]]
<1>0. n \in Nat /\ i \in 1..n /\ n - 1 \in Nat /\ \A k \in 1..n : q[k] \in S
  BY LenProperties, ElementOfSeq
<1>1. r \in Seq(S) /\ Len(r) = n - 1
      /\ \A k \in DOMAIN r : r[k] = IF k < i THEN q[k] ELSE q[k + 1]
  BY RemoveAtProperties
<1> HIDE DEF r
<1>2. DOMAIN r = 1..(n - 1)
  BY <1>1, LenProperties
<1>3. \A k \in 1..n : v[k] = f[q[k]] /\ v[k] \in Int
  BY <1>0 DEF Whole
<1>4. \A k \in 1..(n - 1) : k \in 1..n /\ k + 1 \in 1..n
  BY <1>0
<1>5. \A k \in 1..(n - 1) : w[k] = f[r[k]]
  OBVIOUS
<1>6. Gives(v, q, f, Len(q)) /\ Gives(w, r, f, Len(r))
  BY <1>1, <1>3, <1>5 DEF Gives
<1> HIDE DEF v, w
<1>7. ASSUME NEW k \in 1..(n - 1) PROVE w[k] = IF k < i THEN v[k] ELSE v[k + 1]
  <2>1. r[k] = IF k < i THEN q[k] ELSE q[k + 1]
    BY <1>1, <1>2
  <2>2. w[k] = f[r[k]] /\ v[k] = f[q[k]] /\ v[k + 1] = f[q[k + 1]]
    BY <1>3, <1>4, <1>5
  <2> QED BY <2>1, <2>2
<1>8. Skips(w, v, n, i) /\ Whole(v, 1..n) /\ Whole(w, 1..(n - 1))
  BY <1>3, <1>4, <1>7 DEF Skips, Whole
<1>9. PICK F : RunningSum(F, v, n) /\ Added(q, f) = F[n]
  BY <1>6, AddedIsRunningSum
<1>10. PICK G : RunningSum(G, w, n - 1) /\ Added(r, f) = G[n - 1]
  <2>1. \E G : RunningSum(G, w, Len(r)) /\ Added(r, f) = G[Len(r)]
    BY <1>1, <1>6, AddedIsRunningSum
  <2> QED BY <2>1, <1>1
<1> HIDE DEF n
<1>11. PICK H : RunningSum(H, w, n - 1) /\ H[n - 1] = F[n] - v[i]
  BY <1>0, <1>8, <1>9, RunningSumRemove
<1>12. H[n - 1] = G[n - 1]
  BY <1>0, <1>8, <1>10, <1>11, RunningSumUnique
<1> QED
  BY <1>0, <1>3, <1>9, <1>10, <1>11, <1>12 DEF r

(* The sum of what g gives the elements of P, as ExecutableQuantity adds   *)
(* up level totals.                                                        *)
SetSum(g, P) == MapThenSumSet(LAMBDA p : g[p], P)

(* F adds up the numbers of g over each part of S.                         *)
SetSums(F, S, g) ==
  /\ F \in [SUBSET S -> Int]
  /\ F[{}] = 0
  /\ \A T \in SUBSET S : \A x \in T : F[T] = F[T \ {x}] + g[x]

(* what MapThenFoldSet iterates in SetSum                                  *)
SumsUp(f, S, g) ==
  f = [T \in SUBSET S |->
         IF T = {} THEN 0
         ELSE g[CHOOSE x \in T : TRUE] + f[T \ {CHOOSE x \in T : TRUE}]]

(* The function SetSum iterates exists.                                    *)
LEMMA SumsUpExists ==
  ASSUME NEW S, IsFiniteSet(S), NEW g, Whole(g, S)
  PROVE  \E f : SumsUp(f, S, g)
<1> DEFINE pick == [T \in SUBSET S |-> CHOOSE x \in T : TRUE]
           step == [x \in S |-> [m \in Int |-> g[x] + m]]
<1>1. Picks(pick, S) /\ \A T \in SUBSET S : pick[T] = CHOOSE x \in T : TRUE
  BY DEF Picks
<1>2. \A x \in S : g[x] \in Int
  BY DEF Whole
<1>3. step \in [S -> [Int -> Int]] /\ \A x \in S, m \in Int : step[x][m] = g[x] + m
  BY <1>2
<1> HIDE DEF pick, step
<1>4. PICK f \in [SUBSET S -> Int] : Folds(f, S, 0, pick, step)
  <2>1. 0 \in Int
    OBVIOUS
  <2>2. Picks(pick, S)
    BY <1>1
  <2>3. step \in [S -> [Int -> Int]]
    BY <1>3
  <2> QED BY <2>1, <2>2, <2>3, SubsetRecursion, Zenon
<1>5. ASSUME NEW T \in SUBSET S
      PROVE  f[T] = IF T = {} THEN 0
                    ELSE g[CHOOSE x \in T : TRUE] + f[T \ {CHOOSE x \in T : TRUE}]
  <2>1. f[T] = IF T = {} THEN 0 ELSE step[pick[T]][f[T \ {pick[T]}]]
    BY <1>4, Zenon DEF Folds
  <2>2. CASE T # {}
    <3>1. pick[T] \in S /\ f[T \ {pick[T]}] \in Int
      BY <1>1, <2>2 DEF Picks
    <3>2. f[T] = g[pick[T]] + f[T \ {pick[T]}]
      BY <1>3, <2>1, <2>2, <3>1
    <3> QED BY <1>1, <2>2, <3>2
  <2> QED BY <2>1, <2>2
<1>6. SumsUp(f, S, g)
  BY <1>5 DEF SumsUp
<1> QED
  BY <1>6

(* SetSum adds up the numbers of g, whichever element is taken first.      *)
LEMMA SetSumIsSum ==
  ASSUME NEW S, IsFiniteSet(S), NEW g, Whole(g, S)
  PROVE  \E F : SetSums(F, S, g) /\ SetSum(g, S) = F[S]
<1> DEFINE F == CHOOSE f : SumsUp(f, S, g)
<1>0. \A x \in S : g[x] \in Int
  BY DEF Whole
<1>1. SumsUp(F, S, g)
  BY SumsUpExists, Zenon
<1>2. SetSum(g, S) = F[S]
  BY DEF SetSum, MapThenSumSet, MapThenFoldSet, SumsUp
<1> HIDE DEF F
<1>3. /\ F = [T \in SUBSET S |-> F[T]]
      /\ F[{}] = 0
      /\ \A T \in SUBSET S : T # {} => \E c \in T : F[T] = g[c] + F[T \ {c}]
  <2>1. \A T \in SUBSET S :
          F[T] = IF T = {} THEN 0
                 ELSE g[CHOOSE x \in T : TRUE] + F[T \ {CHOOSE x \in T : TRUE}]
    BY <1>1 DEF SumsUp
  <2>2. F = [T \in SUBSET S |-> F[T]]
    BY <1>1 DEF SumsUp
  <2>3. F[{}] = 0
    BY <2>1
  <2>4. ASSUME NEW T \in SUBSET S, T # {} PROVE \E c \in T : F[T] = g[c] + F[T \ {c}]
    BY <2>1, <2>4
  <2> QED BY <2>2, <2>3, <2>4
<1>4. \A T \in SUBSET S : F[T] \in Int
  <2> DEFINE P == {T \in SUBSET S : F[T] \in Int}
  <2>1. ASSUME NEW T \in SUBSET S, \A x \in T : T \ {x} \in P PROVE T \in P
    <3>1. CASE T = {}
      BY <3>1, <1>3
    <3>2. CASE T # {}
      <4>1. PICK c \in T : F[T] = g[c] + F[T \ {c}]
        BY <3>2, <1>3
      <4>2. F[T \ {c}] \in Int /\ g[c] \in Int
        BY <1>0, <2>1
      <4> QED BY <4>1, <4>2
    <3> QED BY <3>1, <3>2
  <2>2. P \in SUBSET SUBSET S
    OBVIOUS
  <2> HIDE DEF P
  <2>3. \A T \in SUBSET S : T \in P
    BY <2>1, <2>2, SubsetInduction
  <2> QED BY <2>3 DEF P
<1>5. \A T \in SUBSET S : \A x \in T : F[T] = F[T \ {x}] + g[x]
  <2> DEFINE P == {T \in SUBSET S : \A x \in T : F[T] = F[T \ {x}] + g[x]}
  <2>1. ASSUME NEW T \in SUBSET S, \A x \in T : T \ {x} \in P PROVE T \in P
    <3>1. ASSUME NEW x \in T PROVE F[T] = F[T \ {x}] + g[x]
      <4>1. PICK c \in T : F[T] = g[c] + F[T \ {c}]
        BY <1>3
      <4>2. F[T \ {c}] \in Int /\ g[c] \in Int /\ g[x] \in Int
        BY <1>0, <1>4
      <4>3. CASE c = x
        BY <4>1, <4>2, <4>3
      <4>4. CASE c # x
        <5>1. x \in T \ {c} /\ c \in T \ {x} /\ (T \ {c}) \ {x} = (T \ {x}) \ {c}
          BY <4>4
        <5>2. F[T \ {c}] = F[(T \ {c}) \ {x}] + g[x]
          BY <2>1, <5>1
        <5>3. F[T \ {x}] = F[(T \ {x}) \ {c}] + g[c]
          BY <2>1, <5>1
        <5>4. F[(T \ {c}) \ {x}] \in Int
          BY <1>4
        <5>5. F[(T \ {c}) \ {x}] = F[(T \ {x}) \ {c}]
          BY <5>1
        <5>6. F[T \ {c}] = F[(T \ {x}) \ {c}] + g[x]
          BY <5>2, <5>5
        <5>7. F[(T \ {x}) \ {c}] \in Int
          BY <5>4, <5>5
        <5> DEFINE u == F[(T \ {x}) \ {c}]
        <5>8. u \in Int /\ F[T] = g[c] + (u + g[x]) /\ F[T \ {x}] = u + g[c]
          BY <4>1, <5>3, <5>6, <5>7
        <5> HIDE DEF P, u
        <5> QED BY <4>2, <5>8
      <4> QED BY <4>3, <4>4
    <3> QED BY <3>1
  <2>2. P \in SUBSET SUBSET S
    OBVIOUS
  <2> HIDE DEF P
  <2>3. \A T \in SUBSET S : T \in P
    BY <2>1, <2>2, SubsetInduction
  <2> QED BY <2>3 DEF P
<1>6. F \in [SUBSET S -> Int]
  BY <1>3, <1>4
<1> QED
  BY <1>2, <1>3, <1>5, <1>6 DEF SetSums

(* The sum over a set does not depend on the order.                        *)
LEMMA SetSumsUnique ==
  ASSUME NEW S, IsFiniteSet(S), NEW g, Whole(g, S),
         NEW F, SetSums(F, S, g), NEW G, SetSums(G, S, g)
  PROVE  F[S] = G[S]
<1> DEFINE P == {T \in SUBSET S : F[T] = G[T]}
<1>1. ASSUME NEW T \in SUBSET S, \A x \in T : T \ {x} \in P PROVE T \in P
  <2>1. CASE T = {}
    BY <2>1 DEF SetSums
  <2>2. CASE T # {}
    <3>1. PICK x \in T : TRUE
      BY <2>2
    <3>2. F[T] = F[T \ {x}] + g[x] /\ G[T] = G[T \ {x}] + g[x]
      BY DEF SetSums
    <3>3. F[T \ {x}] = G[T \ {x}]
      BY <1>1
    <3> QED BY <3>2, <3>3
  <2> QED BY <2>1, <2>2
<1>2. P \in SUBSET SUBSET S
  OBVIOUS
<1> HIDE DEF P
<1>3. \A T \in SUBSET S : T \in P
  BY <1>1, <1>2, SubsetInduction
<1> QED
  BY <1>3 DEF P

(* Nothing adds up to nothing.                                             *)
LEMMA SetSumEmpty == ASSUME NEW g PROVE SetSum(g, {}) = 0
<1>1. IsFiniteSet({}) /\ Whole(g, {})
  BY FS_EmptySet DEF Whole
<1>2. PICK F : SetSums(F, {}, g) /\ SetSum(g, {}) = F[{}]
  BY <1>1, SetSumIsSum
<1> QED
  BY <1>2 DEF SetSums

(* A sum of naturals over a set is at least each of them.                  *)
LEMMA SetSumMember ==
  ASSUME NEW S, IsFiniteSet(S), NEW g, \A x \in S : g[x] \in Nat
  PROVE  SetSum(g, S) \in Nat /\ \A x \in S : SetSum(g, S) >= g[x]
<1>1. Whole(g, S)
  BY DEF Whole
<1>2. PICK F : SetSums(F, S, g) /\ SetSum(g, S) = F[S]
  BY <1>1, SetSumIsSum
<1>3. \A T \in SUBSET S : F[T] \in Nat
  <2> DEFINE Q == {T \in SUBSET S : F[T] \in Nat}
  <2>1. ASSUME NEW T \in SUBSET S, \A x \in T : T \ {x} \in Q PROVE T \in Q
    <3>1. CASE T = {}
      BY <3>1, <1>2 DEF SetSums
    <3>2. CASE T # {}
      <4>1. PICK x \in T : TRUE
        BY <3>2
      <4>2. F[T] = F[T \ {x}] + g[x]
        BY <1>2 DEF SetSums
      <4>3. F[T \ {x}] \in Nat /\ g[x] \in Nat
        BY <2>1
      <4> QED BY <4>2, <4>3
    <3> QED BY <3>1, <3>2
  <2>2. Q \in SUBSET SUBSET S
    OBVIOUS
  <2> HIDE DEF Q
  <2>3. \A T \in SUBSET S : T \in Q
    BY <2>1, <2>2, SubsetInduction
  <2> QED BY <2>3 DEF Q
<1>4. ASSUME NEW x \in S PROVE F[S] >= g[x]
  <2>1. F[S] = F[S \ {x}] + g[x]
    BY <1>2 DEF SetSums
  <2>2. F[S \ {x}] \in Nat /\ g[x] \in Nat
    BY <1>3
  <2> QED BY <2>1, <2>2
<1> QED
  BY <1>2, <1>3, <1>4

(* Changing one number changes the sum over the set by as much.            *)
LEMMA SetSumUpdate ==
  ASSUME NEW S, IsFiniteSet(S), NEW g, Whole(g, S), NEW h, Whole(h, S),
         NEW x \in S, \A y \in S : y # x => h[y] = g[y]
  PROVE  SetSum(h, S) = SetSum(g, S) + h[x] - g[x]
<1> DEFINE d == h[x] - g[x]
<1>0. h[x] \in Int /\ g[x] \in Int /\ d \in Int /\ h[x] = g[x] + d
  BY DEF Whole
<1>1. PICK F : SetSums(F, S, g) /\ SetSum(g, S) = F[S]
  BY SetSumIsSum
<1>2. PICK G : SetSums(G, S, h) /\ SetSum(h, S) = G[S]
  BY SetSumIsSum
<1> HIDE DEF d
<1> DEFINE H == [T \in SUBSET S |-> F[T] + (IF x \in T THEN d ELSE 0)]
<1>3. \A T \in SUBSET S : F[T] \in Int /\ H[T] = F[T] + (IF x \in T THEN d ELSE 0)
  BY <1>1 DEF SetSums
<1>4. H \in [SUBSET S -> Int]
  <2>1. \A T \in SUBSET S : (IF x \in T THEN d ELSE 0) \in Int
    BY <1>0
  <2>2. \A T \in SUBSET S : F[T] + (IF x \in T THEN d ELSE 0) \in Int
    <3> TAKE T \in SUBSET S
    <3>1. F[T] \in Int /\ (IF x \in T THEN d ELSE 0) \in Int
      BY <1>3, <2>1
    <3> QED BY <3>1
  <2> QED BY <2>2
<1> HIDE DEF H
<1>5. ASSUME NEW T \in SUBSET S, NEW y \in T PROVE H[T] = H[T \ {y}] + h[y]
  <2>1. F[T] = F[T \ {y}] + g[y] /\ F[T \ {y}] \in Int /\ g[y] \in Int /\ h[y] \in Int
    BY <1>1, <1>3 DEF SetSums, Whole
  <2>2. H[T] = F[T] + (IF x \in T THEN d ELSE 0)
    BY <1>3
  <2>3. H[T \ {y}] = F[T \ {y}] + (IF x \in T \ {y} THEN d ELSE 0)
    BY <1>3
  <2>4. CASE y = x
    <3>1. H[T] = F[T] + d /\ H[T \ {y}] = F[T \ {y}] + 0
      BY <2>2, <2>3, <2>4
    <3> QED BY <2>1, <2>4, <3>1, <1>0
  <2>5. CASE y # x
    <3>1. h[y] = g[y] /\ (x \in T <=> x \in T \ {y})
      BY <2>5
    <3>2. CASE x \in T
      <4>1. H[T] = F[T] + d /\ H[T \ {y}] = F[T \ {y}] + d
        BY <2>2, <2>3, <3>1, <3>2
      <4> QED BY <2>1, <3>1, <4>1, <1>0
    <3>3. CASE x \notin T
      <4>1. H[T] = F[T] + 0 /\ H[T \ {y}] = F[T \ {y}] + 0
        BY <2>2, <2>3, <3>1, <3>3
      <4> QED BY <2>1, <3>1, <4>1
    <3> QED BY <3>2, <3>3
  <2> QED BY <2>4, <2>5
<1>6. H[{}] = 0 /\ H[S] = F[S] + d
  BY <1>1, <1>3 DEF SetSums
<1>7. SetSums(H, S, h)
  BY <1>4, <1>5, <1>6 DEF SetSums
<1>8. H[S] = G[S]
  BY <1>2, <1>7, SetSumsUnique
<1>9. F[S] \in Int
  BY <1>3
<1> QED
  BY <1>0, <1>1, <1>2, <1>6, <1>8, <1>9 DEF d

(* Taking one element out of the set takes its number off the sum.         *)
LEMMA SetSumRemove ==
  ASSUME NEW S, IsFiniteSet(S), NEW g, Whole(g, S), NEW x \in S
  PROVE  SetSum(g, S \ {x}) = SetSum(g, S) - g[x]
<1>1. PICK F : SetSums(F, S, g) /\ SetSum(g, S) = F[S]
  BY SetSumIsSum
<1>2. IsFiniteSet(S \ {x}) /\ Whole(g, S \ {x})
  BY FS_RemoveElement DEF Whole
<1>3. PICK G : SetSums(G, S \ {x}, g) /\ SetSum(g, S \ {x}) = G[S \ {x}]
  BY <1>2, SetSumIsSum
<1> DEFINE H == [T \in SUBSET (S \ {x}) |-> F[T]]
<1>4. SetSums(H, S \ {x}, g)
  <2>1. \A T \in SUBSET (S \ {x}) : T \in SUBSET S
    OBVIOUS
  <2>2. H \in [SUBSET (S \ {x}) -> Int] /\ H[{}] = 0
    BY <1>1, <2>1 DEF SetSums
  <2>3. \A T \in SUBSET (S \ {x}) : \A y \in T : H[T] = H[T \ {y}] + g[y]
    BY <1>1, <2>1 DEF SetSums
  <2> HIDE DEF H
  <2> QED BY <2>2, <2>3 DEF SetSums
<1>5. H[S \ {x}] = F[S \ {x}]
  OBVIOUS
<1> HIDE DEF H
<1>6. H[S \ {x}] = G[S \ {x}]
  BY <1>2, <1>3, <1>4, SetSumsUnique
<1>7. F[S] = F[S \ {x}] + g[x] /\ F[S \ {x}] \in Int /\ g[x] \in Int
  BY <1>1 DEF SetSums, Whole
<1>8. F[S \ {x}] = F[S] - g[x]
  BY <1>7
<1>9. SetSum(g, S \ {x}) = F[S \ {x}]
  BY <1>3, <1>5, <1>6
<1> QED
  BY <1>1, <1>8, <1>9

-----------------------------------------------------------------------------
(* Walks over a finite set, as folds.                                      *)

(* Every step from K leads into K.                                         *)
Stays(step, S, K) == \A x \in S, a \in K : step[x][a] \in K

(* A fold does not leave a set that no step leaves.                        *)
LEMMA FoldStays ==
  ASSUME NEW S, IsFiniteSet(S), NEW base, NEW pick, Picks(pick, S), NEW step,
         NEW f, Folds(f, S, base, pick, step), NEW K, base \in K, Stays(step, S, K)
  PROVE  f[S] \in K
<1> DEFINE P == {T \in SUBSET S : f[T] \in K}
<1>1. ASSUME NEW T \in SUBSET S, \A x \in T : T \ {x} \in P PROVE T \in P
  <2>1. f[T] = IF T = {} THEN base ELSE step[pick[T]][f[T \ {pick[T]}]]
    BY DEF Folds
  <2>2. CASE T # {}
    <3>1. pick[T] \in T /\ pick[T] \in S
      BY <2>2 DEF Picks
    <3>2. f[T \ {pick[T]}] \in K
      BY <3>1, <1>1
    <3>3. step[pick[T]][f[T \ {pick[T]}]] \in K
      BY <3>1, <3>2 DEF Stays
    <3> QED
      BY <2>1, <2>2, <3>3
  <2> QED
    BY <2>1, <2>2
<1>2. P \in SUBSET SUBSET S /\ S \in SUBSET S
  OBVIOUS
<1> HIDE DEF P
<1>3. \A T \in SUBSET S : T \in P
  BY <1>1, <1>2, SubsetInduction
<1> QED
  BY <1>2, <1>3 DEF P

(* step and other are the same on S, pick and other on its subsets.        *)
SameSteps(step, other, S) == \A x \in S : other[x] = step[x]
SamePicks(pick, other, S) == \A T \in SUBSET S : T # {} => other[T] = pick[T]

(* What a fold computes depends on what is picked and done with it only.   *)
LEMMA FoldSame ==
  ASSUME NEW S, IsFiniteSet(S), NEW base, NEW pick, Picks(pick, S), NEW step,
         NEW pick2, SamePicks(pick, pick2, S), NEW step2, SameSteps(step, step2, S),
         NEW f, Folds(f, S, base, pick, step), NEW g, Folds(g, S, base, pick2, step2)
  PROVE  g[S] = f[S]
<1> DEFINE P == {T \in SUBSET S : g[T] = f[T]}
<1>1. ASSUME NEW T \in SUBSET S, \A x \in T : T \ {x} \in P PROVE T \in P
  <2>1. /\ f[T] = IF T = {} THEN base ELSE step[pick[T]][f[T \ {pick[T]}]]
        /\ g[T] = IF T = {} THEN base ELSE step2[pick2[T]][g[T \ {pick2[T]}]]
    BY DEF Folds
  <2>2. CASE T # {}
    <3>1. pick[T] \in T /\ pick[T] \in S /\ pick2[T] = pick[T]
      BY <2>2 DEF Picks, SamePicks
    <3>2. g[T \ {pick[T]}] = f[T \ {pick[T]}]
      BY <3>1, <1>1
    <3>3. step2[pick[T]] = step[pick[T]]
      BY <3>1 DEF SameSteps
    <3> QED
      BY <2>1, <2>2, <3>1, <3>2, <3>3
  <2> QED
    BY <2>1, <2>2
<1>2. P \in SUBSET SUBSET S /\ S \in SUBSET S
  OBVIOUS
<1> HIDE DEF P
<1>3. \A T \in SUBSET S : T \in P
  BY <1>1, <1>2, SubsetInduction
<1> QED
  BY <1>2, <1>3 DEF P

(* With x in the set as without it, another element is picked.             *)
PicksLater(pick, other, S, x) ==
  \A T \in SUBSET (S \ {x}) : T # {} => pick[T \cup {x}] = other[T]

(* An element that is picked last of all is done with first: the fold of   *)
(* the others goes on from there.                                          *)
LEMMA FoldFromFront ==
  ASSUME NEW S, IsFiniteSet(S), NEW x \in S, NEW base, NEW rest,
         NEW pick, Picks(pick, S), NEW pick2, Picks(pick2, S \ {x}),
         PicksLater(pick, pick2, S, x),
         NEW step, NEW step2, SameSteps(step, step2, S \ {x}), step[x][base] = rest,
         NEW f, Folds(f, S, base, pick, step), NEW g, Folds(g, S \ {x}, rest, pick2, step2)
  PROVE  f[S] = g[S \ {x}]
<1> DEFINE R == S \ {x}
           P == {T \in SUBSET R : f[T \cup {x}] = g[T]}
<1>0. IsFiniteSet(R)
  BY FS_Subset
<1>1. ASSUME NEW T \in SUBSET R, \A y \in T : T \ {y} \in P PROVE T \in P
  <2> DEFINE U == T \cup {x}
  <2>0. U \in SUBSET S /\ U # {} /\ T \in SUBSET (S \ {x})
    OBVIOUS
  <2>1. /\ f[U] = step[pick[U]][f[U \ {pick[U]}]]
        /\ g[T] = IF T = {} THEN rest ELSE step2[pick2[T]][g[T \ {pick2[T]}]]
    BY <2>0 DEF Folds
  <2>2. CASE T = {}
    <3>1. pick[U] = x /\ U \ {x} = {} /\ {} \in SUBSET S
      BY <2>0, <2>2 DEF Picks
    <3>2. f[{}] = base
      BY <3>1 DEF Folds
    <3>3. f[U] = g[T]
      BY <2>1, <2>2, <3>1, <3>2
    <3> QED
      BY <3>3
  <2>3. CASE T # {}
    <3> DEFINE y == pick2[T]
    <3>1. y \in T /\ pick[U] = y
      BY <2>0, <2>3 DEF Picks, PicksLater
    <3>2. U \ {y} = (T \ {y}) \cup {x}
      BY <3>1
    <3>3. f[(T \ {y}) \cup {x}] = g[T \ {y}]
      BY <3>1, <1>1
    <3>4. step2[y] = step[y]
      BY <3>1 DEF SameSteps
    <3> HIDE DEF y, U, P
    <3>5. g[T] = step2[y][g[T \ {y}]]
      BY <2>1, <2>3 DEF y
    <3>6. f[U] = step[y][f[U \ {y}]]
      BY <2>1, <3>1
    <3>7. f[U] = g[T]
      BY <3>2, <3>3, <3>4, <3>5, <3>6
    <3> QED
      BY <3>7 DEF U, P
  <2> QED
    BY <2>2, <2>3
<1>2. P \in SUBSET SUBSET R /\ R \in SUBSET R /\ R \cup {x} = S
  OBVIOUS
<1> HIDE DEF P, R
<1>3. \A T \in SUBSET R : T \in P
  BY <1>0, <1>1, <1>2, SubsetInduction
<1>4. R \in P
  BY <1>2, <1>3
<1> QED
  BY <1>2, <1>4 DEF P, R

(* An element that is picked last of all and leads into a set that no      *)
(* other step leaves decides the fold.                                     *)
LEMMA FrontSettles ==
  ASSUME NEW S, IsFiniteSet(S), NEW x \in S, NEW base, NEW pick, Picks(pick, S),
         \A T \in SUBSET (S \ {x}) : T # {} => pick[T \cup {x}] \in T,
         NEW K, NEW step, Stays(step, S \ {x}, K), step[x][base] \in K,
         NEW f, Folds(f, S, base, pick, step)
  PROVE  f[S] \in K
<1> DEFINE R == S \ {x}
           P == {T \in SUBSET R : f[T \cup {x}] \in K}
<1>0. IsFiniteSet(R)
  BY FS_Subset
<1>1. ASSUME NEW T \in SUBSET R, \A y \in T : T \ {y} \in P PROVE T \in P
  <2> DEFINE U == T \cup {x}
  <2>0. U \in SUBSET S /\ U # {} /\ T \in SUBSET (S \ {x})
    OBVIOUS
  <2>1. f[U] = step[pick[U]][f[U \ {pick[U]}]]
    BY <2>0 DEF Folds
  <2>2. CASE T = {}
    <3>1. pick[U] = x /\ U \ {x} = {} /\ {} \in SUBSET S
      BY <2>0, <2>2 DEF Picks
    <3>2. f[{}] = base
      BY <3>1 DEF Folds
    <3>3. f[U] \in K
      BY <2>1, <2>2, <3>1, <3>2
    <3> QED
      BY <3>3
  <2>3. CASE T # {}
    <3> DEFINE y == pick[U]
    <3>1. y \in T
      BY <2>0, <2>3
    <3>2. U \ {y} = (T \ {y}) \cup {x} /\ y \in S \ {x}
      BY <3>1
    <3>3. f[(T \ {y}) \cup {x}] \in K
      BY <3>1, <1>1
    <3> HIDE DEF y, U, P
    <3>4. step[y][f[U \ {y}]] \in K
      BY <3>2, <3>3 DEF Stays
    <3>5. f[U] \in K
      BY <2>1, <3>4 DEF y
    <3> QED
      BY <3>5 DEF U, P
  <2> QED
    BY <2>2, <2>3
<1>2. P \in SUBSET SUBSET R /\ R \in SUBSET R /\ R \cup {x} = S
  OBVIOUS
<1> HIDE DEF P, R
<1>3. \A T \in SUBSET R : T \in P
  BY <1>0, <1>1, <1>2, SubsetInduction
<1>4. R \in P
  BY <1>2, <1>3
<1> QED
  BY <1>2, <1>4 DEF P, R

(* R ranks S: of two elements one is before the other, and not conversely. *)
Ranks(R, S) ==
  /\ \A x, y \in S : x # y => <<x, y>> \in R \/ <<y, x>> \in R
  /\ \A x, y, z \in S : <<x, y>> \in R /\ <<y, z>> \in R => <<x, z>> \in R
  /\ \A x, y \in S : <<x, y>> \in R => <<y, x>> \notin R

(* y is the last of T.                                                     *)
IsLast(R, T, y) == y \in T /\ \A x \in T \ {y} : <<x, y>> \in R

(* A finite set that is ranked has a last element.                         *)
LEMMA LastExists ==
  ASSUME NEW S, IsFiniteSet(S), NEW R, Ranks(R, S)
  PROVE  \A T \in SUBSET S : T # {} => \E y : IsLast(R, T, y)
<1> DEFINE P == {T \in SUBSET S : T # {} => \E y : IsLast(R, T, y)}
<1>1. ASSUME NEW T \in SUBSET S, \A x \in T : T \ {x} \in P PROVE T \in P
  <2> SUFFICES ASSUME T # {} PROVE \E y : IsLast(R, T, y)
    OBVIOUS
  <2>1. PICK x \in T : TRUE
    OBVIOUS
  <2>2. CASE T = {x}
    <3>1. IsLast(R, T, x)
      BY <2>2 DEF IsLast
    <3> QED
      BY <3>1
  <2>3. CASE T # {x}
    <3>1. T \ {x} # {}
      BY <2>1, <2>3
    <3>2. PICK y : IsLast(R, T \ {x}, y)
      BY <3>1, <1>1
    <3>3. y \in T /\ y # x /\ x \in S /\ y \in S
          /\ \A z \in T \ {x} : z # y => <<z, y>> \in R
      BY <3>2 DEF IsLast
    <3>4. CASE <<x, y>> \in R
      <4>1. IsLast(R, T, y)
        BY <3>3, <3>4 DEF IsLast
      <4> QED
        BY <4>1
    <3>5. CASE <<y, x>> \in R
      <4>1. ASSUME NEW z \in T \ {x} PROVE <<z, x>> \in R
        <5>1. CASE z = y
          BY <5>1, <3>5
        <5>2. CASE z # y
          BY <5>2, <3>3, <3>5 DEF Ranks
        <5> QED
          BY <5>1, <5>2
      <4>2. IsLast(R, T, x)
        BY <4>1 DEF IsLast
      <4> QED
        BY <4>2
    <3> QED
      BY <3>3, <3>4, <3>5 DEF Ranks
  <2> QED
    BY <2>2, <2>3
<1>2. P \in SUBSET SUBSET S
  OBVIOUS
<1> HIDE DEF P
<1>3. \A T \in SUBSET S : T \in P
  BY <1>1, <1>2, SubsetInduction
<1> QED
  BY <1>3 DEF P

-----------------------------------------------------------------------------
(* What Those selects, from the left to the right.                         *)

(* What FoldLeft iterates in Those.                                        *)
Filters(g, base, n, q, K) ==
  g = [T \in SUBSET (1..n) |->
         IF T = {} THEN base
         ELSE (IF q[Max(T)] \in K THEN Append(g[T \ {Max(T)}], q[Max(T)])
               ELSE g[T \ {Max(T)}])]

FiltersIn(V, n, q, K) ==
  \A k \in 1..n, x \in V : (IF q[k] \in K THEN Append(x, q[k]) ELSE x) \in V
FiltersSteps(F, n, q, K) ==
  \A k \in 1..n : F[k] = (IF q[k] \in K THEN Append(F[k - 1], q[k]) ELSE F[k - 1])

(* It goes through the elements one after another.                         *)
LEMMA ThoseRuns ==
  ASSUME NEW n \in Nat, NEW q, NEW K, NEW V, NEW base \in V,
         FiltersIn(V, n, q, K)
  PROVE  \E F : /\ F \in [0..n -> V] /\ F[0] = base
               /\ FiltersSteps(F, n, q, K)
               /\ F[n] = (CHOOSE g : Filters(g, base, n, q, K))[1..n]
<1> DEFINE step == [k \in 1..n |-> [x \in V |-> (IF q[k] \in K THEN Append(x, q[k]) ELSE x)]]
           iter == CHOOSE g : Filters(g, base, n, q, K)
<1>1. IsStep(step, n, V)
  BY DEF IsStep, FiltersIn
<1>2. \A k \in 1..n, x \in V : step[k][x] = (IF q[k] \in K THEN Append(x, q[k]) ELSE x)
  OBVIOUS
<1> HIDE DEF step
<1>4. PICK g \in [SUBSET (1..n) -> V] : FoldsUp(g, n, V, base, step)
  BY <1>1, FoldExists, Zenon
<1>5. Filters(g, base, n, q, K)
  <2>1. ASSUME NEW T \in SUBSET (1..n)
        PROVE  g[T] = IF T = {} THEN base
                      ELSE (IF q[Max(T)] \in K THEN Append(g[T \ {Max(T)}], q[Max(T)])
                            ELSE g[T \ {Max(T)}])
    <3>1. CASE T # {}
      <4>1. Max(T) \in 1..n
        BY <3>1, MaxOfPart
      <4>2. T \ {Max(T)} \in SUBSET (1..n)
        OBVIOUS
      <4>3. g[T \ {Max(T)}] \in V
        BY <4>2
      <4>4. g[T] = step[Max(T)][g[T \ {Max(T)}]]
        BY <1>4, <3>1, <4>3, Zenon DEF FoldsUp
      <4>5. step[Max(T)][g[T \ {Max(T)}]] = (IF q[Max(T)] \in K THEN Append(g[T \ {Max(T)}], q[Max(T)]) ELSE g[T \ {Max(T)}])
        BY <1>2, <4>1, <4>3, Zenon
      <4> QED BY <3>1, <4>4, <4>5
    <3>2. CASE T = {}
      BY <3>2, <1>4 DEF FoldsUp
    <3> QED BY <3>1, <3>2
  <2> QED BY <2>1 DEF Filters
<1>6. Filters(iter, base, n, q, K)
  BY <1>5, Zenon
<1>7. \A T \in SUBSET (1..n) :
        iter[T] = IF T = {} THEN base
                  ELSE (IF q[Max(T)] \in K THEN Append(iter[T \ {Max(T)}], q[Max(T)])
                        ELSE iter[T \ {Max(T)}])
  <2> HIDE DEF iter
  <2> QED BY <1>6 DEF Filters
<1> HIDE DEF iter
<1>8. FoldsUp(iter, n, V, base, step)
  <2>1. \A T \in SUBSET (1..n) : T # {} => Max(T) \in 1..n
    BY MaxOfPart
  <2>2. \A T \in SUBSET (1..n) :
          T # {} /\ iter[T \ {Max(T)}] \in V
            => iter[T] = step[Max(T)][iter[T \ {Max(T)}]]
    <3> TAKE T \in SUBSET (1..n)
    <3> HAVE T # {} /\ iter[T \ {Max(T)}] \in V
    <3>1. iter[T] = (IF q[Max(T)] \in K THEN Append(iter[T \ {Max(T)}], q[Max(T)]) ELSE iter[T \ {Max(T)}])
      BY <1>7
    <3>2. Max(T) \in 1..n
      BY <2>1
    <3>3. step[Max(T)][iter[T \ {Max(T)}]] = (IF q[Max(T)] \in K THEN Append(iter[T \ {Max(T)}], q[Max(T)]) ELSE iter[T \ {Max(T)}])
      BY <1>2, <3>2, Zenon
    <3> QED BY <3>1, <3>3
  <2>3. iter[{}] = base
    BY <1>7
  <2> QED BY <2>2, <2>3 DEF FoldsUp
<1>9. PICK F : Steps(F, n, V, base, step) /\ iter[1..n] = F[n]
  BY <1>1, <1>8, FoldPrefixes
<1>10. F \in [0..n -> V] /\ F[0] = base /\ \A k \in 1..n : F[k] = step[k][F[k - 1]]
  BY <1>9 DEF Steps
<1>11. \A k \in 1..n : F[k] = (IF q[k] \in K THEN Append(F[k - 1], q[k]) ELSE F[k - 1])
  <2> TAKE k \in 1..n
  <2>1. k - 1 \in 0..n
    OBVIOUS
  <2>2. F[k - 1] \in V
    BY <1>10, <2>1
  <2>3. step[k][F[k - 1]] = (IF q[k] \in K THEN Append(F[k - 1], q[k]) ELSE F[k - 1])
    BY <1>2, <2>2, Zenon
  <2> QED BY <2>3, <1>10
<1> QED
  BY <1>9, <1>10, <1>11 DEF iter, FiltersSteps

(* Those runs through the prefixes of a sequence.                          *)
LEMMA ThosePrefixes ==
  ASSUME NEW S, NEW s \in Seq(S), NEW K
  PROVE  \E F : /\ F \in [0..Len(s) -> Seq(S)] /\ F[0] = <<>>
               /\ FiltersSteps(F, Len(s), s, K) /\ F[Len(s)] = Those(s, K)
<1>1. Len(s) \in Nat /\ DOMAIN s = 1..Len(s) /\ \A k \in 1..Len(s) : s[k] \in S
  BY LenProperties, ElementOfSeq
<1>2. Those(s, K) = (CHOOSE g : Filters(g, <<>>, Len(s), s, K))[1..Len(s)]
  BY <1>1 DEF Those, FoldLeft, MapThenFoldSet, Filters
<1> DEFINE V == Seq(S)
           base == <<>>
<1>3. base \in V /\ \A k \in 1..Len(s), x \in V : (IF s[k] \in K THEN Append(x, s[k]) ELSE x) \in V
  BY <1>1, AppendProperties
<1>4. Those(s, K) = (CHOOSE g : Filters(g, base, Len(s), s, K))[1..Len(s)]
  BY <1>2
<1>3a. FiltersIn(V, Len(s), s, K)
  BY <1>3 DEF FiltersIn
<1> HIDE DEF V, base
<1>5. \E F : /\ F \in [0..Len(s) -> V] /\ F[0] = base
             /\ FiltersSteps(F, Len(s), s, K)
             /\ F[Len(s)] = (CHOOSE g : Filters(g, base, Len(s), s, K))[1..Len(s)]
  BY <1>1, <1>3, <1>3a, ThoseRuns
<1>6. PICK F : /\ F \in [0..Len(s) -> V] /\ F[0] = base
               /\ FiltersSteps(F, Len(s), s, K)
               /\ F[Len(s)] = (CHOOSE g : Filters(g, base, Len(s), s, K))[1..Len(s)]
  BY <1>5
<1> QED
  BY <1>4, <1>6, Zenon DEF V, base

(* Induction over sequences, from the empty one by appending.              *)
LEMMA SeqInduction ==
  ASSUME NEW S, NEW P, <<>> \in P, \A s \in Seq(S), x \in S : s \in P => Append(s, x) \in P
  PROVE  Seq(S) \subseteq P
<1> DEFINE Q == {n \in Nat : \A s \in Seq(S) : Len(s) = n => s \in P}
<1>1. 0 \in Q
  BY EmptySeq
<1>2. ASSUME NEW n \in Q PROVE n + 1 \in Q
  <2>1. ASSUME NEW s \in Seq(S), Len(s) = n + 1 PROVE s \in P
    <3> DEFINE t == [k \in 1..n |-> s[k]]
    <3>1. s \in [1..(n + 1) -> S]
      BY <2>1, LenProperties
    <3>2. t \in Seq(S) /\ Len(t) = n
      <4>1. \A k \in 1..n : s[k] \in S
        BY <3>1
      <4>2. t \in [1..n -> S]
        BY <4>1
      <4> HIDE DEF t
      <4> QED BY <4>2
    <3>3. s[n + 1] \in S
      BY <3>1
    <3>4. Append(t, s[n + 1]) = s
      <4> HIDE DEF t
      <4>0. \A k \in 1..n : t[k] = s[k]
        BY DEF t
      <4>1. /\ Append(t, s[n + 1]) \in Seq(S)
            /\ Len(Append(t, s[n + 1])) = n + 1
            /\ \A k \in 1..n : Append(t, s[n + 1])[k] = t[k]
            /\ Append(t, s[n + 1])[n + 1] = s[n + 1]
        BY <3>2, <3>3, AppendProperties
      <4>2. \A k \in 1..(n + 1) : Append(t, s[n + 1])[k] = s[k]
        BY <4>0, <4>1
      <4> QED BY <4>1, <4>2, <2>1, SeqEqual
    <3>5. t \in P
      BY <3>2
    <3> QED BY <3>2, <3>3, <3>4, <3>5
  <2> QED BY <2>1
<1> HIDE DEF Q
<1>3. Q \in SUBSET Nat /\ \A n \in Q : n + 1 \in Q
  BY <1>2 DEF Q
<1>4. Q = Nat
  BY <1>1, <1>3, Induction
<1> QED
  BY <1>4, LenProperties DEF Q

(* What the prefixes are does not depend on the witness.                   *)
LEMMA FiltersUnique ==
  ASSUME NEW n \in Nat, NEW q, NEW K, NEW F, NEW G,
         F[0] = G[0], FiltersSteps(F, n, q, K), FiltersSteps(G, n, q, K)
  PROVE  F[n] = G[n]
<1> DEFINE P == {k \in Nat : k <= n => F[k] = G[k]}
<1>1. 0 \in P
  OBVIOUS
<1>2. ASSUME NEW k \in P PROVE k + 1 \in P
  <2>1. SUFFICES ASSUME k + 1 <= n PROVE F[k + 1] = G[k + 1]
    OBVIOUS
  <2>2. k + 1 \in 1..n /\ (k + 1) - 1 = k /\ F[k] = G[k]
    BY <2>1
  <2> QED BY <2>2 DEF FiltersSteps
<1>3. P \in SUBSET Nat
  OBVIOUS
<1> HIDE DEF P
<1>4. P = Nat
  BY <1>1, <1>2, <1>3, Induction
<1> QED
  BY <1>4 DEF P

(* Nothing is left of nothing.                                             *)
LEMMA ThoseEmpty == ASSUME NEW K PROVE Those(<<>>, K) = <<>>
<1>1. <<>> \in Seq({}) /\ Len(<<>>) = 0
  BY EmptySeq
<1> DEFINE e == <<>>
<1>2. e \in Seq({}) /\ Len(e) = 0
  BY <1>1
<1> HIDE DEF e
<1>3. PICK F : /\ F \in [0..Len(e) -> Seq({})] /\ F[0] = <<>>
               /\ FiltersSteps(F, Len(e), e, K) /\ F[Len(e)] = Those(e, K)
  BY <1>2, ThosePrefixes, Zenon
<1>4. Those(e, K) = <<>>
  BY <1>2, <1>3
<1> QED
  BY <1>4 DEF e

(* An element more is kept at the end, or left out.                        *)
LEMMA ThoseAppend ==
  ASSUME NEW S, NEW s \in Seq(S), NEW x \in S, NEW K
  PROVE  Those(Append(s, x), K) = IF x \in K THEN Append(Those(s, K), x) ELSE Those(s, K)
<1> DEFINE t == Append(s, x)
           n == Len(s)
<1>1. /\ t \in Seq(S) /\ Len(t) = n + 1 /\ n \in Nat
      /\ \A k \in 1..n : t[k] = s[k]
      /\ t[n + 1] = x
  BY AppendProperties, LenProperties
<1> HIDE DEF t
<1>2. PICK F : /\ F \in [0..n -> Seq(S)] /\ F[0] = <<>>
               /\ FiltersSteps(F, n, s, K) /\ F[n] = Those(s, K)
  BY ThosePrefixes
<1>3a. PICK G : /\ G \in [0..Len(t) -> Seq(S)] /\ G[0] = <<>>
                /\ FiltersSteps(G, Len(t), t, K) /\ G[Len(t)] = Those(t, K)
  <2>1. t \in Seq(S)
    BY <1>1
  <2> QED BY <2>1, ThosePrefixes, Zenon
<1>3. /\ G[0] = <<>>
      /\ FiltersSteps(G, n + 1, t, K) /\ G[n + 1] = Those(t, K)
  BY <1>1, <1>3a
<1>4. FiltersSteps(G, n, s, K)
  <2>1. \A k \in 1..n : k \in 1..(n + 1) /\ t[k] = s[k]
    BY <1>1
  <2> QED BY <2>1, <1>3, Zenon DEF FiltersSteps
<1>5a. n \in Nat /\ F[0] = G[0] /\ FiltersSteps(F, n, s, K)
  BY <1>1, <1>2, <1>3
<1>5. F[n] = G[n]
  BY <1>4, <1>5a, FiltersUnique, Zenon
<1>6. G[n + 1] = IF t[n + 1] \in K THEN Append(G[n], t[n + 1]) ELSE G[n]
  <2>1. n + 1 \in 1..(n + 1) /\ (n + 1) - 1 = n
    BY <1>1
  <2> QED BY <2>1, <1>3 DEF FiltersSteps
<1> QED
  BY <1>1, <1>2, <1>3, <1>5, <1>6 DEF t

(* What is kept is a sequence of the elements that were to be.             *)
LEMMA ThoseTyped ==
  ASSUME NEW S, NEW s \in Seq(S), NEW K
  PROVE  /\ Those(s, K) \in Seq(S \cap K)
         /\ Len(Those(s, K)) <= Len(s)
         /\ \A x : (\E k \in 1..Len(s) : s[k] = x) /\ x \in K
                     <=> \E k \in 1..Len(Those(s, K)) : Those(s, K)[k] = x
<1> DEFINE Has(q, x) == \E k \in 1..Len(q) : q[k] = x
           P == {q \in Seq(S) : /\ Those(q, K) \in Seq(S \cap K)
                                /\ Len(Those(q, K)) <= Len(q)
                                /\ \A x \in S : Has(q, x) /\ x \in K <=> Has(Those(q, K), x)}
<1>1. <<>> \in P
  <2>1. <<>> \in Seq(S) /\ <<>> \in Seq(S \cap K) /\ Len(<<>>) = 0 /\ Those(<<>>, K) = <<>>
    BY ThoseEmpty, EmptySeq
  <2>2. \A x : ~Has(<<>>, x)
    BY <2>1
  <2> DEFINE e == <<>>
  <2>3. /\ e \in Seq(S) /\ Those(e, K) = e /\ e \in Seq(S \cap K) /\ Len(e) <= Len(e)
        /\ \A x : ~Has(e, x)
    BY <2>1, <2>2
  <2> HIDE DEF Has, e
  <2>4. e \in P
    BY <2>3
  <2> QED BY <2>4 DEF e
<1>2. ASSUME NEW T, NEW q \in Seq(T), NEW y \in T, NEW x PROVE Has(Append(q, y), x) <=> Has(q, x) \/ x = y
  <2>1. /\ Len(q) \in Nat /\ Len(Append(q, y)) = Len(q) + 1
        /\ \A k \in 1..Len(q) : Append(q, y)[k] = q[k]
        /\ Append(q, y)[Len(q) + 1] = y
    BY AppendProperties, LenProperties
  <2> QED BY <2>1
<1>3. ASSUME NEW q \in Seq(S), NEW y \in S, q \in P PROVE Append(q, y) \in P
  <2>1. /\ Append(q, y) \in Seq(S) /\ Len(Append(q, y)) = Len(q) + 1 /\ Len(q) \in Nat
        /\ Those(q, K) \in Seq(S \cap K) /\ Len(Those(q, K)) \in Nat /\ Len(Those(q, K)) <= Len(q)
    BY <1>3, AppendProperties, LenProperties
  <2>2. \A x : Has(Append(q, y), x) <=> Has(q, x) \/ x = y
    BY <1>2, <1>3
  <2>5. \A x \in S : Has(q, x) /\ x \in K <=> Has(Those(q, K), x)
    BY <1>3
  <2>3. CASE y \in K
    <3>1. Those(Append(q, y), K) = Append(Those(q, K), y) /\ y \in S \cap K
      BY <2>3, ThoseAppend
    <3>2. /\ Append(Those(q, K), y) \in Seq(S \cap K)
          /\ Len(Append(Those(q, K), y)) = Len(Those(q, K)) + 1
      BY <2>1, <3>1, AppendProperties
    <3>3. \A x : Has(Append(Those(q, K), y), x) <=> Has(Those(q, K), x) \/ x = y
      BY <1>2, <2>1, <3>1
    <3>4. ASSUME NEW x \in S
          PROVE  Has(Append(q, y), x) /\ x \in K <=> Has(Those(Append(q, y), K), x)
      <4> HIDE DEF Has, P
      <4>1. Has(Those(Append(q, y), K), x) <=> Has(Those(q, K), x) \/ x = y
        BY <3>1, <3>3
      <4> QED BY <4>1, <2>2, <2>3, <2>5
    <3>5. Len(Those(Append(q, y), K)) <= Len(Append(q, y))
      BY <2>1, <3>1, <3>2
    <3> HIDE DEF Has
    <3> QED BY <2>1, <3>1, <3>2, <3>4, <3>5
  <2>4. CASE y \notin K
    <3>1. Those(Append(q, y), K) = Those(q, K)
      BY <2>4, ThoseAppend
    <3> HIDE DEF Has
    <3> QED BY <2>1, <2>2, <2>4, <2>5, <3>1
  <2> QED BY <2>3, <2>4
<1> HIDE DEF P
<1>4. s \in P
  BY <1>1, <1>3, SeqInduction
<1>5. /\ Those(s, K) \in Seq(S \cap K) /\ Len(Those(s, K)) <= Len(s)
      /\ \A x \in S : Has(s, x) /\ x \in K <=> Has(Those(s, K), x)
  BY <1>4 DEF P
<1>6. /\ \A k \in 1..Len(s) : s[k] \in S
      /\ \A k \in 1..Len(Those(s, K)) : Those(s, K)[k] \in S
  BY <1>5, ElementOfSeq
<1> QED
  BY <1>5, <1>6

=============================================================================
