--------------------------- MODULE RecoveryProofs ---------------------------
(***************************************************************************)
(* Snapshot, restore, journal and replay, for every value of the           *)
(* constants. The first part is about data: the radix sort of the orders   *)
(* is stable and sorts, restore_validated_book puts back exactly the       *)
(* orders of the image, an image taken of a sound book is valid and brings *)
(* the book back, and an image that validation accepts is accepted by      *)
(* every insertion that follows. The second is about histories:            *)
(* RecoveryInv says that the journal and the snapshot are the records and  *)
(* an image of one past of engines, the live engine its last, and a        *)
(* recovered engine one of them or one it cannot be told from.             *)
(* EngineProofs says what dispatch does.                                   *)
(***************************************************************************)
EXTENDS EngineProofs

-----------------------------------------------------------------------------
(* The radix sort of the orders of a snapshot                              *)

(* t takes elements of s, in their order, from the places f.               *)
Takes(s, t, f) ==
  /\ f \in [1..Len(t) -> 1..Len(s)]
  /\ \A k \in 1..Len(t) : t[k] = s[f[k]]
  /\ \A j, k \in 1..Len(t) : j < k => f[j] < f[k]

(* It takes all that are in K.                                             *)
TakesEvery(s, t, f, K) == \A c \in 1..Len(s) : s[c] \in K => \E j \in 1..Len(t) : f[j] = c

(* Those takes the elements of K.                                          *)
LEMMA ThosePlaces ==
  ASSUME NEW S, NEW s \in Seq(S), NEW K
  PROVE  \E f : Takes(s, Those(s, K), f) /\ TakesEvery(s, Those(s, K), f, K)
<1> DEFINE Taken(q, t, f) == Takes(q, t, f) /\ TakesEvery(q, t, f, K)
           P == {q \in Seq(S) : \E f : Taken(q, Those(q, K), f)}
<1>1. <<>> \in P
  <2> DEFINE e == <<>>
  <2>1. e \in Seq(S) /\ Len(e) = 0 /\ Those(e, K) = e
    BY ThoseEmpty, EmptySeq
  <2> HIDE DEF e
  <2>2. Taken(e, Those(e, K), [k \in 1..0 |-> k])
    BY <2>1 DEF Takes, TakesEvery
  <2> QED BY <2>1, <2>2 DEF e
<1>2. ASSUME NEW q \in Seq(S), NEW x \in S, q \in P PROVE Append(q, x) \in P
  <2>1. PICK f : Taken(q, Those(q, K), f)
    BY <1>2
  <2> DEFINE t == Those(q, K)
             a == Append(q, x)
             u == Those(a, K)
  <2>2. /\ a \in Seq(S) /\ Len(a) = Len(q) + 1 /\ Len(q) \in Nat
        /\ \A k \in 1..Len(q) : a[k] = q[k]
        /\ a[Len(q) + 1] = x
    BY AppendProperties, LenProperties
  <2>3. u = IF x \in K THEN Append(t, x) ELSE t
    BY ThoseAppend
  <2>4. t \in Seq(S \cap K)
    BY ThoseTyped
  <2>4a. Len(t) \in Nat
    BY <2>4, LenProperties
  <2>5. /\ f \in [1..Len(t) -> 1..Len(q)]
        /\ \A k \in 1..Len(t) : t[k] = q[f[k]]
        /\ \A j, k \in 1..Len(t) : j < k => f[j] < f[k]
        /\ \A c \in 1..Len(q) : q[c] \in K => \E j \in 1..Len(t) : f[j] = c
    BY <2>1 DEF Takes, TakesEvery
  <2> DEFINE N == Len(t)
             M == Len(q)
  <2> HIDE DEF a, t, u
  <2>6. CASE x \in K
    <3> DEFINE g == [k \in 1..(N + 1) |-> IF k = N + 1 THEN M + 1 ELSE f[k]]
    <3>1. /\ u = Append(t, x) /\ Len(u) = N + 1
          /\ \A k \in 1..N : u[k] = t[k]
          /\ u[N + 1] = x
      <4>1. u = Append(t, x)
        BY <2>3, <2>6
      <4>2. t \in Seq(S)
        BY <2>4
      <4> QED BY <4>1, <4>2, AppendProperties
    <3>0. N \in Nat /\ M \in Nat /\ f \in [1..N -> 1..M]
      BY <2>2, <2>4a, <2>5
    <3>a. Len(u) = N + 1 /\ Len(a) = M + 1 /\ (\A k \in 1..M : a[k] = q[k]) /\ a[M + 1] = x
      BY <2>2, <3>1
    <3>b. /\ \A k \in 1..N : t[k] = q[f[k]]
          /\ \A j, k \in 1..N : j < k => f[j] < f[k]
          /\ \A c \in 1..M : q[c] \in K => \E j \in 1..N : f[j] = c
      BY <2>5
    <3> HIDE DEF N, M
    <3>2. \A k \in 1..N : g[k] = f[k] /\ f[k] \in 1..M
      BY <3>0
    <3>3. g[N + 1] = M + 1
      BY <3>0
    <3>4. g \in [1..(N + 1) -> 1..(M + 1)]
      BY <3>0, <3>2
    <3> HIDE DEF g
    <3>5. \A k \in 1..(N + 1) : k \in 1..N \/ k = N + 1
      BY <3>0
    <3>6. \A k \in 1..(N + 1) : u[k] = a[g[k]]
      BY <3>a, <3>b, <3>1, <3>2, <3>3, <3>5
    <3>7. ASSUME NEW j \in 1..(N + 1), NEW k \in 1..(N + 1), j < k PROVE g[j] < g[k]
      <4>1. j \in 1..N
        BY <3>0, <3>7
      <4>2. CASE k \in 1..N
        BY <4>1, <4>2, <3>2, <3>7, <3>b
      <4>3. CASE k = N + 1
        BY <4>1, <4>3, <3>2, <3>3, <3>0
      <4> QED BY <4>2, <4>3, <3>5
    <3>8. Takes(a, u, g)
      BY <3>a, <3>4, <3>6, <3>7 DEF Takes
    <3>9. ASSUME NEW c \in 1..(M + 1), a[c] \in K PROVE \E j \in 1..(N + 1) : g[j] = c
      <4>1. CASE c = M + 1
        <5>1. N + 1 \in 1..(N + 1)
          BY <3>0
        <5> QED BY <4>1, <5>1, <3>3
      <4>2. CASE c \in 1..M
        <5>1. PICK j \in 1..N : f[j] = c
          BY <4>2, <3>9, <3>a, <3>b
        <5>2. j \in 1..(N + 1)
          BY <3>0
        <5> QED BY <5>1, <5>2, <3>2
      <4> QED BY <4>1, <4>2, <3>0
    <3>10. TakesEvery(a, u, g, K)
      BY <3>a, <3>9 DEF TakesEvery
    <3> QED BY <2>2, <3>8, <3>10 DEF u, a
  <2>7. CASE x \notin K
    <3>1. u = t
      BY <2>3, <2>7
    <3>2. /\ f \in [1..Len(t) -> 1..Len(a)]
          /\ \A k \in 1..Len(t) : f[k] \in 1..Len(q)
      <4>1. f \in [1..N -> 1..M] /\ M \in Nat /\ Len(a) = M + 1
        BY <2>2, <2>5
      <4> HIDE DEF N, M
      <4>2. f \in [1..N -> 1..(M + 1)] /\ \A k \in 1..N : f[k] \in 1..M
        BY <4>1
      <4> QED BY <4>1, <4>2 DEF N, M
    <3>3. \A k \in 1..Len(t) : t[k] = a[f[k]]
      BY <2>2, <2>5, <3>2
    <3>4. Takes(a, u, f)
      BY <2>5, <3>1, <3>2, <3>3 DEF Takes
    <3>5. ASSUME NEW c \in 1..Len(a), a[c] \in K PROVE \E j \in 1..Len(t) : f[j] = c
      <4>1. c \in 1..(M + 1) /\ M \in Nat
        BY <2>2
      <4>2. a[M + 1] = x
        BY <2>2
      <4> HIDE DEF M
      <4>3. c \in 1..M
        BY <4>1, <4>2, <2>7, <3>5
      <4> QED BY <4>3, <3>5, <2>2, <2>5 DEF M
    <3>6. TakesEvery(a, u, f, K)
      BY <3>1, <3>5 DEF TakesEvery
    <3> QED BY <2>2, <3>4, <3>6 DEF u, a
  <2> QED BY <2>6, <2>7
<1> HIDE DEF P
<1>3. s \in P
  BY <1>1, <1>2, SeqInduction
<1> QED
  BY <1>3 DEF P

(* What is in K and what is not make up the sequence.                      *)
LEMMA PartLengths ==
  ASSUME NEW S, NEW s \in Seq(S), NEW K, NEW L, \A x \in S : x \in L <=> x \notin K
  PROVE  Len(Those(s, K)) + Len(Those(s, L)) = Len(s)
<1> DEFINE P == {q \in Seq(S) : Len(Those(q, K)) + Len(Those(q, L)) = Len(q)}
<1>1. <<>> \in P
  <2> DEFINE e == <<>>
  <2>1. e \in Seq(S) /\ Len(e) = 0 /\ Those(e, K) = e /\ Those(e, L) = e
    BY ThoseEmpty, EmptySeq
  <2> HIDE DEF e
  <2> QED BY <2>1 DEF e
<1>2. ASSUME NEW q \in Seq(S), NEW x \in S, q \in P PROVE Append(q, x) \in P
  <2>1. /\ Those(q, K) \in Seq(S) /\ Those(q, L) \in Seq(S)
    <3>1. /\ Those(q, K) \in Seq(S \cap K) /\ Those(q, L) \in Seq(S \cap L)
      BY ThoseTyped
    <3>2. Seq(S \cap K) \subseteq Seq(S) /\ Seq(S \cap L) \subseteq Seq(S)
      OBVIOUS
    <3> QED BY <3>1, <3>2
  <2>2. /\ Those(Append(q, x), K) = IF x \in K THEN Append(Those(q, K), x) ELSE Those(q, K)
        /\ Those(Append(q, x), L) = IF x \in L THEN Append(Those(q, L), x) ELSE Those(q, L)
    BY ThoseAppend
  <2>3. /\ Len(Append(q, x)) = Len(q) + 1 /\ Append(q, x) \in Seq(S)
        /\ Len(Append(Those(q, K), x)) = Len(Those(q, K)) + 1
        /\ Len(Append(Those(q, L), x)) = Len(Those(q, L)) + 1
        /\ Len(q) \in Nat /\ Len(Those(q, K)) \in Nat /\ Len(Those(q, L)) \in Nat
    BY <2>1, AppendProperties, LenProperties
  <2>4. Len(Those(q, K)) + Len(Those(q, L)) = Len(q) /\ (x \in L <=> x \notin K)
    BY <1>2
  <2>5. CASE x \in K
    <3>1. Len(Those(Append(q, x), K)) = Len(Those(q, K)) + 1 /\ Those(Append(q, x), L) = Those(q, L)
      BY <2>2, <2>3, <2>4, <2>5
    <3> QED BY <3>1, <2>3, <2>4
  <2>6. CASE x \in L
    <3>1. Len(Those(Append(q, x), L)) = Len(Those(q, L)) + 1 /\ Those(Append(q, x), K) = Those(q, K)
      BY <2>2, <2>3, <2>4, <2>6
    <3> QED BY <3>1, <2>3, <2>4
  <2> QED BY <2>4, <2>5, <2>6
<1> HIDE DEF P
<1>3. s \in P
  BY <1>1, <1>2, SeqInduction
<1> QED
  BY <1>3 DEF P

(* Whatever moves the places of a sequence apart fills them all.           *)
LEMMA OntoItself ==
  ASSUME NEW n \in Nat, NEW f \in [1..n -> 1..n], \A j, k \in 1..n : f[j] = f[k] => j = k
  PROVE  \A i \in 1..n : \E k \in 1..n : f[k] = i
<1> DEFINE S == 1..n
<1>1. IsFiniteSet(S)
  BY FS_Interval
<1>2. f \in Injection(S, S)
  <2>1. f \in [S -> S] /\ \A j, k \in S : f[j] = f[k] => j = k
    OBVIOUS
  <2> HIDE DEF S
  <2> QED BY <2>1 DEF Injection, IsInjective
<1>3. f \in Surjection(S, S)
  <2> HIDE DEF S
  <2> QED BY <1>1, <1>2, FS_Injection
<1> QED
  BY <1>3 DEF Surjection

(* The digits of a key below and at weight d.                              *)
LEMMA DigitIs ==
  ASSUME NEW a \in Nat, NEW d \in Nat \ {0}
  PROVE  /\ (a \div d) % 2 \in {0, 1} /\ a % d \in 0..(d - 1)
         /\ a % (2 * d) = ((a \div d) % 2) * d + (a % d)
<1> DEFINE q == a \div d
           c == a % d
           t == q \div 2
           b == q % 2
<1>1. q \in Int /\ c \in 0..(d - 1) /\ a = d * q + c
  BY DivisionIs
<1> HIDE DEF q, c
<1>2. t \in Int /\ b \in 0..1 /\ q = 2 * t + b
  <2>1. 2 \in Nat \ {0}
    OBVIOUS
  <2>2. t \in Int /\ b \in 0..(2 - 1) /\ q = 2 * t + b
    BY <1>1, <2>1, DivisionIs
  <2> QED BY <2>2
<1> HIDE DEF t, b
<1> DEFINE r == b * d + c
           n == 2 * d
<1>3. n \in Nat \ {0} /\ r \in 0..(n - 1) /\ a = n * t + r
  <2>1. CASE b = 0
    BY <2>1, <1>1, <1>2
  <2>2. CASE b = 1
    BY <2>2, <1>1, <1>2
  <2> QED BY <2>1, <2>2, <1>2
<1>4. a % n = r
  <2> HIDE DEF n, r
  <2> QED BY <1>2, <1>3, RemainderIs
<1> QED
  BY <1>1, <1>2, <1>4 DEF q, c, b, r, n

(* r is q by key modulo w, what has the same key in the order of q; f is   *)
(* where each came from.                                                   *)
Arranged(S, q, r, w, f) ==
  /\ q \in Seq(S) /\ r \in Seq(S) /\ Len(r) = Len(q) /\ w \in Nat \ {0}
  /\ f \in [1..Len(q) -> 1..Len(q)]
  /\ \A j, k \in 1..Len(q) : f[j] = f[k] => j = k
  /\ \A i \in 1..Len(q) : \E k \in 1..Len(q) : f[k] = i
  /\ \A k \in 1..Len(q) : r[k] = q[f[k]]
  /\ \A j, k \in 1..Len(q) : j < k =>
       \/ Key(r[j]) % w < Key(r[k]) % w
       \/ Key(r[j]) % w = Key(r[k]) % w /\ f[j] < f[k]

(* One pass sorts by one digit more.                                       *)
LEMMA PassArranges ==
  ASSUME NEW S, \A x \in S : Key(x) \in Nat, NEW q, NEW r, NEW d, NEW f, Arranged(S, q, r, d, f),
         NEW t, t = RadixPass(r, d)
  PROVE  \E g : Arranged(S, q, t, 2 * d, g)
<1> DEFINE n == Len(q)
           Bit(x) == (Key(x) \div d) % 2
           K == {x \in Range(r) : Bit(x) = 0}
           L == {x \in Range(r) : Bit(x) = 1}
           u == Those(r, K)
           v == Those(r, L)
           a == Len(u)
           z == Len(v)
<1>1. /\ q \in Seq(S) /\ r \in Seq(S) /\ Len(r) = n /\ n \in Nat /\ d \in Nat \ {0}
      /\ f \in [1..n -> 1..n]
      /\ \A j, k \in 1..n : f[j] = f[k] => j = k
      /\ \A i \in 1..n : \E k \in 1..n : f[k] = i
      /\ \A k \in 1..n : r[k] = q[f[k]]
  BY LenProperties DEF Arranged
<1>1a. \A j, k \in 1..n : j < k =>
         \/ Key(r[j]) % d < Key(r[k]) % d
         \/ Key(r[j]) % d = Key(r[k]) % d /\ f[j] < f[k]
  BY DEF Arranged
<1>2. r \in Seq(Range(r)) /\ Range(r) \subseteq S /\ \A k \in 1..n : r[k] \in Range(r)
  <2>1. r \in [1..n -> S] /\ DOMAIN r = 1..n
    BY <1>1, LenProperties
  <2>2. Range(r) \subseteq S /\ \A k \in 1..n : r[k] \in Range(r)
    BY <2>1 DEF Range
  <2>3. r \in [1..n -> Range(r)]
    BY <2>1, <2>2
  <2>4. n \in Nat
    BY <1>1
  <2> DEFINE R == Range(r)
  <2>5. r \in [1..n -> R]
    BY <2>3
  <2> HIDE DEF n, R
  <2>6. r \in Seq(R)
    BY <2>4, <2>5
  <2> QED BY <2>2, <2>6 DEF R
<1>3. t = u \o v
  BY DEF RadixPass
<1>4. \A x \in Range(r) : /\ Key(x) \in Nat /\ Bit(x) \in {0, 1} /\ Key(x) % d \in 0..(d - 1)
                          /\ Key(x) % (2 * d) = Bit(x) * d + (Key(x) % d)
  BY <1>1, <1>2, DigitIs
<1>5. \A x \in Range(r) : x \in L <=> x \notin K
  BY <1>4
<1>6. \A x \in K : Bit(x) = 0 
  OBVIOUS
<1>7. \A x \in L : Bit(x) = 1
  OBVIOUS
<1> HIDE DEF Bit, K, L, n
<1>8. u \in Seq(Range(r) \cap K) /\ v \in Seq(Range(r) \cap L)
  BY <1>2, ThoseTyped
<1>9. a + z = n
  <2>1. Len(u) + Len(v) = Len(r)
    <3> DEFINE R == Range(r)
    <3>1. r \in Seq(R) /\ \A x \in R : x \in L <=> x \notin K
      BY <1>2, <1>5
    <3> HIDE DEF R
    <3> QED BY <3>1, PartLengths
  <2> QED BY <2>1, <1>1
<1>10. PICK p1 : Takes(r, u, p1)
  BY <1>1, ThosePlaces
<1>11. PICK p2 : Takes(r, v, p2)
  BY <1>1, ThosePlaces
<1> HIDE DEF u, v
<1>12. /\ a \in Nat /\ z \in Nat
       /\ \A k \in 1..a : u[k] \in Range(r) /\ u[k] \in K
       /\ \A k \in 1..z : v[k] \in Range(r) /\ v[k] \in L
  <2>1. a \in Nat /\ \A k \in 1..a : u[k] \in Range(r) \cap K
    BY <1>8, ElementOfSeq, LenProperties
  <2>2. z \in Nat /\ \A k \in 1..z : v[k] \in Range(r) \cap L
    BY <1>8, ElementOfSeq, LenProperties
  <2> QED BY <2>1, <2>2
<1>13. /\ p1 \in [1..a -> 1..n] /\ \A k \in 1..a : u[k] = r[p1[k]]
       /\ \A j, k \in 1..a : j < k => p1[j] < p1[k]
  BY <1>1, <1>10 DEF Takes
<1>14. /\ p2 \in [1..z -> 1..n] /\ \A k \in 1..z : v[k] = r[p2[k]]
       /\ \A j, k \in 1..z : j < k => p2[j] < p2[k]
  BY <1>1, <1>11 DEF Takes
<1>15. /\ t \in Seq(S) /\ Len(t) = n
       /\ \A k \in 1..n : t[k] = IF k <= a THEN u[k] ELSE v[k - a]
  <2>1. u \in Seq(S) /\ v \in Seq(S)
    BY <1>2, <1>8
  <2>2. /\ t \in Seq(S) /\ Len(t) = a + z
        /\ \A k \in 1..(a + z) : t[k] = IF k <= a THEN u[k] ELSE v[k - a]
    BY <1>3, <2>1, ConcatProperties
  <2> QED BY <2>2, <1>9
<1> HIDE DEF a, z
<1> DEFINE p == [k \in 1..n |-> IF k <= a THEN p1[k] ELSE p2[k - a]]
           g == [k \in 1..n |-> f[p[k]]]
<1>16. \A k \in 1..n : /\ k <= a => k \in 1..a
                       /\ ~(k <= a) => k - a \in 1..z
  BY <1>1, <1>9, <1>12
<1>17. \A k \in 1..n : p[k] = IF k <= a THEN p1[k] ELSE p2[k - a]
  OBVIOUS
<1>18. \A k \in 1..n : /\ p[k] \in 1..n /\ t[k] = r[p[k]] /\ t[k] \in Range(r)
                       /\ k <= a => t[k] \in K
                       /\ ~(k <= a) => t[k] \in L
  BY <1>12, <1>13, <1>14, <1>15, <1>16
<1>19. g \in [1..n -> 1..n] /\ \A k \in 1..n : g[k] = f[p[k]] /\ g[k] \in 1..n
  BY <1>1, <1>18
<1> HIDE DEF p, g
<1>20. \A j, k \in 1..n : j < k /\ (j <= a <=> k <= a) => p[j] < p[k]
  <2> SUFFICES ASSUME NEW j \in 1..n, NEW k \in 1..n, j < k, j <= a <=> k <= a PROVE p[j] < p[k]
    OBVIOUS
  <2>1. CASE k <= a
    BY <2>1, <1>13, <1>16, <1>17
  <2>2. CASE ~(k <= a)
    <3>1. j - a \in 1..z /\ k - a \in 1..z /\ j - a < k - a
      BY <2>2, <1>12, <1>16
    <3> QED BY <3>1, <2>2, <1>14, <1>17
  <2> QED BY <2>1, <2>2
<1>21. \A j, k \in 1..n : (j <= a /\ ~(k <= a)) => p[j] # p[k]
  BY <1>5, <1>18
<1>22. \A j, k \in 1..n : p[j] = p[k] => j = k
  <2>1. ASSUME NEW j \in 1..n, NEW k \in 1..n, p[j] = p[k], j < k PROVE FALSE
    <3>1. p[j] \in 1..n /\ n \in Nat
      BY <1>1, <1>18
    <3>2. ~(p[j] < p[k])
      BY <2>1, <3>1
    <3>3. ~(j <= a <=> k <= a)
      BY <2>1, <3>2, <1>20
    <3>4. j <= a /\ ~(k <= a)
      BY <2>1, <3>1, <3>3, <1>12
    <3> QED BY <3>4, <2>1, <1>21
  <2>2. \A j, k \in 1..n : j < k \/ k < j \/ j = k
    BY <1>1
  <2> QED BY <2>1, <2>2
<1>23. \A j, k \in 1..n : g[j] = g[k] => j = k
  <2>1. ASSUME NEW j \in 1..n, NEW k \in 1..n, g[j] = g[k] PROVE j = k
    <3>1. f[p[j]] = f[p[k]] /\ p[j] \in 1..n /\ p[k] \in 1..n
      BY <2>1, <1>18, <1>19
    <3>2. p[j] = p[k]
      <4>1. \A x, y \in 1..n : f[x] = f[y] => x = y
        BY <1>1
      <4> QED BY <3>1, <4>1, Zenon
    <3> QED BY <3>2, <1>22
  <2> QED BY <2>1
<1>24. \A i \in 1..n : \E k \in 1..n : g[k] = i
  <2>1. n \in Nat /\ g \in [1..n -> 1..n]
    BY <1>1, <1>19
  <2> QED BY <2>1, <1>23, OntoItself
<1>25. \A k \in 1..n : t[k] = q[g[k]]
  <2> TAKE k \in 1..n
  <2>1. t[k] = r[p[k]] /\ p[k] \in 1..n /\ g[k] = f[p[k]]
    BY <1>18, <1>19
  <2>2. r[p[k]] = q[f[p[k]]]
    BY <2>1, <1>1
  <2> QED BY <2>1, <2>2
<1>26. ASSUME NEW j \in 1..n, NEW k \in 1..n, j < k
       PROVE  \/ Key(t[j]) % (2 * d) < Key(t[k]) % (2 * d)
              \/ Key(t[j]) % (2 * d) = Key(t[k]) % (2 * d) /\ g[j] < g[k]
  <2> DEFINE x == Key(t[j]) % d
             y == Key(t[k]) % d
             xx == Key(t[j]) % (2 * d)
             yy == Key(t[k]) % (2 * d)
  <2>1. /\ x \in 0..(d - 1) /\ xx = Bit(t[j]) * d + x
        /\ y \in 0..(d - 1) /\ yy = Bit(t[k]) * d + y
    BY <1>4, <1>18
  <2>2. CASE j <= a /\ ~(k <= a)
    <3>1. Bit(t[j]) = 0 /\ Bit(t[k]) = 1
      BY <2>2, <1>6, <1>7, <1>18
    <3> HIDE DEF x, y, xx, yy
    <3>2. xx = x /\ yy = d + y
      BY <2>1, <3>1, <1>1
    <3>3. xx < yy
      BY <2>1, <3>2, <1>1
    <3> QED BY <3>3 DEF xx, yy
  <2>3. CASE j <= a <=> k <= a
    <3>1. p[j] < p[k] /\ p[j] \in 1..n /\ p[k] \in 1..n
      BY <2>3, <1>18, <1>20, <1>26
    <3>2. \/ Key(r[p[j]]) % d < Key(r[p[k]]) % d
          \/ Key(r[p[j]]) % d = Key(r[p[k]]) % d /\ f[p[j]] < f[p[k]]
      BY <3>1, <1>1a
    <3>3. x < y \/ (x = y /\ g[j] < g[k])
      BY <3>2, <1>18, <1>19
    <3>4. \/ Bit(t[j]) = 0 /\ Bit(t[k]) = 0
          \/ Bit(t[j]) = 1 /\ Bit(t[k]) = 1
      BY <2>3, <1>6, <1>7, <1>18
    <3> DEFINE gj == g[j]
               gk == g[k]
    <3>5. x < y \/ (x = y /\ gj < gk)
      BY <3>3
    <3> HIDE DEF x, y, xx, yy, gj, gk
    <3>6. xx < yy \/ (xx = yy /\ gj < gk)
      <4>1. CASE Bit(t[j]) = 0 /\ Bit(t[k]) = 0
        <5>1. xx = x /\ yy = y
          BY <2>1, <4>1, <1>1
        <5> QED BY <5>1, <3>5
      <4>2. CASE Bit(t[j]) = 1 /\ Bit(t[k]) = 1
        <5>1. xx = d + x /\ yy = d + y
          BY <2>1, <4>2, <1>1
        <5> QED BY <5>1, <3>5, <2>1, <1>1
      <4> QED BY <3>4, <4>1, <4>2
    <3> QED BY <3>6 DEF xx, yy, gj, gk
  <2>4. ~(~(j <= a) /\ k <= a)
    BY <1>1, <1>12, <1>26
  <2> QED BY <2>2, <2>3, <2>4
<1>27. 2 * d \in Nat \ {0}
  BY <1>1
<1>28. Arranged(S, q, t, 2 * d, g)
  BY <1>1, <1>15, <1>19, <1>23, <1>24, <1>25, <1>26, <1>27 DEF Arranged, n
<1> QED
  BY <1>28

(* What FoldLeft iterates in Sorted.                                       *)
Passes(g, start, n, q) ==
  g = [T \in SUBSET (1..n) |->
         IF T = {} THEN start ELSE RadixPass(g[T \ {Max(T)}], q[Max(T)])]

(* The loop stays in V, and goes from each F[k - 1] to F[k].               *)
PassesIn(V, n, q) ==
  \A k \in 1..n, x \in V : RadixPass(x, q[k]) \in V
PassesSteps(F, n, q) ==
  \A k \in 1..n : F[k] = RadixPass(F[k - 1], q[k])

(* It goes through the digits one after another.                           *)
LEMMA PassesRun ==
  ASSUME NEW n \in Nat, NEW q, NEW V, NEW start \in V,
         PassesIn(V, n, q)
  PROVE  \E F : /\ F \in [0..n -> V] /\ F[0] = start
               /\ PassesSteps(F, n, q)
               /\ F[n] = (CHOOSE g : Passes(g, start, n, q))[1..n]
<1> DEFINE step == [k \in 1..n |-> [x \in V |-> RadixPass(x, q[k])]]
           iter == CHOOSE g : Passes(g, start, n, q)
<1>1. IsStep(step, n, V)
  BY DEF IsStep, PassesIn
<1>2. \A k \in 1..n, x \in V : step[k][x] = RadixPass(x, q[k])
  OBVIOUS
<1> HIDE DEF step
<1>4. PICK g \in [SUBSET (1..n) -> V] : FoldsUp(g, n, V, start, step)
  BY <1>1, FoldExists, Zenon
<1>5. Passes(g, start, n, q)
  <2>1. ASSUME NEW T \in SUBSET (1..n)
        PROVE  g[T] = IF T = {} THEN start ELSE RadixPass(g[T \ {Max(T)}], q[Max(T)])
    <3>1. CASE T # {}
      <4>1. Max(T) \in 1..n
        BY <3>1, MaxOfPart
      <4>2. T \ {Max(T)} \in SUBSET (1..n)
        OBVIOUS
      <4>3. g[T \ {Max(T)}] \in V
        BY <4>2
      <4>4. g[T] = step[Max(T)][g[T \ {Max(T)}]]
        BY <1>4, <3>1, <4>3, Zenon DEF FoldsUp
      <4>5. step[Max(T)][g[T \ {Max(T)}]] = RadixPass(g[T \ {Max(T)}], q[Max(T)])
        BY <1>2, <4>1, <4>3, Zenon
      <4> QED BY <3>1, <4>4, <4>5
    <3>2. CASE T = {}
      BY <3>2, <1>4 DEF FoldsUp
    <3> QED BY <3>1, <3>2
  <2> QED BY <2>1 DEF Passes
<1>6. Passes(iter, start, n, q)
  BY <1>5, Zenon
<1>7. \A T \in SUBSET (1..n) :
        iter[T] = IF T = {} THEN start ELSE RadixPass(iter[T \ {Max(T)}], q[Max(T)])
  <2> HIDE DEF iter
  <2> QED BY <1>6 DEF Passes
<1> HIDE DEF iter
<1>8. FoldsUp(iter, n, V, start, step)
  <2>1. \A T \in SUBSET (1..n) : T # {} => Max(T) \in 1..n
    BY MaxOfPart
  <2>2. \A T \in SUBSET (1..n) :
          T # {} /\ iter[T \ {Max(T)}] \in V
            => iter[T] = step[Max(T)][iter[T \ {Max(T)}]]
    <3> TAKE T \in SUBSET (1..n)
    <3> HAVE T # {} /\ iter[T \ {Max(T)}] \in V
    <3>1. iter[T] = RadixPass(iter[T \ {Max(T)}], q[Max(T)])
      BY <1>7
    <3>2. Max(T) \in 1..n
      BY <2>1
    <3>3. step[Max(T)][iter[T \ {Max(T)}]] = RadixPass(iter[T \ {Max(T)}], q[Max(T)])
      BY <1>2, <3>2, Zenon
    <3> QED BY <3>1, <3>3
  <2>3. iter[{}] = start
    BY <1>7
  <2> QED BY <2>2, <2>3 DEF FoldsUp
<1>9. PICK F : Steps(F, n, V, start, step) /\ iter[1..n] = F[n]
  BY <1>1, <1>8, FoldPrefixes
<1>10. F \in [0..n -> V] /\ F[0] = start /\ \A k \in 1..n : F[k] = step[k][F[k - 1]]
  BY <1>9 DEF Steps
<1>11. \A k \in 1..n : F[k] = RadixPass(F[k - 1], q[k])
  <2> TAKE k \in 1..n
  <2>1. k - 1 \in 0..n
    OBVIOUS
  <2>2. F[k - 1] \in V
    BY <1>10, <2>1
  <2>3. step[k][F[k - 1]] = RadixPass(F[k - 1], q[k])
    BY <1>2, <2>2, Zenon
  <2> QED BY <2>3, <1>10
<1> QED
  BY <1>9, <1>10, <1>11 DEF iter, PassesSteps

(* What has a side and a price has a key.                                  *)
LEMMA KeyIs ==
  ASSUME NEW x, x.side \in Side, x.price \in Price
  PROVE  Key(x) \in Nat /\ Key(x) < 2 * Last(Digits)
<1>1. LevelKey[x.side][x.price] \in Nat /\ LevelKey[x.side][x.price] < 2 * Last(Digits)
  BY LevelKeyAssumption
<1> QED
  BY <1>1 DEF Key

(* A pass of the sort keeps its records' type.                             *)
LEMMA PassTyped ==
  ASSUME NEW S, NEW r \in Seq(S), NEW d
  PROVE  RadixPass(r, d) \in Seq(S)
<1> DEFINE K == {x \in Range(r) : (Key(x) \div d) % 2 = 0}
           L == {x \in Range(r) : (Key(x) \div d) % 2 = 1}
           u == Those(r, K)
           v == Those(r, L)
<1>1. RadixPass(r, d) = u \o v
  BY DEF RadixPass
<1> HIDE DEF K, L
<1>2. u \in Seq(S \cap K) /\ v \in Seq(S \cap L)
  BY ThoseTyped
<1> HIDE DEF u, v
<1>3. u \in Seq(S) /\ v \in Seq(S)
  BY <1>2
<1> QED
  BY <1>1, <1>3, ConcatProperties

(* r is q by key, what has the same key in the order of q; f is where each *)
(* came from.                                                              *)
ByKey(S, q, r, f) ==
  /\ q \in Seq(S) /\ r \in Seq(S) /\ Len(r) = Len(q)
  /\ f \in [1..Len(q) -> 1..Len(q)]
  /\ \A j, k \in 1..Len(q) : f[j] = f[k] => j = k
  /\ \A i \in 1..Len(q) : \E k \in 1..Len(q) : f[k] = i
  /\ \A k \in 1..Len(q) : r[k] = q[f[k]]
  /\ \A j, k \in 1..Len(q) : j < k =>
       \/ Key(r[j]) < Key(r[k])
       \/ Key(r[j]) = Key(r[k]) /\ f[j] < f[k]

(* sort_primary sorts by key and is stable.                                *)
LEMMA SortedIs ==
  ASSUME NEW S, \A x \in S : x.side \in Side /\ x.price \in Price, NEW q \in Seq(S),
         NEW r, r = Sorted(q)
  PROVE  \E f : ByKey(S, q, r, f)
<1> DEFINE n == Len(Digits)
           V == Seq(S)
           w(k) == IF k = 0 THEN 1 ELSE 2 * Digits[k]
<1>1. \A x \in S : Key(x) \in Nat /\ Key(x) < 2 * Last(Digits)
  BY KeyIs
<1>2. /\ n \in Nat /\ n # 0 /\ DOMAIN Digits = 1..n /\ \A k \in 1..n : Digits[k] \in Nat
      /\ Digits[1] = 1 /\ \A k \in 2..n : Digits[k] = 2 * Digits[k - 1]
  BY LevelKeyAssumption, LenProperties, ElementOfSeq, EmptySeq
<1>3. r = (CHOOSE g : Passes(g, q, n, Digits))[1..n]
  BY <1>2 DEF Sorted, FoldLeft, MapThenFoldSet, Passes
<1>4. PassesIn(V, n, Digits)
  BY PassTyped DEF PassesIn
<1> HIDE DEF V
<1>5. PICK F : /\ F \in [0..n -> V] /\ F[0] = q /\ PassesSteps(F, n, Digits) /\ F[n] = r
  <2>1. q \in V
    BY DEF V
  <2>2. n \in Nat
    BY <1>2
  <2> HIDE DEF n
  <2>3. \E F : /\ F \in [0..n -> V] /\ F[0] = q
               /\ PassesSteps(F, n, Digits)
               /\ F[n] = (CHOOSE g : Passes(g, q, n, Digits))[1..n]
    BY <2>1, <2>2, <1>4, PassesRun
  <2> QED BY <2>3, <1>3
<1> DEFINE Upto(k) == \E f : Arranged(S, q, F[k], w(k), f)
           P == {k \in Nat : k <= n => Upto(k)}
<1> HIDE DEF n
<1>6. Upto(0)
  <2> DEFINE N == Len(q)
             f == [k \in 1..N |-> k]
  <2>1. N \in Nat /\ \A k \in 1..N : q[k] \in S
    BY LenProperties, ElementOfSeq
  <2>2. \A k \in 1..N : Key(q[k]) % 1 = 0
    <3> TAKE k \in 1..N
    <3>1. Key(q[k]) \in Nat
      BY <1>1, <2>1
    <3> DEFINE z == Key(q[k])
    <3> HIDE DEF z
    <3>2. z \in Nat => z % 1 = 0
      OBVIOUS
    <3> QED BY <3>1, <3>2 DEF z
  <2>3. f \in [1..N -> 1..N] /\ \A k \in 1..N : f[k] = k
    OBVIOUS
  <2> HIDE DEF f
  <2>4. Arranged(S, q, q, 1, f)
    BY <2>1, <2>2, <2>3 DEF Arranged
  <2> QED BY <2>4, <1>5
<1>7. ASSUME NEW k \in P PROVE k + 1 \in P
  <2>1. SUFFICES ASSUME k + 1 <= n PROVE Upto(k + 1)
    OBVIOUS
  <2>2. k \in Nat /\ k \in 0..n /\ k + 1 \in 1..n /\ (k + 1) - 1 = k /\ Upto(k) /\ k + 1 # 0
    BY <1>2, <2>1
  <2>3. PICK f : Arranged(S, q, F[k], w(k), f)
    BY <2>2
  <2>4. Digits[k + 1] = w(k)
    <3>1. CASE k = 0
      BY <3>1, <1>2
    <3>2. CASE k # 0
      <4>1. k + 1 \in 2..n
        BY <3>2, <2>2, <1>2
      <4>2. Digits[k + 1] = 2 * Digits[k]
        BY <4>1, <2>2, <1>2
      <4> QED BY <3>2, <4>2
    <3> QED BY <3>1, <3>2
  <2>5. F[k + 1] = RadixPass(F[k], Digits[k + 1])
    BY <2>2, <1>5 DEF PassesSteps
  <2> DEFINE d == w(k)
             a == F[k]
             t == F[k + 1]
  <2>6. Arranged(S, q, a, d, f) /\ t = RadixPass(a, d)
    BY <2>3, <2>4, <2>5
  <2>7. w(k + 1) = 2 * d
    BY <2>2, <2>4
  <2> HIDE DEF d, a, t, w
  <2>8. \E g : Arranged(S, q, t, 2 * d, g)
    BY <2>6, <1>1, PassArranges
  <2> QED BY <2>7, <2>8 DEF t
<1>8. P \in SUBSET Nat /\ 0 \in P
  BY <1>6
<1>8a. \A k \in P : k + 1 \in P
  BY <1>7
<1>9. Upto(n)
  <2> HIDE DEF Upto, P
  <2>1. P = Nat
    BY <1>8a, <1>8, Induction
  <2>2. n \in P
    BY <2>1, <1>2
  <2>3. n <= n
    BY <1>2
  <2> QED BY <2>2, <2>3 DEF P
<1>10. PICK f : Arranged(S, q, r, w(n), f)
  BY <1>9, <1>5
<1>11. w(n) = 2 * Last(Digits)
  BY <1>2 DEF Last, n
<1> HIDE DEF w
<1>12. \A k \in 1..Len(q) : Key(r[k]) % w(n) = Key(r[k])
  <2> TAKE k \in 1..Len(q)
  <2>1. r[k] \in S /\ w(n) \in Nat \ {0}
    <3>1. r \in Seq(S) /\ Len(r) = Len(q) /\ w(n) \in Nat \ {0}
      BY <1>10 DEF Arranged
    <3> QED BY <3>1, ElementOfSeq
  <2> DEFINE a == Key(r[k])
             z == w(n)
  <2>2. a \in Nat /\ z \in Nat \ {0} /\ a < z
    BY <2>1, <1>1, <1>11
  <2> HIDE DEF a, z
  <2>3. 0 \in Int /\ a \in 0..(z - 1) /\ a = z * 0 + a
    BY <2>2
  <2>4. a % z = a
    BY <2>2, <2>3, RemainderIs
  <2> QED BY <2>4 DEF a, z
<1>13. ByKey(S, q, r, f)
  BY <1>10, <1>12 DEF Arranged, ByKey
<1> QED
  BY <1>13

-----------------------------------------------------------------------------
(* restore_snapshot_order: one order, at its place                         *)

(* An order's number is set, a slot is taken and the counter set.          *)
Renumbered(c, id, n, used, top) ==
  [c EXCEPT !.order[id].seq = n, !.used = used, !.seq = top]

(* A restored order's own sequence number disturbs no structure.           *)
LEMMA RenumberedIs ==
  ASSUME NEW c, Sound(c), Sums(c), NEW id \in OrderId, NEW n \in 0..MaxSequence,
         NEW used \in Nat, NEW top \in 0..MaxSequence, NEW d, d = Renumbered(c, id, n, used, top)
  PROVE  /\ Sound(d) /\ Sums(d)
         /\ d.level = c.level /\ d.total = c.total /\ d.best = c.best /\ d.index = c.index
         /\ d.used = used /\ d.seq = top
         /\ d.order[id] = [c.order[id] EXCEPT !.seq = n]
         /\ SameBut(c, d, id)
<1>1. c \in BookType /\ c.order[id] \in Order /\ c.index \subseteq OrderId
      /\ c.level \in [Side -> [Price -> Seq(OrderId)]]
  BY DEF Sound, BookType
<1> DEFINE o == [c.order[id] EXCEPT !.seq = n]
<1>2. /\ o \in Order /\ o.side = c.order[id].side /\ o.price = c.order[id].price
      /\ o.qty = c.order[id].qty
  BY <1>1 DEF Order
<1>3. /\ d.level = c.level /\ d.total = c.total /\ d.best = c.best /\ d.index = c.index
      /\ d.used = used /\ d.seq = top /\ d.order = [c.order EXCEPT ![id] = o]
      /\ d = [level |-> d.level, total |-> d.total, best |-> d.best, order |-> d.order,
              index |-> d.index, used |-> d.used, seq |-> d.seq]
  BY <1>1 DEF Renumbered, BookType
<1> HIDE DEF o
<1>4. d.order[id] = o /\ d.order \in [OrderId -> Order] /\ \A x \in OrderId : x # id => d.order[x] = c.order[x]
  BY <1>1, <1>2, <1>3 DEF BookType
<1>5. d \in BookType
  BY <1>1, <1>3, <1>4 DEF BookType
<1>6. \A x \in OrderId : /\ d.order[x].side = c.order[x].side /\ d.order[x].price = c.order[x].price
                         /\ d.order[x].qty = c.order[x].qty
  BY <1>2, <1>4
<1>7. \A t \in Side : Occupied(d, t) = Occupied(c, t)
  BY <1>3 DEF Occupied
<1>8. BestIsCached(d)
  BY <1>3, <1>7 DEF Sound, BestIsCached
<1>9. IndexedAreQueued(d)
  <2>1. IndexedAreQueued(c) /\ d.level = c.level /\ d.index = c.index
    BY <1>3 DEF Sound
  <2> SUFFICES ASSUME NEW x \in d.index
               PROVE  /\ d.order[x].price \in Price
                      /\ \E i \in DOMAIN d.level[d.order[x].side][d.order[x].price] :
                           d.level[d.order[x].side][d.order[x].price][i] = x
    BY DEF IndexedAreQueued
  <2>2. x \in c.index /\ d.order[x].side = c.order[x].side /\ d.order[x].price = c.order[x].price
    BY <1>1, <1>3, <1>6
  <2> QED BY <2>1, <2>2 DEF IndexedAreQueued
<1>10. QueuedAreIndexed(d)
  <2> SUFFICES ASSUME NEW s \in Side, NEW p \in Price, NEW i \in DOMAIN c.level[s][p]
               PROVE  /\ c.level[s][p][i] \in c.index
                      /\ d.order[c.level[s][p][i]].side = s
                      /\ d.order[c.level[s][p][i]].price = p
                      /\ \A j \in DOMAIN c.level[s][p] :
                           c.level[s][p][j] = c.level[s][p][i] => j = i
    BY <1>3 DEF QueuedAreIndexed
  <2>1. /\ c.level[s][p][i] \in c.index /\ c.level[s][p][i] \in OrderId
        /\ c.order[c.level[s][p][i]].side = s
        /\ c.order[c.level[s][p][i]].price = p
        /\ \A j \in DOMAIN c.level[s][p] :
             c.level[s][p][j] = c.level[s][p][i] => j = i
    BY Queued
  <2> QED BY <2>1, <1>6
<1>11. Sums(d)
  <2> SUFFICES ASSUME NEW s \in Side, NEW p \in Price
               PROVE  d.total[s][p] = QuantityOf(d, d.level[s][p])
    BY DEF Sums
  <2> DEFINE fifo == c.level[s][p]
  <2>1. fifo \in Seq(OrderId) /\ \A i \in DOMAIN fifo : fifo[i] \in OrderId
    BY Queued
  <2>2. \A i \in DOMAIN fifo : d.order[fifo[i]].qty = c.order[fifo[i]].qty
    BY <2>1, <1>6
  <2> HIDE DEF fifo
  <2>3. QuantityOf(d, fifo) = QuantityOf(c, fifo)
    BY <2>1, <2>2, <1>1, <1>5, SumKept
  <2> QED BY <2>3, <1>3 DEF Sums, fifo
<1> QED
  BY <1>3, <1>4, <1>5, <1>8, <1>9, <1>10, <1>11 DEF Sound, SameBut, o

(* The orders of an image, as it may be read.                              *)
OrderRecord ==
  [id: OrderId \cup {InvalidId}, side: Side, price: Price \cup {NoPrice}, qty: 0..MaxQuantity,
   seq: 0..MaxSequence, initial: 0..MaxQuantity, partly: BOOLEAN]

(* Those that can be restored.                                             *)
Restorable(top) ==
  {o \in OrderRecord :
     /\ o.id \in OrderId /\ o.price \in Price /\ o.qty \in 1..o.initial
     /\ o.partly => o.qty < o.initial
     /\ o.seq \in 1..top}

(* The node of a restored order.                                           *)
NodeOf(o) ==
  [side |-> o.side, price |-> o.price, qty |-> o.qty, seq |-> o.seq, owner |-> Anonymous]

(* The book b, and what is held, with order o restored.                    *)
PlacedBook(b, o) ==
  [Rested(b, o.id, o.side, o.price, o.qty, Anonymous) EXCEPT
     !.order[o.id].seq = o.seq, !.used = @ + 1, !.seq = b.seq]
Placed(h, o) ==
  [h EXCEPT !.book = PlacedBook(@, o), !.initial[o.id] = o.initial,
            !.partly = IF o.partly THEN @ \cup {o.id} ELSE @]

(* b can take order o.                                                     *)
Takeable(b, o) ==
  o.id \notin b.index /\ o.qty <= MaxQuantity - b.total[o.side][o.price]

(* What is known of an order that can be restored, one by one.             *)
LEMMA RestorableIs ==
  ASSUME NEW top \in 0..MaxSequence, NEW o \in Restorable(top)
  PROVE  /\ o.id \in OrderId /\ o.side \in Side /\ o.price \in Price
         /\ o.qty \in 0..MaxQuantity /\ o.qty \in 1..o.initial /\ o.initial \in 0..MaxQuantity
         /\ o.partly \in BOOLEAN /\ (o.partly => o.qty < o.initial)
         /\ o.seq \in 1..top /\ o.seq \in 0..MaxSequence
         /\ NodeOf(o) \in Order
  BY ParticipantAssumption DEF Restorable, OrderRecord, NodeOf, Order

(* c is b with order o at the end of its queue.                            *)
TakesOrder(b, c, o) ==
  /\ Sound(c) /\ Sums(c) /\ c.index = b.index \cup {o.id} /\ c.used = b.used + 1 /\ c.seq = b.seq
  /\ c.order[o.id] = NodeOf(o) /\ SameBut(b, c, o.id)
  /\ c.level[o.side][o.price] = Append(b.level[o.side][o.price], o.id)
  /\ SameElsewhere(b, c, o.side, o.price)
  /\ c.total[o.side][o.price] = b.total[o.side][o.price] + o.qty

(* An order for which there is room is placed behind its level.            *)
LEMMA PlacedBookIs ==
  ASSUME NEW b, Sound(b), Sums(b), NEW top \in 0..MaxSequence, NEW o \in Restorable(top),
         Takeable(b, o), NEW c, c = PlacedBook(b, o)
  PROVE  TakesOrder(b, c, o)
<1> DEFINE id == o.id
           s == o.side
           p == o.price
           qty == o.qty
           n == o.seq
           r == Rested(b, id, s, p, qty, Anonymous)
           used == b.used + 1
           q == b.seq
<1>1. /\ id \in OrderId /\ s \in Side /\ p \in Price /\ qty \in 0..MaxQuantity /\ n \in 0..MaxSequence
  BY RestorableIs
<1>2. id \notin b.index /\ qty <= MaxQuantity - b.total[s][p]
  BY DEF Takeable
<1>3. Anonymous \in Participant /\ b \in BookType /\ used \in Nat /\ q \in 0..MaxSequence
  BY ParticipantAssumption DEF Sound, BookType
<1> HIDE DEF id, s, p, qty, n
<1>4. /\ Sound(r) /\ r.index = b.index \cup {id} /\ r.used = b.used
  BY <1>1, <1>2, <1>3, RestedSound
<1>5. Sums(r) /\ SameBut(b, r, id)
  BY <1>1, <1>2, <1>3, RestedSums
<1>6. /\ r.level[s][p] = Append(b.level[s][p], id)
      /\ r.total[s][p] = b.total[s][p] + qty
      /\ SameElsewhere(b, r, s, p)
  <2>1. r = Rested(b, id, s, p, qty, Anonymous)
    OBVIOUS
  <2>2. PICK owner : owner = Anonymous
    OBVIOUS
  <2>3. r = Rested(b, id, s, p, qty, owner)
    BY <2>1, <2>2
  <2> HIDE DEF r
  <2> QED BY <2>3, <1>1, <1>3, RestedChanges
<1>7. r.order[id] = [side |-> s, price |-> p, qty |-> qty, seq |-> NextSequence(b), owner |-> Anonymous]
  BY <1>1, <1>3 DEF Rested, BookType
<1>8. c = Renumbered(r, id, n, used, q)
  <2>1. c = [r EXCEPT !.order[id].seq = n, !.used = @ + 1, !.seq = q]
    BY DEF PlacedBook, id, s, p, qty, n
  <2>2. r \in BookType
    BY <1>4 DEF Sound
  <2> HIDE DEF r, q
  <2> QED BY <2>1, <2>2, <1>4 DEF Renumbered, BookType
<1> HIDE DEF r, used, q
<1>9. /\ Sound(c) /\ Sums(c)
      /\ c.level = r.level /\ c.total = r.total /\ c.best = r.best /\ c.index = r.index
      /\ c.used = used /\ c.seq = q
      /\ c.order[id] = [r.order[id] EXCEPT !.seq = n]
      /\ SameBut(r, c, id)
  BY <1>1, <1>3, <1>4, <1>5, <1>8, RenumberedIs
<1>10. c.order[id] = NodeOf(o)
  BY <1>7, <1>9 DEF NodeOf, s, p, qty, n
<1>11. SameBut(b, c, id)
  BY <1>5, <1>9 DEF SameBut
<1>12. SameElsewhere(b, c, s, p)
  BY <1>6, <1>9 DEF SameElsewhere
<1>13. /\ c.index = b.index \cup {id} /\ c.used = b.used + 1 /\ c.seq = b.seq
       /\ c.level[s][p] = Append(b.level[s][p], id)
       /\ c.total[s][p] = b.total[s][p] + qty
  BY <1>4, <1>6, <1>9 DEF used, q
<1> QED
  BY <1>9, <1>10, <1>11, <1>12, <1>13 DEF TakesOrder, id, s, p, qty

(* The same with the lifecycle stored beside the order.                    *)
LEMMA PlacedIs ==
  ASSUME NEW h \in HeldType, Sound(h.book), Sums(h.book),
         NEW top \in 0..MaxSequence, NEW o \in Restorable(top),
         Takeable(h.book, o), NEW g, g = Placed(h, o)
  PROVE  /\ g \in HeldType /\ TakesOrder(h.book, g.book, o)
         /\ g.initial[o.id] = o.initial /\ (o.id \in g.partly <=> o.id \in h.partly \/ o.partly)
         /\ \A y \in OrderId : y # o.id =>
              g.initial[y] = h.initial[y] /\ (y \in g.partly <=> y \in h.partly)
<1> DEFINE b == h.book
           c == PlacedBook(b, o)
<1>1. TakesOrder(b, c, o)
  BY PlacedBookIs
<1>2. /\ h.initial \in [OrderId -> 0..MaxQuantity] /\ h.partly \subseteq OrderId
      /\ h.events \in Nat /\ h.feed \in Nat
  BY DEF HeldType
<1>3. /\ g.book = c /\ g.events = h.events /\ g.feed = h.feed
      /\ g.initial = [h.initial EXCEPT ![o.id] = o.initial]
      /\ g.partly = IF o.partly THEN h.partly \cup {o.id} ELSE h.partly
      /\ g = [book |-> g.book, initial |-> g.initial, partly |-> g.partly,
              events |-> g.events, feed |-> g.feed]
  BY DEF HeldType, Placed
<1> HIDE DEF c
<1>4. o.id \in OrderId /\ o.initial \in 0..MaxQuantity /\ o.partly \in BOOLEAN
  BY RestorableIs
<1>5. c \in BookType
  BY <1>1 DEF TakesOrder, Sound
<1>6. g.initial \in [OrderId -> 0..MaxQuantity] /\ g.partly \subseteq OrderId
  BY <1>2, <1>3, <1>4
<1>7. g \in HeldType
  BY <1>2, <1>3, <1>5, <1>6 DEF HeldType
<1>8. /\ g.initial[o.id] = o.initial /\ (o.id \in g.partly <=> o.id \in h.partly \/ o.partly)
      /\ \A y \in OrderId : y # o.id =>
           g.initial[y] = h.initial[y] /\ (y \in g.partly <=> y \in h.partly)
  BY <1>2, <1>3, <1>4
<1> QED
  BY <1>1, <1>3, <1>7, <1>8

(* What restore may answer.                                                *)
Status == {"Accepted", "PoolExhausted", "PriceLevelQuantityOverflow", "DuplicateOrderId"}

(* What restoring one order comes to.                                      *)
OrderCanBeTaken(i, b, o) == b.used # MaxOrders[i] /\ Takeable(b, o)
OrderTaken(i, h, o, r) ==
  r.status = "Accepted" /\ OrderCanBeTaken(i, h.book, o) /\ r.held = Placed(h, o)
OrderRefused(h, r) == r.held = h /\ r.status \in Status \ {"Accepted"}

(* restore_snapshot_order takes the order, or refuses and changes          *)
(* nothing.                                                                *)
LEMMA RestoreOrderIs ==
  ASSUME NEW i, NEW h \in HeldType, NEW top \in 0..MaxSequence, NEW o \in Restorable(top),
         NEW r, r = RestoreOrder(i, h, o)
  PROVE  /\ r = [held |-> r.held, status |-> r.status]
         /\ IF OrderCanBeTaken(i, h.book, o) THEN OrderTaken(i, h, o, r) ELSE OrderRefused(h, r)
<1> DEFINE b == h.book
           g == Placed(h, o)
           x == b.total[o.side][o.price]
<1>1. b \in BookType /\ o.side \in Side /\ o.price \in Price /\ o.qty \in 0..MaxQuantity
  BY RestorableIs DEF HeldType
<1>2. x \in 0..MaxQuantity /\ MaxQuantity \in Nat
  BY <1>1, WidthAssumption DEF BookType
<1>3. g = [h EXCEPT !.book = [Rested(b, o.id, o.side, o.price, o.qty, Anonymous) EXCEPT
                                   !.order[o.id].seq = o.seq, !.used = @ + 1, !.seq = b.seq],
                       !.initial[o.id] = o.initial,
                       !.partly = IF o.partly THEN @ \cup {o.id} ELSE @]
  BY DEF Placed, PlacedBook, HeldType
<1> HIDE DEF g
<1>4. r = IF b.used = MaxOrders[i] THEN [held |-> h, status |-> "PoolExhausted"]
          ELSE IF MaxQuantity - x < o.qty
            THEN [held |-> h, status |-> "PriceLevelQuantityOverflow"]
          ELSE IF o.id \in b.index THEN [held |-> h, status |-> "DuplicateOrderId"]
          ELSE [held |-> g, status |-> "Accepted"]
  BY <1>3 DEF RestoreOrder
<1>5. CASE b.used = MaxOrders[i]
  <2>1. r = [held |-> h, status |-> "PoolExhausted"]
    BY <1>4, <1>5
  <2> QED BY <2>1, <1>5 DEF OrderCanBeTaken, OrderRefused, Status
<1>6. CASE b.used # MaxOrders[i] /\ MaxQuantity - x < o.qty
  <2>1. r = [held |-> h, status |-> "PriceLevelQuantityOverflow"]
    BY <1>4, <1>6
  <2>2. ~(o.qty <= MaxQuantity - x)
    BY <1>1, <1>2, <1>6
  <2> QED BY <2>1, <2>2, <1>6 DEF OrderCanBeTaken, OrderRefused, Status, Takeable
<1>7. CASE b.used # MaxOrders[i] /\ ~(MaxQuantity - x < o.qty) /\ o.id \in b.index
  <2>1. r = [held |-> h, status |-> "DuplicateOrderId"]
    BY <1>4, <1>7
  <2> QED BY <2>1, <1>7 DEF OrderCanBeTaken, OrderRefused, Status, Takeable
<1>8. CASE b.used # MaxOrders[i] /\ ~(MaxQuantity - x < o.qty) /\ o.id \notin b.index
  <2>1. r = [held |-> g, status |-> "Accepted"]
    BY <1>4, <1>8
  <2>2. o.qty <= MaxQuantity - x
    BY <1>1, <1>2, <1>8
  <2> QED BY <2>1, <2>2, <1>8 DEF OrderCanBeTaken, OrderTaken, Takeable, g
<1> QED
  BY <1>5, <1>6, <1>7, <1>8

(* What FoldLeft iterates in RestoreBook.                                  *)
Restores(g, start, n, q, i) ==
  g = [T \in SUBSET (1..n) |->
         IF T = {} THEN start ELSE (IF g[T \ {Max(T)}].status = "Accepted" THEN RestoreOrder(i, g[T \ {Max(T)}].held, q[Max(T)]) ELSE g[T \ {Max(T)}])]

(* The loop stays in V, and goes from each F[k - 1] to F[k].               *)
RestoresIn(V, n, q, i) ==
  \A k \in 1..n, x \in V : (IF x.status = "Accepted" THEN RestoreOrder(i, x.held, q[k]) ELSE x) \in V
RestoresSteps(F, n, q, i) ==
  \A k \in 1..n : F[k] = (IF F[k - 1].status = "Accepted" THEN RestoreOrder(i, F[k - 1].held, q[k]) ELSE F[k - 1])

(* It goes through the orders one after another.                           *)
LEMMA RestoresRun ==
  ASSUME NEW n \in Nat, NEW q, NEW i, NEW V, NEW start \in V,
         RestoresIn(V, n, q, i)
  PROVE  \E F : /\ F \in [0..n -> V] /\ F[0] = start
               /\ RestoresSteps(F, n, q, i)
               /\ F[n] = (CHOOSE g : Restores(g, start, n, q, i))[1..n]
<1> DEFINE step == [k \in 1..n |-> [x \in V |-> (IF x.status = "Accepted" THEN RestoreOrder(i, x.held, q[k]) ELSE x)]]
           iter == CHOOSE g : Restores(g, start, n, q, i)
<1>1. IsStep(step, n, V)
  BY DEF IsStep, RestoresIn
<1>2. \A k \in 1..n, x \in V : step[k][x] = (IF x.status = "Accepted" THEN RestoreOrder(i, x.held, q[k]) ELSE x)
  OBVIOUS
<1> HIDE DEF step
<1>4. PICK g \in [SUBSET (1..n) -> V] : FoldsUp(g, n, V, start, step)
  BY <1>1, FoldExists, Zenon
<1>5. Restores(g, start, n, q, i)
  <2>1. ASSUME NEW T \in SUBSET (1..n)
        PROVE  g[T] = IF T = {} THEN start ELSE (IF g[T \ {Max(T)}].status = "Accepted" THEN RestoreOrder(i, g[T \ {Max(T)}].held, q[Max(T)]) ELSE g[T \ {Max(T)}])
    <3>1. CASE T # {}
      <4>1. Max(T) \in 1..n
        BY <3>1, MaxOfPart
      <4>2. T \ {Max(T)} \in SUBSET (1..n)
        OBVIOUS
      <4>3. g[T \ {Max(T)}] \in V
        BY <4>2
      <4>4. g[T] = step[Max(T)][g[T \ {Max(T)}]]
        BY <1>4, <3>1, <4>3, Zenon DEF FoldsUp
      <4>5. step[Max(T)][g[T \ {Max(T)}]] = (IF g[T \ {Max(T)}].status = "Accepted" THEN RestoreOrder(i, g[T \ {Max(T)}].held, q[Max(T)]) ELSE g[T \ {Max(T)}])
        BY <1>2, <4>1, <4>3, Zenon
      <4> QED BY <3>1, <4>4, <4>5
    <3>2. CASE T = {}
      BY <3>2, <1>4 DEF FoldsUp
    <3> QED BY <3>1, <3>2
  <2> QED BY <2>1 DEF Restores
<1>6. Restores(iter, start, n, q, i)
  BY <1>5, Zenon
<1>7. \A T \in SUBSET (1..n) :
        iter[T] = IF T = {} THEN start ELSE (IF iter[T \ {Max(T)}].status = "Accepted" THEN RestoreOrder(i, iter[T \ {Max(T)}].held, q[Max(T)]) ELSE iter[T \ {Max(T)}])
  <2> HIDE DEF iter
  <2> QED BY <1>6 DEF Restores
<1> HIDE DEF iter
<1>8. FoldsUp(iter, n, V, start, step)
  <2>1. \A T \in SUBSET (1..n) : T # {} => Max(T) \in 1..n
    BY MaxOfPart
  <2>2. \A T \in SUBSET (1..n) :
          T # {} /\ iter[T \ {Max(T)}] \in V
            => iter[T] = step[Max(T)][iter[T \ {Max(T)}]]
    <3> TAKE T \in SUBSET (1..n)
    <3> HAVE T # {} /\ iter[T \ {Max(T)}] \in V
    <3>1. iter[T] = (IF iter[T \ {Max(T)}].status = "Accepted" THEN RestoreOrder(i, iter[T \ {Max(T)}].held, q[Max(T)]) ELSE iter[T \ {Max(T)}])
      BY <1>7
    <3>2. Max(T) \in 1..n
      BY <2>1
    <3>3. step[Max(T)][iter[T \ {Max(T)}]] = (IF iter[T \ {Max(T)}].status = "Accepted" THEN RestoreOrder(i, iter[T \ {Max(T)}].held, q[Max(T)]) ELSE iter[T \ {Max(T)}])
      BY <1>2, <3>2, Zenon
    <3> QED BY <3>1, <3>3
  <2>3. iter[{}] = start
    BY <1>7
  <2> QED BY <2>2, <2>3 DEF FoldsUp
<1>9. PICK F : Steps(F, n, V, start, step) /\ iter[1..n] = F[n]
  BY <1>1, <1>8, FoldPrefixes
<1>10. F \in [0..n -> V] /\ F[0] = start /\ \A k \in 1..n : F[k] = step[k][F[k - 1]]
  BY <1>9 DEF Steps
<1>11. \A k \in 1..n : F[k] = (IF F[k - 1].status = "Accepted" THEN RestoreOrder(i, F[k - 1].held, q[k]) ELSE F[k - 1])
  <2> TAKE k \in 1..n
  <2>1. k - 1 \in 0..n
    OBVIOUS
  <2>2. F[k - 1] \in V
    BY <1>10, <2>1
  <2>3. step[k][F[k - 1]] = (IF F[k - 1].status = "Accepted" THEN RestoreOrder(i, F[k - 1].held, q[k]) ELSE F[k - 1])
    BY <1>2, <2>2, Zenon
  <2> QED BY <2>3, <1>10
<1> QED
  BY <1>9, <1>10, <1>11 DEF iter, RestoresSteps

(* What the loop may come to in the middle.                                *)
RestoreType ==
  {x \in [held: HeldType, status: Status] : Sound(x.held.book) /\ Sums(x.held.book)}

(* The loop of restore_validated_book stays within its type.               *)
LEMMA RestoresInType ==
  ASSUME NEW i, NEW top \in 0..MaxSequence, NEW n \in Nat, NEW q, \A k \in 1..n : q[k] \in Restorable(top)
  PROVE  RestoresIn(RestoreType, n, q, i)
<1> SUFFICES ASSUME NEW k \in 1..n, NEW x \in RestoreType
             PROVE  (IF x.status = "Accepted" THEN RestoreOrder(i, x.held, q[k]) ELSE x)
                       \in RestoreType
  BY DEF RestoresIn
<1> DEFINE o == q[k]
           h == x.held
           r == RestoreOrder(i, h, o)
<1>1. h \in HeldType /\ Sound(h.book) /\ Sums(h.book) /\ o \in Restorable(top) /\ r = RestoreOrder(i, h, o)
  BY DEF RestoreType
<1> HIDE DEF o, h, r
<1>2. /\ r = [held |-> r.held, status |-> r.status]
      /\ IF OrderCanBeTaken(i, h.book, o) THEN OrderTaken(i, h, o, r) ELSE OrderRefused(h, r)
  BY <1>1, RestoreOrderIs
<1>3. CASE OrderCanBeTaken(i, h.book, o)
  <2> DEFINE g == r.held
  <2>1. g = Placed(h, o) /\ Takeable(h.book, o) /\ r.status = "Accepted"
    BY <1>2, <1>3 DEF OrderTaken, OrderCanBeTaken
  <2> HIDE DEF g
  <2>2. g \in HeldType /\ TakesOrder(h.book, g.book, o)
    BY <2>1, <1>1, PlacedIs
  <2>3. r \in RestoreType
    BY <1>2, <2>1, <2>2 DEF g, TakesOrder, Status, RestoreType
  <2> QED BY <2>3, <1>1 DEF r, o, h
<1>4. CASE ~OrderCanBeTaken(i, h.book, o)
  <2>1. r \in RestoreType
    BY <1>1, <1>2, <1>4 DEF OrderRefused, RestoreType
  <2> QED BY <2>1 DEF r, o, h
<1> QED
  BY <1>3, <1>4

(* What is held once the first k orders of r have been restored.           *)
InPlace(b, r, k) ==
  \A s \in Side, p \in Price : \A m, n \in DOMAIN b.level[s][p] : \A j, l \in 1..k :
    m < n /\ b.level[s][p][m] = r[j].id /\ b.level[s][p][n] = r[l].id => j < l
Contents(h, r, k) ==
  /\ \A x : x \in h.book.index <=> \E j \in 1..k : x = r[j].id
  /\ \A j \in 1..k :
       /\ h.book.order[r[j].id] = NodeOf(r[j])
       /\ h.initial[r[j].id] = r[j].initial /\ (r[j].id \in h.partly <=> r[j].partly)
  /\ \A j, l \in 1..k : r[j].id = r[l].id => j = l
  /\ \A id \in OrderId \ h.book.index :
       h.initial[id] = 0 /\ id \notin h.partly /\ h.book.order[id] = Blank
Restored(i, h, r, k) ==
  /\ h \in HeldType /\ Sound(h.book) /\ Sums(h.book)
  /\ IsFiniteSet(h.book.index) /\ Cardinality(h.book.index) = k
  /\ h.book.used = k /\ k <= MaxOrders[i] /\ h.book.seq = 0
  /\ Contents(h, r, k) /\ InPlace(h.book, r, k)

(* A cleared book holds the first 0 orders.                                *)
LEMMA NothingRestored ==
  ASSUME NEW i \in Instrument, NEW r
  PROVE  Restored(i, EmptyHeld, r, 0)
<1> DEFINE b == EmptyBook
<1>1. /\ EmptyHeld.book = EmptyBook /\ EmptyHeld.initial = [id \in OrderId |-> 0]
      /\ EmptyHeld.partly = {}
  BY DEF EmptyHeld
<1>2. /\ Sound(EmptyBook) /\ EmptyBook.used = 0 /\ EmptyBook.index = {} /\ EmptyBook.seq = 0
      /\ IsFiniteSet(EmptyBook.index)
  BY EmptyBookKept, FS_EmptySet DEF Kept, EmptyBook
<1>3. Cardinality(EmptyBook.index) = 0
  BY <1>2, FS_EmptySet
<1>4. \A id \in OrderId : EmptyBook.order[id] = Blank
  BY DEF EmptyBook
<1>5. MaxOrders[i] \in Nat
  BY InstrumentAssumption
<1>6. Contents(EmptyHeld, r, 0)
  BY <1>1, <1>2, <1>4 DEF Contents
<1>7. InPlace(EmptyHeld.book, r, 0)
  BY DEF InPlace
<1> QED
  BY <1>1, <1>2, <1>3, <1>5, <1>6, <1>7, EmptyHeldTyped, EmptyBookSums DEF Restored

(* One more order.                                                         *)
LEMMA RestoredGrows ==
  ASSUME NEW i \in Instrument, NEW h, NEW r, NEW k \in Nat, Restored(i, h, r, k),
         NEW top \in 0..MaxSequence, NEW l, l = k + 1, r[l] \in Restorable(top),
         OrderCanBeTaken(i, h.book, r[l]), NEW g, g = Placed(h, r[l])
  PROVE  Restored(i, g, r, l)
<1> DEFINE o == r[l]
           b == h.book
           c == g.book
           id == o.id
           s == o.side
           p == o.price
<1>1. /\ h \in HeldType /\ Sound(b) /\ Sums(b)
      /\ IsFiniteSet(b.index) /\ Cardinality(b.index) = k
      /\ b.used = k /\ k <= MaxOrders[i] /\ b.seq = 0
      /\ Contents(h, r, k) /\ InPlace(b, r, k)
  BY DEF Restored
<1>2. o \in Restorable(top) /\ Takeable(b, o) /\ g = Placed(h, o) /\ b.used # MaxOrders[i]
  BY DEF OrderCanBeTaken
<1> HIDE DEF o
<1>3. /\ g \in HeldType /\ TakesOrder(b, c, o)
      /\ g.initial[id] = o.initial /\ (id \in g.partly <=> id \in h.partly \/ o.partly)
      /\ \A y \in OrderId : y # id =>
           g.initial[y] = h.initial[y] /\ (y \in g.partly <=> y \in h.partly)
  BY <1>1, <1>2, PlacedIs
<1>4. id \in OrderId /\ s \in Side /\ p \in Price /\ id \notin b.index /\ b.index \subseteq OrderId
  BY <1>1, <1>2, RestorableIs DEF Takeable, Sound, BookType
<1>5. MaxOrders[i] \in Nat /\ 1..l = (1..k) \cup {l} /\ l \notin 1..k
  BY InstrumentAssumption
<1> HIDE DEF c, b, id, s, p
<1>6. /\ Sound(c) /\ Sums(c) /\ c.index = b.index \cup {id} /\ c.used = l /\ c.seq = 0
      /\ c.order[id] = NodeOf(o) /\ SameBut(b, c, id)
      /\ c.level[s][p] = Append(b.level[s][p], id)
      /\ SameElsewhere(b, c, s, p)
  BY <1>1, <1>3 DEF TakesOrder, id, s, p
<1>7. IsFiniteSet(c.index) /\ Cardinality(c.index) = l
  <2> DEFINE A == b.index
  <2>1. IsFiniteSet(A) /\ id \notin A /\ Cardinality(A) = k
    BY <1>1, <1>4
  <2> HIDE DEF A
  <2>2. IsFiniteSet(A \cup {id}) /\ Cardinality(A \cup {id}) = k + 1
    BY <2>1, FS_AddElement
  <2> QED BY <2>2, <1>6 DEF A
<1>8. l <= MaxOrders[i]
  BY <1>1, <1>2, <1>5
<1>9. h.initial[id] = 0 /\ id \notin h.partly /\ b.order[id] = Blank
  BY <1>1, <1>4 DEF Contents, b
<1>10. \A j \in 1..k : r[j].id \in b.index /\ r[j].id # id /\ r[j].id \in OrderId
  BY <1>1, <1>4 DEF Contents, b
<1>11. Contents(g, r, l)
  <2>1. \A x : x \in c.index <=> \E j \in 1..l : x = r[j].id
    <3>1. \A x : x \in b.index <=> \E j \in 1..k : x = r[j].id
      BY <1>1 DEF Contents, b
    <3>2. r[l].id = id
      BY DEF o, id
    <3> QED BY <3>1, <3>2, <1>5, <1>6
  <2>2. ASSUME NEW j \in 1..l
        PROVE  /\ c.order[r[j].id] = NodeOf(r[j])
               /\ g.initial[r[j].id] = r[j].initial /\ (r[j].id \in g.partly <=> r[j].partly)
    <3>1. CASE j = l
      <4>1. r[j] = o /\ r[j].id = id
        BY <3>1 DEF o, id
      <4> QED BY <4>1, <1>3, <1>6, <1>9
    <3>2. CASE j \in 1..k
      <4>1. /\ b.order[r[j].id] = NodeOf(r[j])
            /\ h.initial[r[j].id] = r[j].initial /\ (r[j].id \in h.partly <=> r[j].partly)
        BY <3>2, <1>1 DEF Contents, b
      <4>2. r[j].id # id /\ r[j].id \in OrderId
        BY <3>2, <1>10
      <4> QED BY <4>1, <4>2, <1>3, <1>6 DEF SameBut
    <3> QED BY <3>1, <3>2, <1>5
  <2>3. \A j, m \in 1..l : r[j].id = r[m].id => j = m
    <3>1. \A j, m \in 1..k : r[j].id = r[m].id => j = m
      BY <1>1 DEF Contents
    <3>2. r[l].id = id
      BY DEF o, id
    <3> QED BY <3>1, <3>2, <1>5, <1>10
  <2>4. ASSUME NEW y \in OrderId \ c.index
        PROVE  g.initial[y] = 0 /\ y \notin g.partly /\ c.order[y] = Blank
    <3>1. y # id /\ y \in OrderId /\ y \notin b.index
      BY <1>6
    <3>2. h.initial[y] = 0 /\ y \notin h.partly /\ b.order[y] = Blank
      BY <3>1, <1>1 DEF Contents, b
    <3> QED BY <3>1, <3>2, <1>3, <1>6 DEF SameBut
  <2>5. g.book = c
    BY DEF c
  <2> QED BY <2>1, <2>2, <2>3, <2>4, <2>5 DEF Contents
<1>12. InPlace(c, r, l)
  <2> SUFFICES ASSUME NEW t \in Side, NEW x \in Price,
                      NEW m \in DOMAIN c.level[t][x], NEW n \in DOMAIN c.level[t][x],
                      NEW j \in 1..l, NEW e \in 1..l,
                      m < n, c.level[t][x][m] = r[j].id, c.level[t][x][n] = r[e].id
               PROVE  j < e
    BY DEF InPlace
  <2> DEFINE fifo == b.level[t][x]
  <2>1. /\ fifo \in Seq(OrderId)
        /\ \A a \in DOMAIN fifo : fifo[a] \in b.index
    BY <1>1, Queued
  <2>2. \A a, d \in DOMAIN fifo : \A y, z \in 1..k :
          a < d /\ fifo[a] = r[y].id /\ fifo[d] = r[z].id => y < z
    BY <1>1 DEF InPlace
  <2>3. r[l].id = id
    BY DEF o, id
  <2> HIDE DEF fifo
  <2>4. CASE t = s /\ x = p
    <3> DEFINE new == Append(fifo, id)
    <3>1. /\ Len(new) = Len(fifo) + 1 /\ Len(fifo) \in Nat
          /\ \A a \in 1..Len(fifo) : new[a] = fifo[a]
          /\ new[Len(fifo) + 1] = id
          /\ DOMAIN fifo = 1..Len(fifo) /\ DOMAIN new = 1..(Len(fifo) + 1)
      <4>1. new \in Seq(OrderId)
        BY <2>1, <1>4, AppendProperties
      <4>2. DOMAIN new = 1..Len(new)
        BY <4>1, LenProperties
      <4> QED BY <4>2, <2>1, <1>4, AppendProperties, LenProperties
    <3> HIDE DEF new
    <3>2. c.level[t][x] = new
      BY <2>4, <1>6 DEF new, fifo
    <3>3. m \in 1..Len(fifo) /\ new[m] = fifo[m] /\ fifo[m] \in b.index
      BY <3>1, <3>2, <2>1
    <3>4. j \in 1..k
      BY <3>2, <3>3, <1>4, <1>5, <2>3
    <3>5. CASE n = Len(fifo) + 1
      <4>1. r[e].id = id
        BY <3>1, <3>2, <3>5
      <4>2. e = l
        BY <4>1, <1>5, <1>10
      <4> QED BY <4>2, <3>4
    <3>6. CASE n \in 1..Len(fifo)
      <4>1. new[n] = fifo[n] /\ fifo[n] \in b.index
        BY <3>6, <3>1, <2>1
      <4>2. e \in 1..k
        BY <4>1, <3>2, <1>4, <1>5, <2>3
      <4> QED BY <4>1, <4>2, <3>2, <3>3, <3>4, <3>6, <3>1, <2>2
    <3> QED BY <3>1, <3>2, <3>5, <3>6
  <2>5. CASE ~(t = s /\ x = p)
    <3>1. c.level[t][x] = fifo
      BY <2>5, <1>6 DEF SameElsewhere, fifo
    <3>2. j \in 1..k /\ e \in 1..k
      BY <3>1, <2>1, <2>3, <1>4, <1>5
    <3> QED BY <3>1, <3>2, <2>2
  <2> QED BY <2>4, <2>5
<1> QED
  BY <1>3, <1>6, <1>7, <1>8, <1>11, <1>12 DEF Restored, c

(* The loop, as far as it gets.                                            *)
RestoringTo(i, r, n, F) ==
  /\ F \in [0..n -> RestoreType]
  /\ F[0] = [held |-> EmptyHeld, status |-> "Accepted"]
  /\ RestoresSteps(F, n, r, i)

(* The loop holds the orders it has accepted, and nothing else.            *)
LEMMA RestoreSteps ==
  ASSUME NEW i \in Instrument, NEW top \in 0..MaxSequence, NEW n \in Nat, NEW r,
         \A k \in 1..n : r[k] \in Restorable(top), NEW F, RestoringTo(i, r, n, F)
  PROVE  \A k \in 0..n : F[k].status = "Accepted" => Restored(i, F[k].held, r, k)
<1> DEFINE Done(k) == F[k].status = "Accepted" => Restored(i, F[k].held, r, k)
           P == {k \in Nat : k <= n => Done(k)}
<1>0. /\ F \in [0..n -> RestoreType] /\ RestoresSteps(F, n, r, i)
      /\ F[0] = [held |-> EmptyHeld, status |-> "Accepted"]
  BY DEF RestoringTo
<1>1. Done(0)
  BY <1>0, NothingRestored
<1>2. ASSUME NEW k \in P PROVE k + 1 \in P
  <2>1. SUFFICES ASSUME k + 1 <= n, F[k + 1].status = "Accepted"
                 PROVE  Restored(i, F[k + 1].held, r, k + 1)
    OBVIOUS
  <2> DEFINE l == k + 1
             h == F[k].held
             o == r[l]
             x == RestoreOrder(i, h, o)
  <2>2. k \in Nat /\ k <= n /\ l \in 1..n /\ l - 1 = k /\ k \in 0..n
    BY <2>1
  <2>3. F[l] = IF F[k].status = "Accepted" THEN RestoreOrder(i, F[k].held, r[l]) ELSE F[k]
    BY <1>0, <2>2 DEF RestoresSteps
  <2>4. F[k].status = "Accepted" /\ F[l] = x
    BY <2>1, <2>3
  <2>5. Restored(i, h, r, k)
    BY <2>2, <2>4
  <2>6. h \in HeldType /\ o \in Restorable(top) /\ x = RestoreOrder(i, h, o)
    BY <2>2, <2>5 DEF Restored
  <2> HIDE DEF h, x
  <2>7. IF OrderCanBeTaken(i, h.book, o) THEN OrderTaken(i, h, o, x) ELSE OrderRefused(h, x)
    BY <2>6, RestoreOrderIs
  <2>8. OrderCanBeTaken(i, h.book, o) /\ x.held = Placed(h, o)
    BY <2>1, <2>4, <2>7 DEF OrderTaken, OrderRefused
  <2> DEFINE g == x.held
  <2>9. g = Placed(h, r[l]) /\ OrderCanBeTaken(i, h.book, r[l]) /\ r[l] \in Restorable(top)
    BY <2>6, <2>8
  <2>10. l = k + 1
    OBVIOUS
  <2> HIDE DEF g, l, o
  <2>11. Restored(i, g, r, l)
    BY <2>2, <2>5, <2>9, <2>10, RestoredGrows
  <2> QED BY <2>4, <2>11 DEF g, l
<1>3. P \in SUBSET Nat /\ 0 \in P
  BY <1>1
<1>4. \A k \in P : k + 1 \in P
  BY <1>2
<1> HIDE DEF P, Done
<1>5. P = Nat
  BY <1>3, <1>4, Induction
<1>6. ASSUME NEW k \in 0..n PROVE Done(k)
  <2>1. k \in P /\ k <= n
    BY <1>5
  <2> QED BY <2>1 DEF P
<1> QED
  BY <1>6 DEF Done

-----------------------------------------------------------------------------
(* restore_validated_book: a book's orders, in the order of their sequence *)

(* An image, as it may be read.                                            *)
LevelRecord == [side: Side, price: Price, qty: Nat, count: Nat]
(* The image of a book.                                                    *)
BookRecord ==
  [instrument: Nat, maxOrders: Nat, next: 0..MaxSequence, events: Nat, feed: Nat,
   orders: Seq(OrderRecord), levels: Seq(LevelRecord)]

(* An image validate_book_snapshot accepts.                                *)
Valid(i, im) == im \in BookRecord /\ BookStatus(i, im) = "Accepted"

(* What is known of a book's image that was validated, one by one.         *)
LEMMA ValidIs ==
  ASSUME NEW i \in Instrument, NEW im, Valid(i, im)
  PROVE  /\ im \in BookRecord
         /\ im.next \in 0..MaxSequence /\ im.events \in Nat /\ im.feed \in Nat
         /\ im.orders \in Seq(Restorable(im.next))
         /\ im.instrument = i /\ im.maxOrders = MaxOrders[i]
         /\ Len(im.orders) \in Nat /\ Len(im.orders) <= MaxOrders[i]
         /\ ImageUncrossed(im) /\ NothingTwice(im) /\ QueuesInSequence(im) /\ LevelsAddUp(im)
<1>1. /\ im \in BookRecord
      /\ im.instrument = i /\ im.maxOrders = MaxOrders[i] /\ ~(Len(im.orders) > im.maxOrders)
      /\ \A o \in Range(im.orders) : OrderIsSound(im, o)
      /\ ImageUncrossed(im) /\ NothingTwice(im) /\ QueuesInSequence(im) /\ LevelsAddUp(im)
  BY DEF Valid, BookStatus
<1>2. /\ im.next \in 0..MaxSequence /\ im.events \in Nat /\ im.feed \in Nat
      /\ im.orders \in Seq(OrderRecord)
  BY <1>1 DEF BookRecord
<1>3. MaxOrders[i] \in Nat /\ Len(im.orders) \in Nat
  BY <1>2, InstrumentAssumption, LenProperties
<1>4. Len(im.orders) <= MaxOrders[i]
  BY <1>1, <1>3
<1>5. ASSUME NEW k \in 1..Len(im.orders) PROVE im.orders[k] \in Restorable(im.next)
  <2> DEFINE o == im.orders[k]
             top == im.next
  <2>1. k \in DOMAIN im.orders /\ o \in OrderRecord
    BY <1>2, ElementOfSeq, LenProperties
  <2>2. OrderIsSound(im, o)
    BY <1>1, <2>1 DEF Range
  <2>3. /\ o.id # InvalidId /\ o.price \in Price /\ o.qty # 0 /\ o.initial >= o.qty
        /\ (o.partly => o.initial # o.qty) /\ o.seq # 0 /\ o.seq <= top
    BY <2>2 DEF OrderIsSound
  <2> HIDE DEF o, top
  <2>4. /\ o.id \in OrderId \cup {InvalidId} /\ o.qty \in 0..MaxQuantity
        /\ o.seq \in 0..MaxSequence /\ o.initial \in 0..MaxQuantity /\ MaxQuantity \in Nat
        /\ MaxSequence \in Nat
    BY <2>1, WidthAssumption DEF OrderRecord
  <2>5. top \in 0..MaxSequence
    BY <1>2 DEF top
  <2>6. o.qty \in 1..o.initial /\ o.seq \in 1..top /\ (o.partly => o.qty < o.initial)
    BY <2>3, <2>4, <2>5
  <2>7. o \in Restorable(top)
    BY <2>1, <2>3, <2>4, <2>6 DEF Restorable
  <2> QED BY <2>7 DEF o, top
<1>6. im.orders \in Seq(Restorable(im.next))
  <2> DEFINE q == im.orders
             R == Restorable(im.next)
             n == Len(q)
  <2>1. q \in [1..n -> OrderRecord] /\ n \in Nat
    BY <1>2, <1>3
  <2>2. \A k \in 1..n : q[k] \in R
    BY <1>5
  <2> HIDE DEF q, R, n
  <2>3. q \in [1..n -> R]
    BY <2>1, <2>2
  <2>4. q \in Seq(R)
    BY <2>1, <2>3
  <2> QED BY <2>4 DEF q, R
<1> QED
  BY <1>1, <1>2, <1>3, <1>4, <1>6

(* What does not fall from one place to the next does not fall, as long as *)
(* what it is sorted by is the same.                                       *)
LEMMA NeverFalls ==
  ASSUME NEW n \in Nat, NEW a \in [1..n -> Nat], NEW b \in [1..n -> Nat],
         \A j, k \in 1..n : j < k => a[j] <= a[k],
         \A k \in 1..n : k > 1 /\ a[k - 1] = a[k] => b[k - 1] <= b[k]
  PROVE  \A j, k \in 1..n : j < k /\ a[j] = a[k] => b[j] <= b[k]
<1> DEFINE Good(k) == \A j \in 1..n : j < k /\ a[j] = a[k] => b[j] <= b[k]
           P == {k \in Nat : k \in 1..n => Good(k)}
<1>1. P \in SUBSET Nat /\ 0 \in P
  OBVIOUS
<1>2. ASSUME NEW k \in P PROVE k + 1 \in P
  <2>1. SUFFICES ASSUME k + 1 \in 1..n, NEW j \in 1..n, j < k + 1, a[j] = a[k + 1]
                 PROVE  b[j] <= b[k + 1]
    OBVIOUS
  <2> DEFINE l == k + 1
  <2>2. k \in Nat /\ k \in 1..n /\ l \in 1..n /\ l > 1 /\ l - 1 = k /\ k < l
    BY <2>1
  <2>3. Good(k)
    BY <2>2
  <2>4. a[k] <= a[l] /\ (a[k] = a[l] => b[k] <= b[l])
    BY <2>2
  <2> HIDE DEF l
  <2>5. CASE j = k
    BY <2>1, <2>4, <2>5 DEF l
  <2>6. CASE j < k
    <3>1. a[j] <= a[k]
      BY <2>2, <2>6
    <3>2. a[j] = a[l]
      BY <2>1 DEF l
    <3>3. a[j] = a[k] /\ a[k] = a[l]
      BY <3>1, <3>2, <2>2, <2>4
    <3>4. b[j] <= b[k] /\ b[k] <= b[l]
      BY <3>3, <2>3, <2>4, <2>6
    <3>5. b[j] <= b[l]
      BY <3>4, <2>2
    <3> QED BY <3>5 DEF l
  <2> QED BY <2>1, <2>2, <2>5, <2>6
<1>3. \A k \in P : k + 1 \in P
  BY <1>2
<1> HIDE DEF P, Good
<1>4. P = Nat
  BY <1>1, <1>3, Induction
<1>5. ASSUME NEW k \in 1..n PROVE Good(k)
  <2>1. k \in P
    BY <1>4
  <2> QED BY <2>1 DEF P
<1> QED
  BY <1>5 DEF Good

(* Two orders of one level have their numbers in the order of the sort.    *)
LEMMA NumbersRise ==
  ASSUME NEW i \in Instrument, NEW im, Valid(i, im), NEW r, r = Sorted(im.orders), NEW f,
         ByKey(Restorable(im.next), im.orders, r, f)
  PROVE  \A j, k \in 1..Len(r) : j < k /\ Key(r[j]) = Key(r[k]) => r[j].seq <= r[k].seq
<1> DEFINE n == Len(r)
           S == Restorable(im.next)
           a == [k \in 1..n |-> Key(r[k])]
           b == [k \in 1..n |-> r[k].seq]
<1>1. /\ r \in Seq(S) /\ n = Len(im.orders) /\ n \in Nat
      /\ \A j, k \in 1..n : j < k => \/ Key(r[j]) < Key(r[k])
                                     \/ Key(r[j]) = Key(r[k]) /\ f[j] < f[k]
  BY LenProperties DEF ByKey
<1>2. ASSUME NEW k \in 1..n PROVE Key(r[k]) \in Nat /\ r[k].seq \in Nat
  <2> DEFINE o == r[k]
  <2>1. o \in S
    BY <1>1, ElementOfSeq
  <2>2. im.next \in 0..MaxSequence
    BY ValidIs
  <2> HIDE DEF o
  <2>3. o.side \in Side /\ o.price \in Price /\ o.seq \in 0..MaxSequence
    BY <2>1, <2>2, RestorableIs
  <2>4. Key(o) \in Nat /\ o.seq \in Nat
    BY <2>3, KeyIs
  <2> QED BY <2>4 DEF o
<1>3. \A k \in 1..n : a[k] = Key(r[k]) /\ b[k] = r[k].seq
  OBVIOUS
<1>4. a \in [1..n -> Nat] /\ b \in [1..n -> Nat]
  BY <1>2
<1>5. \A k \in 1..n : k > 1 /\ a[k - 1] = a[k] => b[k - 1] <= b[k]
  <2> SUFFICES ASSUME NEW k \in 1..n, k > 1, a[k - 1] = a[k] PROVE b[k - 1] <= b[k]
    OBVIOUS
  <2>1. k \in DOMAIN r /\ k - 1 \in 1..n
    BY <1>1
  <2>2. QueuesInSequence(im)
    BY ValidIs
  <2>3. Key(r[k - 1]) = Key(r[k]) => r[k - 1].seq <= r[k].seq
    BY <2>1, <2>2 DEF QueuesInSequence
  <2> QED BY <2>1, <2>3, <1>3
<1> HIDE DEF a, b, n
<1>6. \A j, k \in 1..n : j < k => a[j] <= a[k]
  <2> TAKE j, k \in 1..n
  <2> HAVE j < k
  <2>1. Key(r[j]) < Key(r[k]) \/ Key(r[j]) = Key(r[k])
    BY <1>1
  <2>2. Key(r[j]) \in Nat /\ Key(r[k]) \in Nat
    BY <1>2
  <2> DEFINE x == Key(r[j])
             y == Key(r[k])
  <2> HIDE DEF x, y
  <2>3. x \in Nat /\ y \in Nat /\ (x < y \/ x = y)
    BY <2>1, <2>2 DEF x, y
  <2>4. x <= y
    BY <2>3
  <2>5. a[j] = x /\ a[k] = y
    BY <1>3 DEF x, y
  <2> QED BY <2>4, <2>5
<1>7. \A j, k \in 1..n : j < k /\ a[j] = a[k] => b[j] <= b[k]
  BY <1>1, <1>4, <1>5, <1>6, NeverFalls
<1> QED
  BY <1>3, <1>7 DEF n

(* Where the orders of a queue were in the image.                          *)
LEMMA QueuedCameFrom ==
  ASSUME NEW i, NEW h, NEW r, NEW n \in Nat, Restored(i, h, r, n),
         NEW s \in Side, NEW p \in Price, NEW m \in DOMAIN h.book.level[s][p]
  PROVE  \E j \in 1..n : /\ h.book.level[s][p][m] = r[j].id
                         /\ h.book.order[r[j].id] = NodeOf(r[j])
                         /\ r[j].side = s /\ r[j].price = p
<1> DEFINE b == h.book
           id == b.level[s][p][m]
<1>1. Sound(b) /\ Contents(h, r, n)
  BY DEF Restored
<1>2. id \in b.index /\ b.order[id].side = s /\ b.order[id].price = p
  BY <1>1, Queued
<1>3. PICK j \in 1..n : id = r[j].id
  BY <1>1, <1>2 DEF Contents
<1>4. b.order[id] = NodeOf(r[j])
  BY <1>1, <1>3 DEF Contents
<1> QED
  BY <1>2, <1>3, <1>4 DEF NodeOf

(* The queues of a restored book are in sequence, and sides do not cross.  *)
LEMMA RestoredInLine ==
  ASSUME NEW i \in Instrument, NEW im, Valid(i, im), NEW r, r = Sorted(im.orders), NEW f,
         ByKey(Restorable(im.next), im.orders, r, f), NEW n, n = Len(im.orders),
         NEW h, Restored(i, h, r, n)
  PROVE  InLine(h.book) /\ Apart(h.book) /\ Uncrossed(h.book)
<1> DEFINE b == h.book
           q == im.orders
<1>1. /\ Sound(b) /\ Contents(h, r, n) /\ InPlace(b, r, n) /\ b.index \subseteq OrderId
  BY DEF Restored, Sound, BookType
<1>2. /\ n \in Nat /\ Len(r) = n /\ DOMAIN q = 1..n
      /\ f \in [1..n -> 1..n]
      /\ \A j, k \in 1..n : f[j] = f[k] => j = k
      /\ \A k \in 1..n : r[k] = q[f[k]]
  BY ValidIs DEF ByKey
<1>3. \A j, k \in 1..n : j < k /\ Key(r[j]) = Key(r[k]) => r[j].seq <= r[k].seq
  BY <1>2, NumbersRise
<1>q. \A s \in Side, p \in Price : \A m \in DOMAIN b.level[s][p] :
        \E j \in 1..n : /\ b.level[s][p][m] = r[j].id
                        /\ b.order[r[j].id] = NodeOf(r[j])
                        /\ r[j].side = s /\ r[j].price = p
  <2> SUFFICES ASSUME NEW s \in Side, NEW p \in Price, NEW m \in DOMAIN h.book.level[s][p]
               PROVE  \E j \in 1..n : /\ h.book.level[s][p][m] = r[j].id
                                      /\ h.book.order[r[j].id] = NodeOf(r[j])
                                      /\ r[j].side = s /\ r[j].price = p
    OBVIOUS
  <2>1. n \in Nat
    BY <1>2
  <2> HIDE DEF b, q
  <2> QED BY <2>1, QueuedCameFrom
<1> HIDE DEF b, q
<1>4. InLine(b)
  <2> SUFFICES ASSUME NEW s \in Side, NEW p \in Price,
                      NEW m \in DOMAIN b.level[s][p], NEW l \in DOMAIN b.level[s][p], m < l
               PROVE  b.order[b.level[s][p][m]].seq <= b.order[b.level[s][p][l]].seq
    BY DEF InLine
  <2>1. PICK j \in 1..n : /\ b.level[s][p][m] = r[j].id /\ b.order[r[j].id] = NodeOf(r[j])
                          /\ r[j].side = s /\ r[j].price = p
    BY <1>q
  <2>2. PICK k \in 1..n : /\ b.level[s][p][l] = r[k].id /\ b.order[r[k].id] = NodeOf(r[k])
                          /\ r[k].side = s /\ r[k].price = p
    BY <1>q
  <2>3. j < k
    BY <1>1, <2>1, <2>2 DEF InPlace
  <2>4. Key(r[j]) = Key(r[k])
    BY <2>1, <2>2 DEF Key
  <2>5. r[j].seq <= r[k].seq
    BY <1>3, <2>3, <2>4
  <2> QED BY <2>1, <2>2, <2>5 DEF NodeOf
<1>5. Apart(b)
  <2> SUFFICES ASSUME NEW x \in b.index, NEW y \in b.index, x # y,
                      b.order[x].seq = b.order[y].seq
               PROVE  b.order[x].seq = MaxSequence
    BY DEF Apart
  <2>1. PICK j \in 1..n : x = r[j].id
    BY <1>1 DEF Contents, b
  <2>2. PICK k \in 1..n : y = r[k].id
    BY <1>1 DEF Contents, b
  <2>3. b.order[x] = NodeOf(r[j]) /\ b.order[y] = NodeOf(r[k])
    BY <1>1, <2>1, <2>2 DEF Contents, b
  <2>4. b.order[x].seq = r[j].seq /\ b.order[y].seq = r[k].seq
    BY <2>3 DEF NodeOf
  <2>5. f[j] \in 1..n /\ f[k] \in 1..n /\ f[j] # f[k] /\ r[j] = q[f[j]] /\ r[k] = q[f[k]]
    BY <1>2, <2>1, <2>2
  <2>6. NothingTwice(im)
    BY ValidIs
  <2>7. q[f[j]].seq = q[f[k]].seq => q[f[k]].seq = MaxSequence
    BY <2>5, <2>6, <1>2 DEF NothingTwice, q
  <2> QED BY <2>4, <2>5, <2>7
<1>6. Uncrossed(b)
  <2> SUFFICES ASSUME NEW bid \in Occupied(b, "Buy"), NEW ask \in Occupied(b, "Sell")
               PROVE  bid < ask
    BY DEF Uncrossed
  <2>1. /\ bid \in Price /\ b.level["Buy"][bid] # <<>> /\ "Buy" \in Side
        /\ ask \in Price /\ b.level["Sell"][ask] # <<>> /\ "Sell" \in Side
    BY DEF Occupied, Side
  <2>2. /\ b.level["Buy"][bid] \in Seq(OrderId) /\ b.level["Sell"][ask] \in Seq(OrderId)
    BY <1>1, <2>1, Queued
  <2>3. 1 \in DOMAIN b.level["Buy"][bid] /\ 1 \in DOMAIN b.level["Sell"][ask]
    BY <2>1, <2>2
  <2>4. PICK j \in 1..n : r[j].side = "Buy" /\ r[j].price = bid
    BY <1>q, <2>1, <2>3
  <2>5. PICK k \in 1..n : r[k].side = "Sell" /\ r[k].price = ask
    BY <1>q, <2>1, <2>3
  <2>6. r[j] \in Range(q) /\ r[k] \in Range(q)
    BY <1>2, <2>4, <2>5 DEF Range
  <2>7. ImageUncrossed(im)
    BY ValidIs
  <2> QED BY <2>4, <2>5, <2>6, <2>7 DEF ImageUncrossed, Sides, q
<1> QED
  BY <1>4, <1>5, <1>6 DEF b

(* h is what image im says instrument i holds.                             *)
HoldsImage(i, im, r, f, g, h) ==
  /\ r = Sorted(im.orders) /\ ByKey(Restorable(im.next), im.orders, r, f)
  /\ Restored(i, g, r, Len(im.orders)) /\ h = Finished(g, im)
BookRestored(i, im, h) == \E r, f, g : HoldsImage(i, im, r, f, g, h)

(* A book restored from a valid image is sound.                            *)
LEMMA RestoredIsOk ==
  ASSUME NEW i \in Instrument, NEW im, Valid(i, im), NEW h, BookRestored(i, im, h)
  PROVE  HeldOk(i, h)
<1>1. PICK r, f, g : HoldsImage(i, im, r, f, g, h)
  BY DEF BookRestored
<1> DEFINE n == Len(im.orders)
           b == g.book
           c == h.book
           top == im.next
           used == b.used
<1>2. /\ r = Sorted(im.orders) /\ ByKey(Restorable(top), im.orders, r, f)
      /\ Restored(i, g, r, n) /\ h = Finished(g, im) /\ n = Len(im.orders)
  BY <1>1 DEF HoldsImage
<1>3. /\ top \in 0..MaxSequence /\ im.events \in Nat /\ im.feed \in Nat /\ n \in Nat
      /\ n <= MaxOrders[i] /\ im.orders \in Seq(Restorable(top))
  BY ValidIs
<1> HIDE DEF n
<1>4. InLine(b) /\ Apart(b) /\ Uncrossed(b)
  BY <1>2, RestoredInLine
<1>5. /\ g \in HeldType /\ Sound(b) /\ Sums(b) /\ IsFiniteSet(b.index)
      /\ Cardinality(b.index) = n /\ used = n /\ Contents(g, r, n)
  BY <1>2 DEF Restored
<1>6. /\ h.book = [b EXCEPT !.seq = top] /\ h.initial = g.initial /\ h.partly = g.partly
      /\ h.events = im.events /\ h.feed = im.feed
      /\ h = [book |-> h.book, initial |-> h.initial, partly |-> h.partly,
              events |-> h.events, feed |-> h.feed]
  BY <1>2, <1>5 DEF Finished, HeldType
<1>7. c = Recounted(b, used, top) /\ used \in Nat
  BY <1>6, <1>5 DEF Recounted, Sound, BookType
<1>8. /\ c.order = b.order /\ c.index = b.index /\ c.seq = top /\ c.used = used
      /\ c.level = b.level /\ c.total = b.total
  BY <1>5, <1>7 DEF Recounted, Sound, BookType
<1> HIDE DEF b, c, top, used
<1>9. Kept(b)
  BY <1>4, <1>5 DEF Kept
<1>10. Kept(c)
  BY <1>3, <1>7, <1>9, SlotsAndSequence
<1>11. Sums(c)
  <2>1. \A fifo : QuantityOf(c, fifo) = QuantityOf(b, fifo)
    <3>1. QuantitiesOf(c) = QuantitiesOf(b)
      BY <1>8 DEF QuantitiesOf
    <3> QED BY <3>1, QuantityIsAdded
  <2> QED BY <2>1, <1>5, <1>8 DEF Sums
<1>12. \A j \in 1..n : r[j] \in Restorable(top) /\ r[j].id \in OrderId
  <2> TAKE j \in 1..n
  <2>1. r \in Seq(Restorable(top)) /\ Len(r) = n
    BY <1>2 DEF ByKey
  <2>2. r[j] \in Restorable(top)
    BY <2>1, ElementOfSeq
  <2> QED BY <2>2, <1>3, RestorableIs
<1>13. \A id \in b.index : \E j \in 1..n :
         id = r[j].id /\ b.order[id] = NodeOf(r[j]) /\ g.initial[id] = r[j].initial
         /\ (id \in g.partly <=> r[j].partly)
  BY <1>5 DEF Contents, b
<1>14. Sequenced(c)
  <2>1. InLine(c) /\ Apart(c)
    BY <1>4, <1>8 DEF InLine, Apart
  <2>2. ASSUME NEW id \in c.index PROVE c.order[id].seq \in 1..c.seq
    <3>1. PICK j \in 1..n : id = r[j].id /\ b.order[id] = NodeOf(r[j])
      BY <1>13, <1>8
    <3>2. r[j].seq \in 1..top
      BY <1>3, <1>12, RestorableIs
    <3> QED BY <3>1, <3>2, <1>8 DEF NodeOf
  <2> QED BY <2>1, <2>2 DEF Sequenced, Numbered
<1>15. Lifecycles(h, {})
  <2>1. ASSUME NEW id \in c.index
        PROVE  /\ c.order[id].qty \in 1..h.initial[id]
               /\ c.order[id].owner = Anonymous
               /\ id \in h.partly => c.order[id].qty < h.initial[id]
    <3>1. PICK j \in 1..n :
             /\ id = r[j].id /\ b.order[id] = NodeOf(r[j]) /\ g.initial[id] = r[j].initial
             /\ (id \in g.partly <=> r[j].partly)
      BY <1>13, <1>8
    <3>2. r[j].qty \in 1..r[j].initial /\ (r[j].partly => r[j].qty < r[j].initial)
      BY <1>3, <1>12, RestorableIs
    <3> QED BY <3>1, <3>2, <1>6, <1>8 DEF NodeOf
  <2>2. ASSUME NEW id \in OrderId \ c.index
        PROVE  h.initial[id] = 0 /\ id \notin h.partly /\ c.order[id] = Blank
    BY <1>5, <1>6, <1>8 DEF Contents, b
  <2> QED BY <2>1, <2>2 DEF Lifecycles, c
<1>16. h \in HeldType
  <2>1. c \in BookType
    BY <1>10 DEF Kept, Sound
  <2> QED BY <2>1, <1>3, <1>5, <1>6 DEF HeldType, c
<1>17. c.used = Cardinality(c.index) + 0 /\ c.used <= MaxOrders[i]
  BY <1>3, <1>5, <1>8
<1> QED
  BY <1>10, <1>11, <1>14, <1>15, <1>16, <1>17 DEF HeldOk, Running, c

(* What restore_validated_book comes to.                                   *)
BookOutcome(i, im, x) ==
  /\ HeldOk(i, x.held) /\ x.status \in Status
  /\ IF x.status = "Accepted" THEN BookRestored(i, im, x.held) ELSE x.held = EmptyHeld

(* The loop of restore_validated_book, and the image it is about.          *)
LoopsTo(i, im, r, f, F) ==
  /\ r = Sorted(im.orders) /\ ByKey(Restorable(im.next), im.orders, r, f)
  /\ RestoringTo(i, r, Len(im.orders), F)

(* restore_validated_book runs through the sorted orders.                  *)
LEMMA RestoreLoop ==
  ASSUME NEW i \in Instrument, NEW im, Valid(i, im)
  PROVE  \E r, f, F : /\ LoopsTo(i, im, r, f, F)
                      /\ RestoreBook(i, im) =
                           IF F[Len(im.orders)].status = "Accepted"
                           THEN [F[Len(im.orders)] EXCEPT !.held = Finished(@, im)]
                           ELSE [F[Len(im.orders)] EXCEPT !.held = EmptyHeld]
<1> DEFINE q == im.orders
           r == Sorted(q)
           n == Len(q)
           top == im.next
           start == [held |-> EmptyHeld, status |-> "Accepted"]
           V == RestoreType
           x == (CHOOSE g : Restores(g, start, n, r, i))[1..n]
<1>1. q \in Seq(Restorable(top)) /\ n \in Nat /\ top \in 0..MaxSequence
  BY ValidIs
<1>2. PICK f : ByKey(Restorable(top), q, r, f)
  <2>1. \A o \in Restorable(top) : o.side \in Side /\ o.price \in Price
    BY <1>1, RestorableIs
  <2> HIDE DEF q, r, top
  <2>2. r = Sorted(q)
    BY DEF r
  <2> QED BY <2>1, <2>2, <1>1, SortedIs
<1>3. r \in Seq(Restorable(top)) /\ Len(r) = n /\ DOMAIN r = 1..n
      /\ \A k \in 1..n : r[k] \in Restorable(top)
  <2>1. r \in Seq(Restorable(top)) /\ Len(r) = n
    BY <1>2 DEF ByKey
  <2> HIDE DEF r, q, top
  <2> QED BY <2>1, ElementOfSeq, LenProperties
<1>4. RestoreBook(i, im) = IF x.status = "Accepted" THEN [x EXCEPT !.held = Finished(@, im)]
                           ELSE [x EXCEPT !.held = EmptyHeld]
  <2>1. DOMAIN Sorted(im.orders) = 1..n
    BY <1>3
  <2> HIDE DEF n
  <2> QED BY <2>1 DEF RestoreBook, FoldLeft, MapThenFoldSet, Restores
<1>5. start \in V
  <2>1. Sound(EmptyHeld.book) /\ Sums(EmptyHeld.book)
    BY EmptyBookKept, EmptyBookSums DEF Kept, EmptyHeld
  <2> QED BY <2>1, EmptyHeldTyped DEF RestoreType, Status
<1>6. RestoresIn(V, n, r, i)
  <2> HIDE DEF n, r, top
  <2> QED BY <1>1, <1>3, RestoresInType
<1> HIDE DEF r, n, start, V, q, top
<1>7. PICK F : /\ F \in [0..n -> V] /\ F[0] = start
               /\ RestoresSteps(F, n, r, i)
               /\ F[n] = (CHOOSE g : Restores(g, start, n, r, i))[1..n]
  BY <1>1, <1>5, <1>6, RestoresRun
<1>8. F[n] = x
  BY <1>7
<1> HIDE DEF x
<1>9. LoopsTo(i, im, r, f, F)
  BY <1>2, <1>7 DEF LoopsTo, RestoringTo, V, start, n, q, r, top
<1> QED
  BY <1>4, <1>8, <1>9 DEF n, q

(* restore_validated_book ends with a sound book, which it cleared or      *)
(* restored.                                                               *)
LEMMA RestoreBookIs ==
  ASSUME NEW i \in Instrument, NEW im, Valid(i, im), NEW x, x = RestoreBook(i, im)
  PROVE  BookOutcome(i, im, x)
<1> DEFINE n == Len(im.orders)
           top == im.next
<1>1. PICK r, f, F : /\ LoopsTo(i, im, r, f, F)
                     /\ x = IF F[n].status = "Accepted"
                            THEN [F[n] EXCEPT !.held = Finished(@, im)]
                            ELSE [F[n] EXCEPT !.held = EmptyHeld]
  BY RestoreLoop
<1>2. top \in 0..MaxSequence /\ n \in Nat
  BY ValidIs
<1>3. /\ r = Sorted(im.orders) /\ ByKey(Restorable(top), im.orders, r, f)
      /\ RestoringTo(i, r, n, F)
  BY <1>1 DEF LoopsTo
<1>4. \A k \in 1..n : r[k] \in Restorable(top)
  <2>1. r \in Seq(Restorable(top)) /\ Len(r) = n
    BY <1>3 DEF ByKey
  <2> HIDE DEF n, top
  <2> QED BY <2>1, ElementOfSeq
<1> HIDE DEF top
<1>n. PICK m : m = n
  OBVIOUS
<1> HIDE DEF n
<1>5. \A k \in 0..n : F[k].status = "Accepted" => Restored(i, F[k].held, r, k)
  BY <1>2, <1>3, <1>4, RestoreSteps
<1>6. F[n] \in RestoreType /\ n \in 0..n
  BY <1>2, <1>3 DEF RestoringTo
<1> DEFINE y == F[n]
           g == y.held
<1>7. y = [held |-> g, status |-> y.status] /\ y.status \in Status
  BY <1>6 DEF RestoreType
<1>8. CASE y.status = "Accepted"
  <2> DEFINE h == x.held
  <2>1. x = [y EXCEPT !.held = Finished(g, im)]
    BY <1>1, <1>8
  <2>2. h = Finished(g, im) /\ x.status = "Accepted"
    BY <2>1, <1>7, <1>8
  <2>3. Restored(i, g, r, n)
    BY <1>5, <1>6, <1>8
  <2> HIDE DEF y, g, h
  <2>4. HoldsImage(i, im, r, f, g, h)
    BY <2>2, <2>3, <1>3 DEF HoldsImage, n, top
  <2>5. BookRestored(i, im, h)
    BY <2>4 DEF BookRestored
  <2>6. HeldOk(i, h)
    BY <2>5, RestoredIsOk
  <2> QED BY <2>2, <2>5, <2>6 DEF h, BookOutcome, Status
<1>9. CASE y.status # "Accepted"
  <2>1. x.held = EmptyHeld /\ x.status = y.status
    BY <1>1, <1>7, <1>9
  <2> QED BY <2>1, <1>7, <1>9, EmptyHeldOk DEF BookOutcome
<1> QED
  BY <1>8, <1>9

(* What FoldLeft iterates in RestoreBooks.                                 *)
Books(g, start, n, q, e, im) ==
  g = [T \in SUBSET (1..n) |->
         IF T = {} THEN start ELSE (IF g[T \ {Max(T)}].status # "Accepted" THEN g[T \ {Max(T)}] ELSE [engine |-> [g[T \ {Max(T)}].engine EXCEPT !.held[q[Max(T)]] = RestoreBook(e.ids[q[Max(T)]], im.books[q[Max(T)]]).held], status |-> RestoreBook(e.ids[q[Max(T)]], im.books[q[Max(T)]]).status])]

(* The loop stays in V, and goes from each F[k - 1] to F[k].               *)
BooksIn(V, n, q, e, im) ==
  \A k \in 1..n, x \in V : (IF x.status # "Accepted" THEN x ELSE [engine |-> [x.engine EXCEPT !.held[q[k]] = RestoreBook(e.ids[q[k]], im.books[q[k]]).held], status |-> RestoreBook(e.ids[q[k]], im.books[q[k]]).status]) \in V
BooksSteps(F, n, q, e, im) ==
  \A k \in 1..n : F[k] = (IF F[k - 1].status # "Accepted" THEN F[k - 1] ELSE [engine |-> [F[k - 1].engine EXCEPT !.held[q[k]] = RestoreBook(e.ids[q[k]], im.books[q[k]]).held], status |-> RestoreBook(e.ids[q[k]], im.books[q[k]]).status])

(* It goes through the books one after another.                            *)
LEMMA BooksRun ==
  ASSUME NEW n \in Nat, NEW q, NEW e, NEW im, NEW V, NEW start \in V,
         BooksIn(V, n, q, e, im)
  PROVE  \E F : /\ F \in [0..n -> V] /\ F[0] = start
               /\ BooksSteps(F, n, q, e, im)
               /\ F[n] = (CHOOSE g : Books(g, start, n, q, e, im))[1..n]
<1> DEFINE step == [k \in 1..n |-> [x \in V |-> (IF x.status # "Accepted" THEN x ELSE [engine |-> [x.engine EXCEPT !.held[q[k]] = RestoreBook(e.ids[q[k]], im.books[q[k]]).held], status |-> RestoreBook(e.ids[q[k]], im.books[q[k]]).status])]]
           iter == CHOOSE g : Books(g, start, n, q, e, im)
<1>1. IsStep(step, n, V)
  BY DEF IsStep, BooksIn
<1>2. \A k \in 1..n, x \in V : step[k][x] = (IF x.status # "Accepted" THEN x ELSE [engine |-> [x.engine EXCEPT !.held[q[k]] = RestoreBook(e.ids[q[k]], im.books[q[k]]).held], status |-> RestoreBook(e.ids[q[k]], im.books[q[k]]).status])
  OBVIOUS
<1> HIDE DEF step
<1>4. PICK g \in [SUBSET (1..n) -> V] : FoldsUp(g, n, V, start, step)
  BY <1>1, FoldExists, Zenon
<1>5. Books(g, start, n, q, e, im)
  <2>1. ASSUME NEW T \in SUBSET (1..n)
        PROVE  g[T] = IF T = {} THEN start ELSE (IF g[T \ {Max(T)}].status # "Accepted" THEN g[T \ {Max(T)}] ELSE [engine |-> [g[T \ {Max(T)}].engine EXCEPT !.held[q[Max(T)]] = RestoreBook(e.ids[q[Max(T)]], im.books[q[Max(T)]]).held], status |-> RestoreBook(e.ids[q[Max(T)]], im.books[q[Max(T)]]).status])
    <3>1. CASE T # {}
      <4>1. Max(T) \in 1..n
        BY <3>1, MaxOfPart
      <4>2. T \ {Max(T)} \in SUBSET (1..n)
        OBVIOUS
      <4>3. g[T \ {Max(T)}] \in V
        BY <4>2
      <4>4. g[T] = step[Max(T)][g[T \ {Max(T)}]]
        BY <1>4, <3>1, <4>3, Zenon DEF FoldsUp
      <4>5. step[Max(T)][g[T \ {Max(T)}]] = (IF g[T \ {Max(T)}].status # "Accepted" THEN g[T \ {Max(T)}] ELSE [engine |-> [g[T \ {Max(T)}].engine EXCEPT !.held[q[Max(T)]] = RestoreBook(e.ids[q[Max(T)]], im.books[q[Max(T)]]).held], status |-> RestoreBook(e.ids[q[Max(T)]], im.books[q[Max(T)]]).status])
        BY <1>2, <4>1, <4>3, Zenon
      <4> QED BY <3>1, <4>4, <4>5
    <3>2. CASE T = {}
      BY <3>2, <1>4 DEF FoldsUp
    <3> QED BY <3>1, <3>2
  <2> QED BY <2>1 DEF Books
<1>6. Books(iter, start, n, q, e, im)
  BY <1>5, Zenon
<1>7. \A T \in SUBSET (1..n) :
        iter[T] = IF T = {} THEN start ELSE (IF iter[T \ {Max(T)}].status # "Accepted" THEN iter[T \ {Max(T)}] ELSE [engine |-> [iter[T \ {Max(T)}].engine EXCEPT !.held[q[Max(T)]] = RestoreBook(e.ids[q[Max(T)]], im.books[q[Max(T)]]).held], status |-> RestoreBook(e.ids[q[Max(T)]], im.books[q[Max(T)]]).status])
  <2> HIDE DEF iter
  <2> QED BY <1>6 DEF Books
<1> HIDE DEF iter
<1>8. FoldsUp(iter, n, V, start, step)
  <2>1. \A T \in SUBSET (1..n) : T # {} => Max(T) \in 1..n
    BY MaxOfPart
  <2>2. \A T \in SUBSET (1..n) :
          T # {} /\ iter[T \ {Max(T)}] \in V
            => iter[T] = step[Max(T)][iter[T \ {Max(T)}]]
    <3> TAKE T \in SUBSET (1..n)
    <3> HAVE T # {} /\ iter[T \ {Max(T)}] \in V
    <3>1. iter[T] = (IF iter[T \ {Max(T)}].status # "Accepted" THEN iter[T \ {Max(T)}] ELSE [engine |-> [iter[T \ {Max(T)}].engine EXCEPT !.held[q[Max(T)]] = RestoreBook(e.ids[q[Max(T)]], im.books[q[Max(T)]]).held], status |-> RestoreBook(e.ids[q[Max(T)]], im.books[q[Max(T)]]).status])
      BY <1>7
    <3>2. Max(T) \in 1..n
      BY <2>1
    <3>3. step[Max(T)][iter[T \ {Max(T)}]] = (IF iter[T \ {Max(T)}].status # "Accepted" THEN iter[T \ {Max(T)}] ELSE [engine |-> [iter[T \ {Max(T)}].engine EXCEPT !.held[q[Max(T)]] = RestoreBook(e.ids[q[Max(T)]], im.books[q[Max(T)]]).held], status |-> RestoreBook(e.ids[q[Max(T)]], im.books[q[Max(T)]]).status])
      BY <1>2, <3>2, Zenon
    <3> QED BY <3>1, <3>3
  <2>3. iter[{}] = start
    BY <1>7
  <2> QED BY <2>2, <2>3 DEF FoldsUp
<1>9. PICK F : Steps(F, n, V, start, step) /\ iter[1..n] = F[n]
  BY <1>1, <1>8, FoldPrefixes
<1>10. F \in [0..n -> V] /\ F[0] = start /\ \A k \in 1..n : F[k] = step[k][F[k - 1]]
  BY <1>9 DEF Steps
<1>11. \A k \in 1..n : F[k] = (IF F[k - 1].status # "Accepted" THEN F[k - 1] ELSE [engine |-> [F[k - 1].engine EXCEPT !.held[q[k]] = RestoreBook(e.ids[q[k]], im.books[q[k]]).held], status |-> RestoreBook(e.ids[q[k]], im.books[q[k]]).status])
  <2> TAKE k \in 1..n
  <2>1. k - 1 \in 0..n
    OBVIOUS
  <2>2. F[k - 1] \in V
    BY <1>10, <2>1
  <2>3. step[k][F[k - 1]] = (IF F[k - 1].status # "Accepted" THEN F[k - 1] ELSE [engine |-> [F[k - 1].engine EXCEPT !.held[q[k]] = RestoreBook(e.ids[q[k]], im.books[q[k]]).held], status |-> RestoreBook(e.ids[q[k]], im.books[q[k]]).status])
    BY <1>2, <2>2, Zenon
  <2> QED BY <2>3, <1>10
<1> QED
  BY <1>9, <1>10, <1>11 DEF iter, BooksSteps

-----------------------------------------------------------------------------
(* restore: the books of an engine, one by one                             *)

(* The image of an engine.                                                 *)
ImageType == [readable: BOOLEAN, books: Seq(BookRecord)]

(* An image validate_engine_snapshot accepts has a valid book for each     *)
(* instrument of the engine.                                               *)
ValidImage(e, im) ==
  /\ e.valid /\ Len(im.books) = Len(e.ids)
  /\ \A n \in DOMAIN e.ids : e.ids[n] \in Instrument /\ Valid(e.ids[n], im.books[n])

(* What validate_engine_snapshot accepts is valid in every book.           *)
LEMMA StatusIs ==
  ASSUME NEW e, EngineOk(e), NEW im \in ImageType, ImageStatus(e, im) = "Accepted"
  PROVE  ValidImage(e, im)
<1> DEFINE status(n) == BookStatus(e.ids[n], im.books[n])
           bad == {n \in DOMAIN e.ids : status(n) # "Accepted"}
<1>1. e.ids \in Seq(Instrument) /\ im.books \in Seq(BookRecord)
  BY DEF EngineOk, Routed, EngineType, ImageType
<1>2. DOMAIN e.ids = 1..Len(e.ids) /\ Len(e.ids) \in Nat /\ DOMAIN im.books = 1..Len(im.books)
  BY <1>1, LenProperties
<1>3. /\ e.valid /\ Len(im.books) = Len(e.ids)
      /\ bad = {} \/ status(CHOOSE n \in bad : \A m \in bad : n <= m) = "Accepted"
  BY DEF ImageStatus
<1>4. bad = {}
  <2> SUFFICES ASSUME bad # {} PROVE FALSE
    OBVIOUS
  <2>1. bad \in SUBSET Nat
    BY <1>2
  <2>2. status(CHOOSE n \in bad : \A m \in bad : n <= m) = "Accepted"
    BY <1>3
  <2>3. \A n \in bad : status(n) # "Accepted"
    OBVIOUS
  <2> HIDE DEF bad, status
  <2>4. \E n \in bad : \A m \in bad : n <= m
    BY <2>1, LeastNat
  <2> DEFINE c == CHOOSE n \in bad : \A m \in bad : n <= m
  <2>5. c \in bad
    BY <2>4
  <2>6. status(c) = "Accepted"
    BY <2>2
  <2> QED BY <2>3, <2>5, <2>6
<1>5. ASSUME NEW n \in DOMAIN e.ids
      PROVE  e.ids[n] \in Instrument /\ Valid(e.ids[n], im.books[n])
  <2>1. e.ids[n] \in Instrument
    BY <1>1, <1>2, ElementOfSeq
  <2>2. im.books[n] \in BookRecord
    <3>1. n \in 1..Len(im.books)
      BY <1>2, <1>3
    <3> QED BY <3>1, <1>1, ElementOfSeq
  <2>3. status(n) = "Accepted"
    BY <1>4
  <2> QED BY <2>1, <2>2, <2>3 DEF Valid
<1> QED
  BY <1>3, <1>5 DEF ValidImage

(* The loop of restore, as far as it gets.                                 *)
BooksType(e) ==
  {x \in [engine: EngineType, status: Status] : EngineOk(x.engine) /\ SameRoutes(e, x.engine)}

(* The loop of restore stays within its type.                              *)
LEMMA BooksInType ==
  ASSUME NEW e, NEW im, ValidImage(e, im), NEW n, n = Len(e.ids), DOMAIN e.ids = 1..n,
         NEW q, \A k \in 1..n : q[k] = k
  PROVE  BooksIn(BooksType(e), n, q, e, im)
<1> SUFFICES ASSUME NEW k \in 1..n, NEW x \in BooksType(e)
             PROVE  (IF x.status # "Accepted" THEN x
                     ELSE [engine |-> [x.engine EXCEPT !.held[q[k]] = RestoreBook(e.ids[q[k]], im.books[q[k]]).held],
                           status |-> RestoreBook(e.ids[q[k]], im.books[q[k]]).status])
                       \in BooksType(e)
  BY DEF BooksIn
<1>1. CASE x.status # "Accepted"
  BY <1>1
<1>2. CASE x.status = "Accepted"
  <2> DEFINE i == e.ids[k]
             r == RestoreBook(i, im.books[k])
             g == r.held
             a == x.engine
             f == Holding(a, k, g)
             b == im.books[k]
  <2>1. i \in Instrument /\ Valid(i, b) /\ r = RestoreBook(i, b)
    BY DEF ValidImage
  <2>2. EngineOk(a) /\ SameRoutes(e, a)
    BY DEF BooksType
  <2>3. k \in DOMAIN a.ids /\ a.ids[k] = i
    BY <2>2 DEF SameRoutes
  <2> HIDE DEF i, b, r
  <2>4. BookOutcome(i, b, r)
    BY <2>1, RestoreBookIs
  <2>5. HeldOk(i, g) /\ r.status \in Status
    BY <2>4 DEF BookOutcome
  <2> HIDE DEF g, a
  <2>6. HeldOk(a.ids[k], g) /\ f = Holding(a, k, g)
    BY <2>3, <2>5
  <2> HIDE DEF f
  <2>7. EngineOk(f) /\ SameRoutes(a, f)
    BY <2>2, <2>3, <2>6, HoldingIs
  <2>8. f \in EngineType /\ SameRoutes(e, f)
    BY <2>2, <2>7 DEF EngineOk, Routed, SameRoutes
  <2>9. [engine |-> f, status |-> r.status] \in BooksType(e)
    BY <2>5, <2>7, <2>8 DEF BooksType
  <2>10. q[k] = k
    OBVIOUS
  <2> QED BY <1>2, <2>9, <2>10 DEF f, g, r, i, a, b, Holding
<1> QED
  BY <1>1, <1>2

(* The books up to the k-th are those of the image.                        *)
RestoredUpto(e, im, f, k) ==
  \A n \in 1..k : BookRestored(e.ids[n], im.books[n], f.held[n])
EngineRestored(e, im, f) ==
  SameRoutes(e, f) /\ \A n \in DOMAIN e.ids : BookRestored(e.ids[n], im.books[n], f.held[n])

(* The loop of restore, and how far its books are restored.                *)
LEMMA BooksStepOn ==
  ASSUME NEW e, NEW im, ValidImage(e, im), NEW n \in Nat, DOMAIN e.ids = 1..n,
         NEW q, \A k \in 1..n : q[k] = k,
         NEW F, F \in [0..n -> BooksType(e)], BooksSteps(F, n, q, e, im)
  PROVE  \A k \in 0..n : F[k].status = "Accepted" => RestoredUpto(e, im, F[k].engine, k)
<1> DEFINE Done(k) == F[k].status = "Accepted" => RestoredUpto(e, im, F[k].engine, k)
           P == {k \in Nat : k <= n => Done(k)}
<1>1. Done(0)
  BY DEF RestoredUpto
<1>2. ASSUME NEW k \in P PROVE k + 1 \in P
  <2>1. SUFFICES ASSUME k + 1 <= n, F[k + 1].status = "Accepted"
                 PROVE  RestoredUpto(e, im, F[k + 1].engine, k + 1)
    OBVIOUS
  <2> DEFINE l == k + 1
             a == F[k].engine
             i == e.ids[l]
             b == im.books[l]
             r == RestoreBook(i, b)
             g == r.held
             f == Holding(a, l, g)
  <2>2. k \in Nat /\ k <= n /\ l \in 1..n /\ l - 1 = k /\ k \in 0..n /\ q[l] = l
    BY <2>1
  <2>3. F[l] = IF F[k].status # "Accepted" THEN F[k]
               ELSE [engine |-> f, status |-> r.status]
    <3>1. F[l] = IF F[l - 1].status # "Accepted" THEN F[l - 1]
                 ELSE [engine |-> [F[l - 1].engine EXCEPT
                                     !.held[q[l]] = RestoreBook(e.ids[q[l]], im.books[q[l]]).held],
                       status |-> RestoreBook(e.ids[q[l]], im.books[q[l]]).status]
      BY <2>2 DEF BooksSteps
    <3> QED BY <3>1, <2>2 DEF Holding
  <2>4. F[k].status = "Accepted" /\ F[l] = [engine |-> f, status |-> r.status]
    BY <2>1, <2>3
  <2>5. RestoredUpto(e, im, a, k) /\ r.status = "Accepted" /\ F[l].engine = f
    BY <2>1, <2>2, <2>4
  <2>6. EngineOk(a) /\ SameRoutes(e, a)
    BY <2>2 DEF BooksType
  <2>7. i \in Instrument /\ Valid(i, b) /\ l \in DOMAIN a.ids /\ a.ids[l] = i
        /\ DOMAIN a.ids = 1..n
    BY <2>2, <2>6 DEF ValidImage, SameRoutes
  <2>8. r = RestoreBook(i, b)
    OBVIOUS
  <2> HIDE DEF r, i, b
  <2>9. BookOutcome(i, b, r)
    BY <2>7, <2>8, RestoreBookIs
  <2>10. HeldOk(i, g) /\ BookRestored(i, b, g)
    BY <2>5, <2>9 DEF BookOutcome
  <2> HIDE DEF g, a
  <2>11. HeldOk(a.ids[l], g) /\ f = Holding(a, l, g)
    BY <2>7, <2>10
  <2> HIDE DEF f, l
  <2>12. f.held[l] = g /\ \A m \in DOMAIN a.ids : m # l => f.held[m] = a.held[m]
    BY <2>6, <2>7, <2>11, HoldingIs
  <2>13. RestoredUpto(e, im, f, l)
    <3> SUFFICES ASSUME NEW m \in 1..l PROVE BookRestored(e.ids[m], im.books[m], f.held[m])
      BY DEF RestoredUpto
    <3>1. CASE m = l
      BY <3>1, <2>10, <2>12 DEF i, b
    <3>2. CASE m \in 1..k
      <4>1. m # l /\ m \in 1..n
        BY <3>2, <2>2 DEF l
      <4>2. f.held[m] = a.held[m]
        BY <4>1, <2>7, <2>12
      <4> QED BY <3>2, <4>2, <2>5 DEF RestoredUpto
    <3> QED BY <3>1, <3>2, <2>2 DEF l
  <2> QED BY <2>5, <2>13 DEF l
<1>3. P \in SUBSET Nat /\ 0 \in P
  BY <1>1
<1>4. \A k \in P : k + 1 \in P
  BY <1>2
<1> HIDE DEF P, Done
<1>5. P = Nat
  BY <1>3, <1>4, Induction
<1>6. ASSUME NEW k \in 0..n PROVE Done(k)
  <2>1. k \in P /\ k <= n
    BY <1>5
  <2> QED BY <2>1 DEF P
<1> QED
  BY <1>6 DEF Done

(* The loop itself.                                                        *)
BooksTo(e, im, F) ==
  /\ F \in [0..Len(e.ids) -> BooksType(e)]
  /\ F[0] = [engine |-> e, status |-> "Accepted"]
  /\ BooksSteps(F, Len(e.ids), [n \in DOMAIN e.ids |-> n], e, im)

(* restore runs through the books by index.                                *)
LEMMA RestoreBooksLoop ==
  ASSUME NEW e, EngineOk(e), NEW im, ValidImage(e, im)
  PROVE  \E F : BooksTo(e, im, F) /\ RestoreBooks(e, im) = F[Len(e.ids)]
<1> DEFINE n == Len(e.ids)
           q == [m \in DOMAIN e.ids |-> m]
           start == [engine |-> e, status |-> "Accepted"]
           V == BooksType(e)
<1>1. n \in Nat /\ DOMAIN e.ids = 1..n /\ e \in EngineType
  <2>1. e.ids \in Seq(Instrument) /\ e \in EngineType
    BY DEF EngineOk, Routed, EngineType
  <2> QED BY <2>1, LenProperties
<1>2. DOMAIN q = 1..n /\ \A k \in 1..n : q[k] = k
  BY <1>1
<1>3. RestoreBooks(e, im) = (CHOOSE g : Books(g, start, n, q, e, im))[1..n]
  <2> HIDE DEF n
  <2> QED BY <1>2, <1>1 DEF RestoreBooks, FoldLeft, MapThenFoldSet, Books
<1>4. start \in V
  BY <1>1 DEF BooksType, SameRoutes, Status
<1>5. BooksIn(V, n, q, e, im)
  <2>1. n = Len(e.ids)
    OBVIOUS
  <2> HIDE DEF q, n
  <2> QED BY <1>1, <1>2, <2>1, BooksInType
<1> HIDE DEF n, q, start, V
<1>6. PICK F : /\ F \in [0..n -> V] /\ F[0] = start
               /\ BooksSteps(F, n, q, e, im)
               /\ F[n] = (CHOOSE g : Books(g, start, n, q, e, im))[1..n]
  BY <1>1, <1>4, <1>5, BooksRun
<1> QED
  BY <1>3, <1>6 DEF BooksTo, n, q, start, V

(* restore of a valid image leaves an engine of books, the image's if it   *)
(* accepts.                                                                *)
LEMMA RestoreBooksIs ==
  ASSUME NEW e, EngineOk(e), NEW im, ValidImage(e, im), NEW x, x = RestoreBooks(e, im)
  PROVE  /\ EngineOk(x.engine) /\ SameRoutes(e, x.engine) /\ x.status \in Status
         /\ x.status = "Accepted" => EngineRestored(e, im, x.engine)
<1> DEFINE n == Len(e.ids)
           q == [m \in DOMAIN e.ids |-> m]
<1>1. n \in Nat /\ DOMAIN e.ids = 1..n
  <2>1. e.ids \in Seq(Instrument)
    BY DEF EngineOk, Routed, EngineType
  <2> QED BY <2>1, LenProperties
<1>2. \A k \in 1..n : q[k] = k
  BY <1>1
<1>3. PICK F : BooksTo(e, im, F) /\ x = F[n]
  BY RestoreBooksLoop
<1>4. F \in [0..n -> BooksType(e)] /\ BooksSteps(F, n, q, e, im)
  BY <1>3 DEF BooksTo
<1> HIDE DEF n, q
<1>5. \A k \in 0..n : F[k].status = "Accepted" => RestoredUpto(e, im, F[k].engine, k)
  BY <1>1, <1>2, <1>4, BooksStepOn
<1>6. x \in BooksType(e) /\ n \in 0..n
  BY <1>1, <1>3, <1>4
<1>7. x.status = "Accepted" => RestoredUpto(e, im, x.engine, n)
  BY <1>3, <1>5, <1>6
<1> QED
  BY <1>1, <1>6, <1>7 DEF BooksType, EngineRestored, RestoredUpto

(* restore leaves an engine of books, and when it accepts, those of the    *)
(* image.                                                                  *)
RestoreOutcome(e, im, x) ==
  /\ EngineOk(x.engine) /\ SameRoutes(e, x.engine)
  /\ ~ValidImage(e, im) => x.status # "Accepted" /\ x.engine = e
  /\ x.status = "Accepted" => ValidImage(e, im) /\ EngineRestored(e, im, x.engine)

(* The outcome of restore, whatever the image.                             *)
LEMMA RestoreIs ==
  ASSUME NEW e, EngineOk(e), NEW im \in ImageType, NEW x, x = Restore(e, im)
  PROVE  RestoreOutcome(e, im, x)
<1>1. CASE ImageStatus(e, im) = "Accepted"
  <2>1. x = RestoreBooks(e, im) /\ ValidImage(e, im)
    BY <1>1, StatusIs DEF Restore
  <2>2. /\ EngineOk(x.engine) /\ SameRoutes(e, x.engine)
        /\ x.status = "Accepted" => EngineRestored(e, im, x.engine)
    BY <2>1, RestoreBooksIs
  <2> QED BY <2>1, <2>2 DEF RestoreOutcome
<1>2. CASE ImageStatus(e, im) # "Accepted"
  <2>1. x.engine = e /\ x.status = ImageStatus(e, im)
    BY <1>2 DEF Restore
  <2> QED BY <1>2, <2>1 DEF RestoreOutcome, SameRoutes
<1> QED
  BY <1>1, <1>2

-----------------------------------------------------------------------------
(* The image of a book, and the way back                                   *)

(* f counts prices from the best.                                          *)
InRank(s, f, n) == \A m, k \in 1..n : m < k => Better(s, f[m], f[k])

(* A finite set of prices can be counted from the best.                    *)
LEMMA RankedExists ==
  ASSUME NEW S, IsFiniteSet(S), S \subseteq Price, NEW s \in Side
  PROVE  \E f \in [1..Cardinality(S) -> S] : InRank(s, f, Cardinality(S))
<1> DEFINE Good(T) == \E f \in [1..Cardinality(T) -> T] : InRank(s, f, Cardinality(T))
           P == {T \in SUBSET S : Good(T)}
<1>1. ASSUME NEW T \in SUBSET S, \A x \in T : T \ {x} \in P PROVE T \in P
  <2>1. CASE T = {}
    <3>1. Cardinality(T) = 0
      BY <2>1, FS_EmptySet
    <3> DEFINE f == [m \in 1..0 |-> 0]
    <3>2. f \in [1..0 -> T] /\ InRank(s, f, 0)
      BY DEF InRank
    <3> QED BY <3>1, <3>2
  <2>2. CASE T # {}
    <3>1. T \in SUBSET Price /\ \A x \in T : x \in Int
      BY PriceAssumption
    <3>2. \E y \in T : \A x \in T : x # y => Better(s, x, y)
      <4>1. PICK lo \in T : \A x \in T : lo <= x
        BY <2>2, <3>1, PriceAssumption
      <4>2. PICK hi \in T : \A x \in T : x <= hi
        BY <2>2, <3>1, PriceAssumption
      <4>3. CASE s = "Buy"
        <5>1. \A x \in T : x # lo => x > lo
          BY <3>1, <4>1
        <5> QED BY <4>3, <5>1 DEF Better
      <4>4. CASE s = "Sell"
        <5>1. \A x \in T : x # hi => x < hi
          BY <3>1, <4>2
        <5> QED BY <4>4, <5>1 DEF Better
      <4> QED BY <4>3, <4>4 DEF Side
    <3>3. PICK y \in T : \A x \in T : x # y => Better(s, x, y)
      BY <3>2
    <3> DEFINE U == T \ {y}
               n == Cardinality(U)
    <3>4. U \in P
      BY <1>1, <3>3
    <3>5. PICK f \in [1..n -> U] : InRank(s, f, n)
      BY <3>4
    <3>6. IsFiniteSet(U) /\ y \notin U /\ T = U \cup {y}
      <4>1. IsFiniteSet(T)
        BY FS_Subset
      <4> QED BY <4>1, FS_Subset
    <3> HIDE DEF U
    <3>7. Cardinality(U \cup {y}) = n + 1 /\ n \in Nat
      BY <3>6, FS_AddElement, FS_CardinalityType
    <3>8. Cardinality(T) = n + 1
      BY <3>6, <3>7
    <3> HIDE DEF n
    <3> DEFINE g == [m \in 1..(n + 1) |-> IF m = n + 1 THEN y ELSE f[m]]
    <3>9. g \in [1..(n + 1) -> T]
      <4>1. \A m \in 1..(n + 1) : m = n + 1 \/ m \in 1..n
        BY <3>7
      <4>2. \A m \in 1..(n + 1) : (IF m = n + 1 THEN y ELSE f[m]) \in T
        BY <4>1, <3>6
      <4> QED BY <4>2
    <3>10. InRank(s, g, n + 1)
      <4> SUFFICES ASSUME NEW m \in 1..(n + 1), NEW k \in 1..(n + 1), m < k
                   PROVE  Better(s, g[m], g[k])
        BY DEF InRank
      <4>1. m \in 1..n /\ g[m] = f[m] /\ f[m] \in U /\ f[m] \in T /\ f[m] # y
        BY <3>6, <3>7
      <4>2. CASE k = n + 1
        BY <4>1, <4>2, <3>3
      <4>3. CASE k # n + 1
        <5>1. k \in 1..n /\ g[k] = f[k]
          BY <4>3, <3>7
        <5> QED BY <4>1, <5>1, <3>5 DEF InRank
      <4> QED BY <4>2, <4>3
    <3> HIDE DEF g
    <3>11. Good(T)
      BY <3>8, <3>9, <3>10
    <3> QED BY <3>11
  <2> QED BY <2>1, <2>2
<1>2. P \in SUBSET SUBSET S
  OBVIOUS
<1>3. \A T \in SUBSET S : (\A x \in T : T \ {x} \in P) => T \in P
  BY <1>1
<1> HIDE DEF P
<1>4. \A T \in SUBSET S : T \in P
  BY <1>2, <1>3, SubsetInduction
<1>5. S \in P
  BY <1>4
<1> QED
  BY <1>5 DEF P

(* What for_each_level goes through.                                       *)
LEMMA BestFirstIs ==
  ASSUME NEW b, Sound(b), IsFiniteSet(b.index), NEW s \in Side, NEW f, f = BestFirst(b, s),
         NEW n, n = Cardinality(Occupied(b, s))
  PROVE  /\ n \in Nat /\ f \in [1..n -> Occupied(b, s)] /\ InRank(s, f, n)
         /\ \A j, k \in 1..n : f[j] = f[k] => j = k
         /\ \A p \in Occupied(b, s) : \E k \in 1..n : f[k] = p
<1> DEFINE S == Occupied(b, s)
<1>1. IsFiniteSet(S) /\ n \in Nat /\ S \subseteq Price
  BY FewLevels DEF Occupied
<1>2. f = CHOOSE g \in [1..n -> S] : \A m, k \in DOMAIN g : m < k => Better(s, g[m], g[k])
  BY DEF BestFirst
<1> HIDE DEF S
<1>3. PICK g \in [1..n -> S] : InRank(s, g, n)
  <2>1. n = Cardinality(S)
    BY DEF S
  <2> QED BY <1>1, <2>1, RankedExists
<1>4. \A m, k \in DOMAIN g : m < k => Better(s, g[m], g[k])
  BY <1>3 DEF InRank
<1>5. f \in [1..n -> S] /\ \A m, k \in DOMAIN f : m < k => Better(s, f[m], f[k])
  BY <1>2, <1>4
<1>6. InRank(s, f, n)
  BY <1>5 DEF InRank
<1>7. ASSUME NEW j \in 1..n, NEW k \in 1..n, f[j] = f[k] PROVE j = k
  <2>1. f[j] \in Int
    BY <1>1, <1>5, PriceAssumption
  <2> DEFINE x == f[j]
  <2> HIDE DEF x
  <2>2. ~Better(s, x, x)
    <3>1. x \in Int
      BY <2>1 DEF x
    <3> QED BY <3>1 DEF Better
  <2>3. ~(j < k) /\ ~(k < j)
    BY <1>6, <1>7, <2>2 DEF InRank, x
  <2> QED BY <1>1, <2>3
<1>8. \A p \in S : \E k \in 1..n : f[k] = p
  <2> DEFINE D == 1..n
  <2>1. IsFiniteSet(D) /\ Cardinality(D) = n
    BY <1>1, FS_Interval
  <2>2. f \in [D -> S] /\ \A j, k \in D : f[j] = f[k] => j = k
    BY <1>5, <1>7
  <2>3. Cardinality(D) = Cardinality(S)
    BY <2>1 DEF S
  <2> HIDE DEF D
  <2>4. f \in Injection(D, S)
    BY <2>2 DEF Injection, IsInjective
  <2>5. f \in Surjection(D, S)
    BY <2>3, <2>4, <1>1, FS_Injection
  <2> QED BY <2>5 DEF Surjection, D
<1> QED
  BY <1>1, <1>5, <1>6, <1>7, <1>8 DEF S

-----------------------------------------------------------------------------
(* Ids in price-time order.                                                *)

(* The orders of price p on side s.                                        *)
At(b, s, p) == {id \in b.index : b.order[id].side = s /\ b.order[id].price = p}

(* Q has all the orders of a level or none.                                *)
WholeLevels(b, Q) ==
  \A x, y \in b.index :
    b.order[x].side = b.order[y].side /\ b.order[x].price = b.order[y].price /\ x \in Q => y \in Q

(* ids are those of Q, each level in the order of its queue.               *)
InQueueOrder(b, ids) ==
  \A a, d \in 1..Len(ids) : \A s \in Side, p \in Price : \A m, l \in DOMAIN b.level[s][p] :
    ids[a] = b.level[s][p][m] /\ ids[d] = b.level[s][p][l] /\ m < l => a < d
NoneTwice(ids) == \A a, d \in 1..Len(ids) : ids[a] = ids[d] => a = d
ListsOf(b, ids, Q) ==
  /\ ids \in Seq(OrderId) /\ WholeLevels(b, Q) /\ Q \subseteq b.index /\ NoneTwice(ids)
  /\ \A a \in 1..Len(ids) : ids[a] \in Q
  /\ \A x \in Q : \E a \in 1..Len(ids) : ids[a] = x
  /\ InQueueOrder(b, ids)

(* No order is listed by an empty list.                                    *)
LEMMA ListsNone ==
  ASSUME NEW b, Sound(b)
  PROVE  ListsOf(b, <<>>, {})
<1> DEFINE e == <<>>
<1>1. e \in Seq(OrderId) /\ Len(e) = 0
  OBVIOUS
<1> HIDE DEF e
<1>2. ListsOf(b, e, {})
  BY <1>1 DEF ListsOf, WholeLevels, InQueueOrder, NoneTwice
<1> QED
  BY <1>2 DEF e

(* The queue of a level lists what rests there.                            *)
LEMMA ListsLevel ==
  ASSUME NEW b, Sound(b), NEW s \in Side, NEW p \in Price
  PROVE  ListsOf(b, b.level[s][p], At(b, s, p))
<1> DEFINE fifo == b.level[s][p]
           Q == At(b, s, p)
<1>1. /\ fifo \in Seq(OrderId) /\ DOMAIN fifo = 1..Len(fifo) /\ Len(fifo) \in Nat
      /\ \A i \in DOMAIN fifo : fifo[i] \in Q
  BY Queued DEF At
<1>2. \A x \in Q : \E a \in DOMAIN fifo : fifo[a] = x
  BY DEF At, Sound, IndexedAreQueued
<1>3. Q \subseteq b.index /\ WholeLevels(b, Q)
  BY DEF At, WholeLevels
<1>4. InQueueOrder(b, fifo)
  <2> SUFFICES ASSUME NEW a \in 1..Len(fifo), NEW d \in 1..Len(fifo), NEW t \in Side, NEW x \in Price,
                      NEW m \in DOMAIN b.level[t][x], NEW l \in DOMAIN b.level[t][x],
                      fifo[a] = b.level[t][x][m], fifo[d] = b.level[t][x][l], m < l
               PROVE  a < d
    BY DEF InQueueOrder
  <2>1. /\ b.order[b.level[t][x][m]].side = t /\ b.order[b.level[t][x][m]].price = x
    BY Queued
  <2>2. b.order[fifo[a]].side = s /\ b.order[fifo[a]].price = p
    <3>1. fifo[a] \in Q
      BY <1>1
    <3> QED BY <3>1 DEF At
  <2>3. t = s /\ x = p
    BY <2>1, <2>2
  <2>4. m \in DOMAIN fifo /\ l \in DOMAIN fifo /\ fifo[a] = fifo[m] /\ fifo[d] = fifo[l]
    BY <2>3
  <2>5. a = m /\ d = l
    <3>1. \A i \in DOMAIN fifo : \A j \in DOMAIN fifo : fifo[j] = fifo[i] => j = i
      BY Queued
    <3> HIDE DEF fifo
    <3> QED BY <2>4, <3>1, <1>1
  <2> QED BY <2>5
<1>5. NoneTwice(fifo)
  <2>1. \A i \in DOMAIN fifo : \A j \in DOMAIN fifo : fifo[j] = fifo[i] => j = i
    BY Queued
  <2> HIDE DEF fifo
  <2> QED BY <2>1, <1>1 DEF NoneTwice
<1> QED
  BY <1>1, <1>2, <1>3, <1>4, <1>5 DEF ListsOf

(* Two lists of different orders, one behind the other, list both.         *)
LEMMA ListsTogether ==
  ASSUME NEW b, Sound(b), NEW u, NEW Q, ListsOf(b, u, Q), NEW v, NEW R, ListsOf(b, v, R),
         Q \cap R = {}, NEW w, w = u \o v
  PROVE  ListsOf(b, w, Q \cup R)
<1>1. u \in Seq(OrderId) /\ v \in Seq(OrderId) /\ Len(u) \in Nat /\ Len(v) \in Nat
  BY LenProperties DEF ListsOf
<1>2. /\ w \in Seq(OrderId) /\ Len(w) = Len(u) + Len(v)
      /\ \A a \in 1..(Len(u) + Len(v)) : w[a] = IF a <= Len(u) THEN u[a] ELSE v[a - Len(u)]
  BY <1>1, ConcatProperties
<1> DEFINE n == Len(u)
           o == Len(v)
<1> HIDE DEF n, o
<1>3. /\ n \in Nat /\ o \in Nat /\ Len(w) = n + o
      /\ \A a \in 1..n : a \in 1..(n + o) /\ w[a] = u[a] /\ u[a] \in Q
      /\ \A a \in 1..o : n + a \in 1..(n + o) /\ w[n + a] = v[a] /\ v[a] \in R
  <2>1. n \in Nat /\ o \in Nat /\ Len(w) = n + o
    BY <1>1, <1>2 DEF n, o
  <2>2. \A a \in 1..n : u[a] \in Q
    BY DEF ListsOf, n
  <2>3. \A a \in 1..o : v[a] \in R
    BY DEF ListsOf, o
  <2>4. \A a \in 1..(n + o) : w[a] = IF a <= n THEN u[a] ELSE v[a - n]
    BY <1>2 DEF n, o
  <2>5. \A a \in 1..n : a \in 1..(n + o) /\ w[a] = u[a]
    BY <2>1, <2>4
  <2>6. ASSUME NEW a \in 1..o PROVE n + a \in 1..(n + o) /\ w[n + a] = v[a]
    <3>1. n + a \in 1..(n + o) /\ ~(n + a <= n) /\ (n + a) - n = a
      BY <2>1
    <3> QED BY <3>1, <2>4
  <2> QED BY <2>1, <2>2, <2>3, <2>5, <2>6
<1>4. \A a \in 1..(n + o) : a \in 1..n \/ (a - n \in 1..o /\ w[a] = v[a - n])
  <2> TAKE a \in 1..(n + o)
  <2>1. a \in 1..n \/ (a - n \in 1..o /\ n + (a - n) = a)
    BY <1>3
  <2> QED BY <2>1, <1>3
<1>5. \A a \in 1..Len(w) : w[a] \in Q \cup R
  BY <1>3, <1>4
<1>6. \A x \in Q \cup R : \E a \in 1..Len(w) : w[a] = x
  <2>1. ASSUME NEW x \in Q PROVE \E a \in 1..Len(w) : w[a] = x
    <3>1. PICK a \in 1..n : u[a] = x
      BY DEF ListsOf, n
    <3> QED BY <3>1, <1>3
  <2>2. ASSUME NEW x \in R PROVE \E a \in 1..Len(w) : w[a] = x
    <3>1. PICK a \in 1..o : v[a] = x
      BY DEF ListsOf, o
    <3> QED BY <3>1, <1>3
  <2> QED BY <2>1, <2>2
<1>7. Q \cup R \subseteq b.index /\ WholeLevels(b, Q \cup R)
  BY DEF ListsOf, WholeLevels
<1>8. InQueueOrder(b, w)
  <2> SUFFICES ASSUME NEW a \in 1..(n + o), NEW d \in 1..(n + o), NEW s \in Side, NEW p \in Price,
                      NEW m \in DOMAIN b.level[s][p], NEW l \in DOMAIN b.level[s][p],
                      w[a] = b.level[s][p][m], w[d] = b.level[s][p][l], m < l
               PROVE  a < d
    BY <1>3 DEF InQueueOrder
  <2> DEFINE x == b.level[s][p][m]
             y == b.level[s][p][l]
  <2>1. /\ x \in b.index /\ y \in b.index /\ b.order[x].side = b.order[y].side
        /\ b.order[x].price = b.order[y].price
    <3>1. x \in b.index /\ b.order[x].side = s /\ b.order[x].price = p
      BY Queued
    <3>2. y \in b.index /\ b.order[y].side = s /\ b.order[y].price = p
      BY Queued
    <3> QED BY <3>1, <3>2
  <2>2. (x \in Q <=> y \in Q) /\ (x \in R <=> y \in R)
    BY <2>1 DEF ListsOf, WholeLevels
  <2> HIDE DEF x, y
  <2>3. CASE a \in 1..n
    <3>1. x \in Q /\ x \notin R /\ w[a] = u[a]
      BY <2>3, <1>3 DEF x
    <3>2. d \in 1..n /\ w[d] = u[d]
      BY <3>1, <2>2, <1>3, <1>4 DEF y
    <3>3. InQueueOrder(b, u)
      BY DEF ListsOf
    <3> QED BY <2>3, <3>1, <3>2, <3>3 DEF InQueueOrder, n
  <2>4. CASE a \notin 1..n
    <3>1. a - n \in 1..o /\ w[a] = v[a - n]
      BY <2>4, <1>4
    <3>2. x \in R /\ x \notin Q
      BY <3>1, <1>3 DEF x
    <3>3. d \notin 1..n
      BY <3>2, <2>2, <1>3 DEF y
    <3>4. d - n \in 1..o /\ w[d] = v[d - n]
      BY <3>3, <1>4
    <3>5. InQueueOrder(b, v)
      BY DEF ListsOf
    <3>6. a - n < d - n
      BY <3>1, <3>4, <3>5 DEF InQueueOrder, o
    <3> QED BY <3>6, <1>3
  <2> QED BY <2>3, <2>4
<1>9. NoneTwice(w)
  <2> SUFFICES ASSUME NEW a \in 1..(n + o), NEW d \in 1..(n + o), w[a] = w[d] PROVE a = d
    BY <1>3 DEF NoneTwice
  <2>1. NoneTwice(u) /\ NoneTwice(v)
    BY DEF ListsOf
  <2>2. CASE a \in 1..n
    <3>1. w[a] \in Q /\ w[d] \notin R /\ w[a] = u[a]
      BY <2>2, <1>3
    <3>2. d \in 1..n /\ w[d] = u[d]
      BY <3>1, <1>3, <1>4
    <3> QED BY <2>1, <2>2, <3>1, <3>2 DEF NoneTwice, n
  <2>3. CASE a \notin 1..n
    <3>1. a - n \in 1..o /\ w[a] = v[a - n]
      BY <2>3, <1>4
    <3>2. w[d] \notin Q
      BY <3>1, <1>3
    <3>3. d - n \in 1..o /\ w[d] = v[d - n]
      BY <3>2, <1>3, <1>4
    <3>4. a - n = d - n
      BY <2>1, <3>1, <3>3 DEF NoneTwice, o
    <3> QED BY <3>4, <1>3
  <2> QED BY <2>2, <2>3
<1> QED
  BY <1>2, <1>5, <1>6, <1>7, <1>8, <1>9 DEF ListsOf

(* What FoldLeft iterates in InOrder.                                      *)
Queues(g, start, n, q, b, s) ==
  g = [T \in SUBSET (1..n) |->
         IF T = {} THEN start ELSE (g[T \ {Max(T)}] \o b.level[s][q[Max(T)]])]

(* The loop stays in V, and goes from each F[k - 1] to F[k].               *)
QueuesIn(V, n, q, b, s) ==
  \A k \in 1..n, x \in V : (x \o b.level[s][q[k]]) \in V
QueuesSteps(F, n, q, b, s) ==
  \A k \in 1..n : F[k] = (F[k - 1] \o b.level[s][q[k]])

(* It goes through the levels one after another.                           *)
LEMMA QueuesRun ==
  ASSUME NEW n \in Nat, NEW q, NEW b, NEW s, NEW V, NEW start \in V,
         QueuesIn(V, n, q, b, s)
  PROVE  \E F : /\ F \in [0..n -> V] /\ F[0] = start
               /\ QueuesSteps(F, n, q, b, s)
               /\ F[n] = (CHOOSE g : Queues(g, start, n, q, b, s))[1..n]
<1> DEFINE step == [k \in 1..n |-> [x \in V |-> (x \o b.level[s][q[k]])]]
           iter == CHOOSE g : Queues(g, start, n, q, b, s)
<1>1. IsStep(step, n, V)
  BY DEF IsStep, QueuesIn
<1>2. \A k \in 1..n, x \in V : step[k][x] = (x \o b.level[s][q[k]])
  OBVIOUS
<1> HIDE DEF step
<1>4. PICK g \in [SUBSET (1..n) -> V] : FoldsUp(g, n, V, start, step)
  BY <1>1, FoldExists, Zenon
<1>5. Queues(g, start, n, q, b, s)
  <2>1. ASSUME NEW T \in SUBSET (1..n)
        PROVE  g[T] = IF T = {} THEN start ELSE (g[T \ {Max(T)}] \o b.level[s][q[Max(T)]])
    <3>1. CASE T # {}
      <4>1. Max(T) \in 1..n
        BY <3>1, MaxOfPart
      <4>2. T \ {Max(T)} \in SUBSET (1..n)
        OBVIOUS
      <4>3. g[T \ {Max(T)}] \in V
        BY <4>2
      <4>4. g[T] = step[Max(T)][g[T \ {Max(T)}]]
        BY <1>4, <3>1, <4>3, Zenon DEF FoldsUp
      <4>5. step[Max(T)][g[T \ {Max(T)}]] = (g[T \ {Max(T)}] \o b.level[s][q[Max(T)]])
        BY <1>2, <4>1, <4>3, Zenon
      <4> QED BY <3>1, <4>4, <4>5
    <3>2. CASE T = {}
      BY <3>2, <1>4 DEF FoldsUp
    <3> QED BY <3>1, <3>2
  <2> QED BY <2>1 DEF Queues
<1>6. Queues(iter, start, n, q, b, s)
  BY <1>5, Zenon
<1>7. \A T \in SUBSET (1..n) :
        iter[T] = IF T = {} THEN start ELSE (iter[T \ {Max(T)}] \o b.level[s][q[Max(T)]])
  <2> HIDE DEF iter
  <2> QED BY <1>6 DEF Queues
<1> HIDE DEF iter
<1>8. FoldsUp(iter, n, V, start, step)
  <2>1. \A T \in SUBSET (1..n) : T # {} => Max(T) \in 1..n
    BY MaxOfPart
  <2>2. \A T \in SUBSET (1..n) :
          T # {} /\ iter[T \ {Max(T)}] \in V
            => iter[T] = step[Max(T)][iter[T \ {Max(T)}]]
    <3> TAKE T \in SUBSET (1..n)
    <3> HAVE T # {} /\ iter[T \ {Max(T)}] \in V
    <3>1. iter[T] = (iter[T \ {Max(T)}] \o b.level[s][q[Max(T)]])
      BY <1>7
    <3>2. Max(T) \in 1..n
      BY <2>1
    <3>3. step[Max(T)][iter[T \ {Max(T)}]] = (iter[T \ {Max(T)}] \o b.level[s][q[Max(T)]])
      BY <1>2, <3>2, Zenon
    <3> QED BY <3>1, <3>3
  <2>3. iter[{}] = start
    BY <1>7
  <2> QED BY <2>2, <2>3 DEF FoldsUp
<1>9. PICK F : Steps(F, n, V, start, step) /\ iter[1..n] = F[n]
  BY <1>1, <1>8, FoldPrefixes
<1>10. F \in [0..n -> V] /\ F[0] = start /\ \A k \in 1..n : F[k] = step[k][F[k - 1]]
  BY <1>9 DEF Steps
<1>11. \A k \in 1..n : F[k] = (F[k - 1] \o b.level[s][q[k]])
  <2> TAKE k \in 1..n
  <2>1. k - 1 \in 0..n
    OBVIOUS
  <2>2. F[k - 1] \in V
    BY <1>10, <2>1
  <2>3. step[k][F[k - 1]] = (F[k - 1] \o b.level[s][q[k]])
    BY <1>2, <2>2, Zenon
  <2> QED BY <2>3, <1>10
<1> QED
  BY <1>9, <1>10, <1>11 DEF iter, QueuesSteps

(* for_each_order goes through all the orders of a side.                   *)
LEMMA InOrderIs ==
  ASSUME NEW b, Sound(b), IsFiniteSet(b.index), NEW s \in Side
  PROVE  ListsOf(b, InOrder(b, s), {id \in b.index : b.order[id].side = s})
<1> DEFINE q == BestFirst(b, s)
           n == Cardinality(Occupied(b, s))
           V == Seq(OrderId)
           start == <<>>
<1>1. /\ n \in Nat /\ q \in [1..n -> Occupied(b, s)]
      /\ \A j, k \in 1..n : q[j] = q[k] => j = k
      /\ \A p \in Occupied(b, s) : \E k \in 1..n : q[k] = p
  BY BestFirstIs
<1>2. DOMAIN q = 1..n /\ \A k \in 1..n : q[k] \in Price
  BY <1>1 DEF Occupied
<1> HIDE DEF n
<1>3. InOrder(b, s) = (CHOOSE g : Queues(g, start, n, q, b, s))[1..n]
  BY <1>2 DEF InOrder, FoldLeft, MapThenFoldSet, Queues
<1>4. QueuesIn(V, n, q, b, s)
  <2> SUFFICES ASSUME NEW k \in 1..n, NEW x \in V PROVE (x \o b.level[s][q[k]]) \in V
    BY DEF QueuesIn
  <2>1. b.level[s][q[k]] \in V
    BY <1>2, Queued
  <2> QED BY <2>1, ConcatProperties
<1>5. start \in V
  OBVIOUS
<1> HIDE DEF q, V, start
<1>6. PICK F : /\ F \in [0..n -> V] /\ F[0] = start
               /\ QueuesSteps(F, n, q, b, s)
               /\ F[n] = (CHOOSE g : Queues(g, start, n, q, b, s))[1..n]
  BY <1>1, <1>4, <1>5, QueuesRun
<1> DEFINE Upto(k) == {id \in b.index : b.order[id].side = s /\ \E j \in 1..k : b.order[id].price = q[j]}
           P == {k \in Nat : k <= n => ListsOf(b, F[k], Upto(k))}
<1>7. 0 \in P
  <2>1. Upto(0) = {}
    OBVIOUS
  <2> HIDE DEF Upto
  <2>2. F[0] = <<>>
    BY <1>6 DEF start
  <2>3. ListsOf(b, F[0], Upto(0))
    BY <2>1, <2>2, ListsNone
  <2> QED BY <2>3
<1>8. ASSUME NEW k \in P PROVE k + 1 \in P
  <2>1. SUFFICES ASSUME k + 1 <= n PROVE ListsOf(b, F[k + 1], Upto(k + 1))
    OBVIOUS
  <2> DEFINE l == k + 1
             p == q[l]
             u == F[k]
             w == F[l]
             v == b.level[s][p]
             Q == Upto(k)
             R == At(b, s, p)
  <2>2. k \in Nat /\ k <= n /\ l \in 1..n /\ l - 1 = k /\ k \in 0..n /\ 1..l = (1..k) \cup {l}
    <3>1. k \in Nat
      OBVIOUS
    <3> HIDE DEF P
    <3>2. 1..l = (1..k) \cup {l}
      BY <3>1
    <3> QED BY <2>1, <3>1, <3>2, <1>1
  <2>3. ListsOf(b, u, Q)
    BY <2>2
  <2>4. p \in Price
    BY <2>2, <1>2
  <2>5. ListsOf(b, v, R)
    BY <2>4, ListsLevel
  <2>6. w = u \o v
    BY <2>2, <1>6 DEF QueuesSteps
  <2>7. Q \cap R = {}
    <3>1. \A j \in 1..k : q[j] # p
      BY <2>2, <1>1 DEF q
    <3> QED BY <3>1 DEF At
  <2>8. Upto(l) = Q \cup R
    BY <2>2 DEF At
  <2> HIDE DEF u, v, w, Q, R
  <2>9. ListsOf(b, w, Q \cup R)
    BY <2>3, <2>5, <2>6, <2>7, ListsTogether
  <2> QED BY <2>8, <2>9 DEF w
<1>9. P \in SUBSET Nat
  OBVIOUS
<1>10. \A k \in P : k + 1 \in P
  BY <1>8
<1> HIDE DEF Upto, P
<1>11. P = Nat
  BY <1>7, <1>9, <1>10, Induction
<1>12. ListsOf(b, F[n], Upto(n))
  <2>1. n \in P /\ n <= n
    BY <1>1, <1>11
  <2> QED BY <2>1 DEF P
<1>13. Upto(n) = {id \in b.index : b.order[id].side = s}
  <2>1. ASSUME NEW id \in b.index, b.order[id].side = s
        PROVE  \E j \in 1..n : b.order[id].price = q[j]
    <3>1. /\ b.order[id].price \in Price
          /\ \E i \in DOMAIN b.level[s][b.order[id].price] : TRUE
      BY <2>1 DEF Sound, IndexedAreQueued
    <3>2. b.order[id].price \in Occupied(b, s)
      BY <3>1 DEF Occupied
    <3> QED BY <3>2, <1>1 DEF q
  <2> QED BY <2>1 DEF Upto
<1> QED
  BY <1>3, <1>6, <1>12, <1>13

(* All of them: bids, then asks.                                           *)
LEMMA AllInOrder ==
  ASSUME NEW b, Sound(b), IsFiniteSet(b.index), NEW ids, ids = InOrder(b, "Buy") \o InOrder(b, "Sell")
  PROVE  ListsOf(b, ids, b.index)
<1> DEFINE Q == {id \in b.index : b.order[id].side = "Buy"}
           R == {id \in b.index : b.order[id].side = "Sell"}
           u == InOrder(b, "Buy")
           v == InOrder(b, "Sell")
<1>1. "Buy" \in Side /\ "Sell" \in Side
  BY DEF Side
<1>2. ListsOf(b, u, Q)
  BY <1>1, InOrderIs
<1>3. ListsOf(b, v, R)
  BY <1>1, InOrderIs
<1>4. Q \cap R = {} /\ Q \cup R = b.index
  <2>1. \A id \in b.index : b.order[id].side \in Side
    BY DEF Sound, BookType, Order
  <2> QED BY <2>1 DEF Side
<1>5. ids = u \o v
  OBVIOUS
<1> HIDE DEF Q, R, u, v
<1>6. ListsOf(b, ids, Q \cup R)
  BY <1>2, <1>3, <1>4, <1>5, ListsTogether
<1> QED
  BY <1>4, <1>6

(* Of two functions that rise and have the same values the first is part   *)
(* of the second.                                                          *)
Rises(a, n) == \A j, k \in 1..n : j < k => a[j] < a[k]
ClimbsIn(a, n, b, m) == n <= m /\ \A j \in 1..n : a[j] = b[j]
Covers(b, m, a, n) == \A j \in 1..n : \E k \in 1..m : b[k] = a[j]

(* Of two rising lists with the same numbers, one begins the other.        *)
LEMMA ClimbPart ==
  ASSUME NEW n \in Nat, NEW m \in Nat, NEW a \in [1..n -> Nat], NEW b \in [1..m -> Nat],
         Rises(a, n), Rises(b, m),
         Covers(b, m, a, n), Covers(a, n, b, m)
  PROVE  ClimbsIn(a, n, b, m)
<1> DEFINE Good(k) == k <= m /\ \A j \in 1..k : a[j] = b[j]
           P == {k \in Nat : k <= n => Good(k)}
<1>1. P \in SUBSET Nat /\ 0 \in P
  OBVIOUS
<1>2. ASSUME NEW k \in P PROVE k + 1 \in P
  <2>1. SUFFICES ASSUME k + 1 <= n PROVE Good(k + 1)
    OBVIOUS
  <2> DEFINE l == k + 1
  <2>2. k \in Nat /\ k <= n /\ Good(k) /\ l \in 1..n
    BY <2>1
  <2>3. k <= m /\ \A j \in 1..k : a[j] = b[j]
    BY <2>2
  <2>4. PICK j \in 1..m : b[j] = a[l]
    BY <2>2 DEF Covers
  <2>5. ~(j <= k)
    <3> SUFFICES ASSUME j <= k PROVE FALSE
      OBVIOUS
    <3>1. j \in 1..k /\ j \in 1..n /\ j < l
      BY <2>2
    <3>2. a[j] = b[j]
      BY <3>1, <2>3
    <3>3. a[j] < a[l]
      BY <3>1, <2>2 DEF Rises
    <3>4. a[j] \in Nat /\ a[l] \in Nat
      BY <3>1, <2>2
    <3> QED BY <3>2, <3>3, <3>4, <2>4
  <2>6. l \in 1..m /\ l <= j
    BY <2>2, <2>5
  <2>7. PICK i \in 1..n : a[i] = b[l]
    BY <2>6 DEF Covers
  <2>8. ~(i <= k)
    <3> SUFFICES ASSUME i <= k PROVE FALSE
      OBVIOUS
    <3>1. i \in 1..k /\ i \in 1..m /\ i < l
      BY <2>2, <2>3
    <3>2. a[i] = b[i]
      BY <3>1, <2>3
    <3>3. b[i] < b[l]
      BY <3>1, <2>6 DEF Rises
    <3>4. b[i] \in Nat /\ b[l] \in Nat
      BY <3>1, <2>6
    <3> QED BY <3>2, <3>3, <3>4, <2>7
  <2>9. l <= i
    BY <2>2, <2>8
  <2>10. \A y \in 1..l : y \in 1..k \/ y = l
    BY <2>2
  <2>11. l \in 1..n /\ l \in 1..m /\ l <= i /\ l <= j /\ l \in Nat
    BY <2>2, <2>6, <2>9
  <2> HIDE DEF l
  <2>12. a[l] \in Nat /\ b[l] \in Nat /\ a[i] \in Nat /\ b[j] \in Nat
    BY <2>11
  <2>13. b[l] <= b[j]
    <3>1. l = j \/ b[l] < b[j]
      BY <2>11 DEF Rises
    <3> QED BY <3>1, <2>12
  <2>14. a[l] <= a[i]
    <3>1. l = i \/ a[l] < a[i]
      BY <2>11 DEF Rises
    <3> QED BY <3>1, <2>12
  <2>15. a[l] = b[l]
    BY <2>4, <2>7, <2>12, <2>13, <2>14
  <2>16. l <= m /\ \A y \in 1..l : a[y] = b[y]
    <3>1. ASSUME NEW y \in 1..l PROVE a[y] = b[y]
      BY <2>3, <2>10, <2>15
    <3>2. l <= m
      BY <2>11
    <3> QED BY <3>1, <3>2
  <2> QED BY <2>16 DEF l
<1>3. \A k \in P : k + 1 \in P
  BY <1>2
<1> HIDE DEF P, Good
<1>4. P = Nat
  BY <1>1, <1>3, Induction
<1>5. Good(n)
  <2>1. n \in P /\ n <= n
    BY <1>4
  <2> QED BY <2>1 DEF P
<1> QED
  BY <1>5 DEF Good, ClimbsIn

(* Two queues have the same orders in the same sequence: r tells which.    *)
RunsAlong(r, n, u) ==
  /\ \A m \in DOMAIN u : \E j \in 1..n : u[m] = r[j].id
  /\ \A m, l \in DOMAIN u : \A j, k \in 1..n :
       m < l /\ u[m] = r[j].id /\ u[l] = r[k].id => j < k

(* Two queues with the same orders, both in the order of one list, are     *)
(* one queue.                                                              *)
LEMMA SameQueue ==
  ASSUME NEW n \in Nat, NEW r, \A j, k \in 1..n : r[j].id = r[k].id => j = k,
         NEW S, NEW u \in Seq(S), NEW v \in Seq(S), RunsAlong(r, n, u), RunsAlong(r, n, v),
         \A m \in DOMAIN u : \E l \in DOMAIN v : v[l] = u[m],
         \A m \in DOMAIN v : \E l \in DOMAIN u : u[l] = v[m]
  PROVE  u = v
<1> DEFINE A == Len(u)
           B == Len(v)
           a == [m \in 1..A |-> CHOOSE j \in 1..n : u[m] = r[j].id]
           b == [m \in 1..B |-> CHOOSE j \in 1..n : v[m] = r[j].id]
<1>1. A \in Nat /\ B \in Nat /\ DOMAIN u = 1..A /\ DOMAIN v = 1..B
  BY LenProperties
<1>2. \A m \in 1..A : a[m] \in 1..n /\ u[m] = r[a[m]].id
  <2> TAKE m \in 1..A
  <2>1. \E j \in 1..n : u[m] = r[j].id
    BY <1>1 DEF RunsAlong
  <2>2. a[m] = CHOOSE j \in 1..n : u[m] = r[j].id
    OBVIOUS
  <2> HIDE DEF a
  <2> QED BY <2>1, <2>2
<1>3. \A m \in 1..B : b[m] \in 1..n /\ v[m] = r[b[m]].id
  <2> TAKE m \in 1..B
  <2>1. \E j \in 1..n : v[m] = r[j].id
    BY <1>1 DEF RunsAlong
  <2>2. b[m] = CHOOSE j \in 1..n : v[m] = r[j].id
    OBVIOUS
  <2> HIDE DEF b
  <2> QED BY <2>1, <2>2
<1>4. a \in [1..A -> Nat] /\ b \in [1..B -> Nat]
  <2>0. \A j \in 1..n : j \in Nat
    OBVIOUS
  <2>1. \A m \in 1..A : a[m] \in Nat
    BY <2>0, <1>2, Zenon
  <2>2. \A m \in 1..B : b[m] \in Nat
    BY <2>0, <1>3, Zenon
  <2>3. DOMAIN a = 1..A /\ DOMAIN b = 1..B /\ a = [m \in 1..A |-> a[m]] /\ b = [m \in 1..B |-> b[m]]
    OBVIOUS
  <2> HIDE DEF a, b
  <2> QED BY <2>1, <2>2, <2>3
<1> HIDE DEF a, b, A, B
<1>5. Rises(a, A)
  <2> SUFFICES ASSUME NEW m \in 1..A, NEW l \in 1..A, m < l PROVE a[m] < a[l]
    BY DEF Rises
  <2>1. a[m] \in 1..n /\ u[m] = r[a[m]].id /\ a[l] \in 1..n /\ u[l] = r[a[l]].id
    BY <1>2
  <2> QED BY <2>1, <1>1 DEF RunsAlong
<1>6. Rises(b, B)
  <2> SUFFICES ASSUME NEW m \in 1..B, NEW l \in 1..B, m < l PROVE b[m] < b[l]
    BY DEF Rises
  <2>1. b[m] \in 1..n /\ v[m] = r[b[m]].id /\ b[l] \in 1..n /\ v[l] = r[b[l]].id
    BY <1>3
  <2> QED BY <2>1, <1>1 DEF RunsAlong
<1>7. Covers(b, B, a, A)
  <2> SUFFICES ASSUME NEW j \in 1..A PROVE \E k \in 1..B : b[k] = a[j]
    BY DEF Covers
  <2>1. PICK k \in 1..B : v[k] = u[j]
    BY <1>1
  <2>2. r[b[k]].id = r[a[j]].id /\ b[k] \in 1..n /\ a[j] \in 1..n
    BY <2>1, <1>2, <1>3
  <2> QED BY <2>2
<1>8. Covers(a, A, b, B)
  <2> SUFFICES ASSUME NEW k \in 1..B PROVE \E j \in 1..A : a[j] = b[k]
    BY DEF Covers
  <2>1. PICK j \in 1..A : u[j] = v[k]
    BY <1>1
  <2>2. r[b[k]].id = r[a[j]].id /\ b[k] \in 1..n /\ a[j] \in 1..n
    BY <2>1, <1>2, <1>3
  <2> QED BY <2>2
<1>9a. ClimbsIn(a, A, b, B)
  BY <1>1, <1>4, <1>5, <1>6, <1>7, <1>8, ClimbPart
<1>9. A <= B /\ \A j \in 1..A : a[j] = b[j]
  BY <1>9a DEF ClimbsIn
<1>10a. ClimbsIn(b, B, a, A)
  BY <1>1, <1>4, <1>5, <1>6, <1>7, <1>8, ClimbPart
<1>10. B <= A
  BY <1>10a DEF ClimbsIn
<1>11. A = B
  BY <1>1, <1>9, <1>10
<1>12. \A j \in 1..A : u[j] = v[j]
  <2> TAKE j \in 1..A
  <2>1. u[j] = r[a[j]].id
    BY <1>2
  <2>2. v[j] = r[b[j]].id
    BY <1>3, <1>11
  <2>3. a[j] = b[j]
    BY <1>9
  <2> QED BY <2>1, <2>2, <2>3
<1>13. u = [j \in 1..A |-> u[j]] /\ v = [j \in 1..B |-> v[j]]
  BY <1>1
<1> QED
  BY <1>11, <1>12, <1>13

(* h and g agree in all that is not counted from something else.           *)
Alike(h, g) ==
  /\ g.book.level = h.book.level /\ g.book.seq = h.book.seq /\ g.feed = h.feed
  /\ \A id \in h.book.index :
       /\ g.book.order[id] = h.book.order[id] /\ g.initial[id] = h.initial[id]
       /\ (id \in g.partly <=> id \in h.partly)

(* What is queued is what is indexed.                                      *)
LEMMA SameIndex ==
  ASSUME NEW b, Sound(b), NEW c, Sound(c), c.level = b.level
  PROVE  b.index \subseteq c.index
<1> SUFFICES ASSUME NEW x \in b.index PROVE x \in c.index
  OBVIOUS
<1> DEFINE s == b.order[x].side
           p == b.order[x].price
<1>1. x \in OrderId /\ s \in Side
  BY DEF Sound, BookType, Order
<1>2. p \in Price /\ \E i \in DOMAIN b.level[s][p] : b.level[s][p][i] = x
  BY DEF Sound, IndexedAreQueued
<1> HIDE DEF s, p
<1>3. PICK i \in DOMAIN c.level[s][p] : c.level[s][p][i] = x
  BY <1>2
<1> QED
  BY <1>1, <1>2, <1>3, Queued

(* So do they in the rest.                                                 *)
LEMMA AlikeAre ==
  ASSUME NEW i \in Instrument, NEW h, HeldOk(i, h), NEW g, HeldOk(i, g), Alike(h, g)
  PROVE  g = [h EXCEPT !.events = g.events]
<1> DEFINE b == h.book
           c == g.book
<1>1. /\ h \in HeldType /\ Sound(b) /\ Sums(b) /\ b.index \subseteq OrderId
      /\ b.used = Cardinality(b.index) /\ Lifecycles(h, {})
  BY HeldFacts
<1>2. /\ g \in HeldType /\ Sound(c) /\ Sums(c)
      /\ c.used = Cardinality(c.index) /\ Lifecycles(g, {})
  BY HeldFacts
<1>3. /\ c.level = b.level /\ c.seq = b.seq /\ g.feed = h.feed
      /\ \A id \in b.index :
           /\ c.order[id] = b.order[id] /\ g.initial[id] = h.initial[id]
           /\ (id \in g.partly <=> id \in h.partly)
  BY DEF Alike
<1>4. c.index = b.index
  <2>1. b.index \subseteq c.index
    <3>1. Sound(b) /\ Sound(c) /\ c.level = b.level
      BY <1>1, <1>2, <1>3
    <3> HIDE DEF b, c
    <3> QED BY <3>1, SameIndex
  <2>2. c.index \subseteq b.index
    <3>1. Sound(b) /\ Sound(c) /\ b.level = c.level
      BY <1>1, <1>2, <1>3
    <3> HIDE DEF b, c
    <3> QED BY <3>1, SameIndex
  <2> QED BY <2>1, <2>2
<1>5. \A id \in OrderId : /\ c.order[id] = b.order[id] /\ g.initial[id] = h.initial[id]
                          /\ (id \in g.partly <=> id \in h.partly)
  <2> TAKE id \in OrderId
  <2>1. CASE id \in b.index
    BY <2>1, <1>3
  <2>2. CASE id \notin b.index
    <3>1. h.initial[id] = 0 /\ id \notin h.partly /\ b.order[id] = Blank
      BY <2>2, <1>1 DEF Lifecycles
    <3>2. g.initial[id] = 0 /\ id \notin g.partly /\ c.order[id] = Blank
      BY <2>2, <1>2, <1>4 DEF Lifecycles
    <3> QED BY <3>1, <3>2
  <2> QED BY <2>1, <2>2
<1>6. /\ b \in BookType /\ c \in BookType
      /\ h.initial \in [OrderId -> 0..MaxQuantity] /\ g.initial \in [OrderId -> 0..MaxQuantity]
      /\ h.partly \subseteq OrderId /\ g.partly \subseteq OrderId
  BY <1>1, <1>2 DEF HeldType
<1> HIDE DEF b, c
<1>7. c.order = b.order
  BY <1>5, <1>6 DEF BookType
<1>8. g.initial = h.initial /\ g.partly = h.partly
  BY <1>5, <1>6
<1>9. c.total = b.total
  <2>1. QuantitiesOf(c) = QuantitiesOf(b)
    BY <1>7 DEF QuantitiesOf
  <2>2. \A fifo : QuantityOf(c, fifo) = QuantityOf(b, fifo)
    BY <2>1, QuantityIsAdded
  <2>3. \A s \in Side, p \in Price : c.total[s][p] = b.total[s][p]
    BY <2>2, <1>1, <1>2, <1>3 DEF Sums
  <2> QED BY <2>3, <1>6 DEF BookType
<1>10. c.best = b.best
  <2>1. ASSUME NEW s \in Side PROVE c.best[s] = b.best[s]
    <3> DEFINE S == Occupied(b, s)
               x == b.best[s]
               y == c.best[s]
    <3>1. Occupied(c, s) = S
      BY <1>3 DEF Occupied
    <3>2. IF S = {} THEN x = NoPrice ELSE x \in S /\ \A p \in S : ~Better(s, p, x)
      BY <1>1 DEF Sound, BestIsCached
    <3>3. IF S = {} THEN y = NoPrice ELSE y \in S /\ \A p \in S : ~Better(s, p, y)
      BY <1>2, <3>1 DEF Sound, BestIsCached
    <3>4. S \subseteq Int
      BY PriceAssumption DEF Occupied
    <3> HIDE DEF S, x, y
    <3>5. S # {} => x = y
      <4>1. S # {} => x \in Int /\ y \in Int /\ ~Better(s, y, x) /\ ~Better(s, x, y)
        BY <3>2, <3>3, <3>4
      <4>2. x \in Int /\ y \in Int /\ ~Better(s, y, x) /\ ~Better(s, x, y) => x = y
        BY DEF Better
      <4> QED BY <4>1, <4>2
    <3>6. x = y
      BY <3>2, <3>3, <3>5
    <3> QED BY <3>6 DEF x, y
  <2> QED BY <2>1, <1>6 DEF BookType
<1>11. c = b
  <2>1. c.used = b.used /\ c.seq = b.seq
    BY <1>1, <1>2, <1>3, <1>4
  <2>2. /\ b = [level |-> b.level, total |-> b.total, best |-> b.best, order |-> b.order,
                 index |-> b.index, used |-> b.used, seq |-> b.seq]
        /\ c = [level |-> c.level, total |-> c.total, best |-> c.best, order |-> c.order,
                 index |-> c.index, used |-> c.used, seq |-> c.seq]
    BY <1>6 DEF BookType
  <2>3. c.level = b.level
    BY <1>3
  <2> QED BY <2>1, <2>2, <2>3, <1>4, <1>7, <1>9, <1>10
<1> QED
  BY <1>1, <1>2, <1>3, <1>8, <1>11 DEF HeldType, b, c

(* The levels of a side, as write_book_snapshot writes them.               *)
LevelImages(b, s) == [n \in DOMAIN BestFirst(b, s) |-> LevelImage(b, s, BestFirst(b, s)[n])]

(* The images of a side's levels are level records.                        *)
LEMMA LevelImagesTyped ==
  ASSUME NEW b, Sound(b), IsFiniteSet(b.index), NEW s \in Side
  PROVE  LevelImages(b, s) \in Seq(LevelRecord)
<1> DEFINE f == BestFirst(b, s)
           n == Cardinality(Occupied(b, s))
           l == LevelImages(b, s)
<1>1. n \in Nat /\ f \in [1..n -> Occupied(b, s)]
  BY BestFirstIs
<1>2. ASSUME NEW k \in 1..n PROVE LevelImage(b, s, f[k]) \in LevelRecord
  <2> DEFINE p == f[k]
  <2>1. p \in Price
    BY <1>1 DEF Occupied
  <2> HIDE DEF p
  <2>2. b.total[s][p] \in Nat /\ Len(b.level[s][p]) \in Nat
    BY <2>1, WidthAssumption, LenProperties DEF Sound, BookType
  <2>3. LevelImage(b, s, p) \in LevelRecord
    BY <2>1, <2>2 DEF LevelImage, LevelRecord
  <2> QED BY <2>3 DEF p
<1>3. l = [k \in 1..n |-> LevelImage(b, s, f[k])]
  BY <1>1 DEF LevelImages
<1> HIDE DEF l, n, f
<1>4. l \in [1..n -> LevelRecord]
  BY <1>2, <1>3
<1>5. l \in Seq(LevelRecord)
  <2> DEFINE R == LevelRecord
  <2>1. l \in [1..n -> R] /\ n \in Nat
    BY <1>1, <1>4
  <2> HIDE DEF R
  <2>2. l \in Seq(R)
    BY <2>1
  <2> QED BY <2>2 DEF R
<1> QED
  BY <1>5 DEF l

(* im is the image of what h holds for i, the orders those of ids.         *)
ImageOf(i, h, im, ids) ==
  /\ ListsOf(h.book, ids, h.book.index)
  /\ im.orders = [n \in 1..Len(ids) |-> OrderImage(h, ids[n])]
  /\ im.next = h.book.seq /\ im.events = h.events /\ im.feed = h.feed

(* The image of an order is an order record.                               *)
LEMMA OrderImageTyped ==
  ASSUME NEW h \in HeldType, NEW id \in OrderId
  PROVE  OrderImage(h, id) \in OrderRecord
<1> DEFINE o == h.book.order[id]
<1>1. /\ o \in Order /\ h.initial[id] \in 0..MaxQuantity /\ (id \in h.partly) \in BOOLEAN
  BY DEF HeldType, BookType
<1> HIDE DEF o
<1>2. /\ o.side \in Side /\ o.price \in Price \cup {NoPrice} /\ o.qty \in 0..MaxQuantity
      /\ o.seq \in 0..MaxSequence
  BY <1>1 DEF Order
<1>3. OrderImage(h, id) =
        [id |-> id, side |-> o.side, price |-> o.price, qty |-> o.qty, seq |-> o.seq,
         initial |-> h.initial[id], partly |-> id \in h.partly]
  BY DEF OrderImage, o
<1> QED
  BY <1>1, <1>2, <1>3 DEF OrderRecord

(* The image of a book lists its orders by side, level and time.           *)
LEMMA BookImageIs ==
  ASSUME NEW i \in Instrument, NEW h, HeldOk(i, h), NEW im, im = BookImage(i, h)
  PROVE  /\ im \in BookRecord /\ im.instrument = i
         /\ \E ids : ImageOf(i, h, im, ids)
<1> DEFINE b == h.book
           ids == InOrder(b, "Buy") \o InOrder(b, "Sell")
           orders == [n \in DOMAIN ids |-> OrderImage(h, ids[n])]
           levels == LevelImages(b, "Buy") \o LevelImages(b, "Sell")
<1>1. /\ h \in HeldType /\ Sound(b) /\ IsFiniteSet(b.index) /\ h.events \in Nat /\ h.feed \in Nat
      /\ b.seq \in 0..MaxSequence /\ MaxOrders[i] \in Nat
  BY HeldFacts DEF Sound, BookType
<1>2. im = [instrument |-> i, maxOrders |-> MaxOrders[i], next |-> b.seq, events |-> h.events,
            feed |-> h.feed, orders |-> orders, levels |-> levels]
  BY DEF BookImage, LevelImages
<1>3. ListsOf(b, ids, b.index)
  <2> DEFINE c == b
             w == ids
  <2>1. Sound(c) /\ IsFiniteSet(c.index) /\ w = InOrder(c, "Buy") \o InOrder(c, "Sell")
    BY <1>1
  <2> HIDE DEF c, w
  <2>2. ListsOf(c, w, c.index)
    BY <2>1, AllInOrder
  <2> QED BY <2>2 DEF c, w
<1>4. levels \in Seq(LevelRecord)
  <2>1. "Buy" \in Side /\ "Sell" \in Side
    BY DEF Side
  <2> DEFINE u == LevelImages(b, "Buy")
             v == LevelImages(b, "Sell")
  <2>2. u \in Seq(LevelRecord)
    BY <1>1, <2>1, LevelImagesTyped
  <2>3. v \in Seq(LevelRecord)
    BY <1>1, <2>1, LevelImagesTyped
  <2> HIDE DEF u, v
  <2>4. u \o v \in Seq(LevelRecord)
    BY <2>2, <2>3, ConcatProperties
  <2> QED BY <2>4 DEF u, v
<1> HIDE DEF levels, ids
<1>5. /\ ids \in Seq(OrderId) /\ DOMAIN ids = 1..Len(ids) /\ Len(ids) \in Nat
      /\ \A n \in 1..Len(ids) : ids[n] \in OrderId
  <2>1. ids \in Seq(OrderId)
    BY <1>3 DEF ListsOf
  <2> QED BY <2>1, ElementOfSeq, LenProperties
<1>6. orders \in Seq(OrderRecord)
  <2> DEFINE R == OrderRecord
             n == Len(ids)
  <2>1. \A k \in 1..n : OrderImage(h, ids[k]) \in R
    BY <1>1, <1>5, OrderImageTyped
  <2>2. orders = [k \in 1..n |-> OrderImage(h, ids[k])] /\ n \in Nat
    BY <1>5
  <2> HIDE DEF R, n, orders
  <2>3. orders \in [1..n -> R]
    BY <2>1, <2>2
  <2>4. orders \in Seq(R)
    BY <2>2, <2>3
  <2> QED BY <2>4 DEF R
<1>7. orders = [n \in 1..Len(ids) |-> OrderImage(h, ids[n])]
  BY <1>5
<1> HIDE DEF orders
<1>8. ImageOf(i, h, im, ids)
  BY <1>2, <1>3, <1>7 DEF ImageOf, b
<1>9. im \in BookRecord
  BY <1>1, <1>2, <1>4, <1>6, InstrumentAssumption DEF BookRecord
<1> QED
  BY <1>2, <1>8, <1>9

(* An engine's image can be read.                                          *)
LEMMA ImageTyped ==
  ASSUME NEW e, EngineOk(e), NEW im, im = Image(e)
  PROVE  /\ im \in ImageType /\ Len(im.books) = Len(e.ids)
         /\ \A n \in DOMAIN e.ids : e.ids[n] \in Instrument /\ im.books[n] = BookImage(e.ids[n], e.held[n])
<1>1. e.ids \in Seq(Instrument) /\ \A n \in DOMAIN e.ids : HeldOk(e.ids[n], e.held[n])
  BY DEF EngineOk, Routed, EngineType
<1> DEFINE N == Len(e.ids)
<1>2. DOMAIN e.ids = 1..N /\ N \in Nat /\ \A n \in 1..N : e.ids[n] \in Instrument
  BY <1>1, LenProperties, ElementOfSeq
<1> DEFINE books == [n \in DOMAIN e.ids |-> BookImage(e.ids[n], e.held[n])]
<1>3. im = [readable |-> TRUE, books |-> books]
  BY DEF Image
<1>4. \A n \in 1..N : BookImage(e.ids[n], e.held[n]) \in BookRecord
  BY <1>1, <1>2, BookImageIs
<1>5. books = [n \in 1..N |-> BookImage(e.ids[n], e.held[n])]
  BY <1>2
<1> HIDE DEF books, N
<1>6. books \in Seq(BookRecord) /\ Len(books) = N
  <2> DEFINE R == BookRecord
  <2>1. \A n \in 1..N : BookImage(e.ids[n], e.held[n]) \in R
    BY <1>4
  <2> HIDE DEF R
  <2>2. books \in [1..N -> R]
    BY <2>1, <1>5
  <2>3. books \in Seq(R) /\ Len(books) = N
    BY <2>2, <1>2
  <2> QED BY <2>3 DEF R
<1> QED
  BY <1>2, <1>3, <1>5, <1>6 DEF ImageType, N

(* What is restored from the image of a book is that book.                 *)
LEMMA RoundTrip ==
  ASSUME NEW i \in Instrument, NEW h, HeldOk(i, h), NEW im, im = BookImage(i, h), Valid(i, im),
         NEW g, BookRestored(i, im, g)
  PROVE  g = h
<1>1. PICK ids : ImageOf(i, h, im, ids)
  BY BookImageIs
<1>2. PICK r, f, k : HoldsImage(i, im, r, f, k, g)
  BY DEF BookRestored
<1> DEFINE b == h.book
           c == k.book
           q == im.orders
           n == Len(q)
<1>3. /\ ListsOf(b, ids, b.index)
      /\ q = [a \in 1..Len(ids) |-> OrderImage(h, ids[a])]
      /\ im.next = b.seq /\ im.events = h.events /\ im.feed = h.feed
      /\ ids \in Seq(OrderId) /\ Len(ids) \in Nat
  <2>1. /\ ListsOf(b, ids, b.index)
        /\ q = [a \in 1..Len(ids) |-> OrderImage(h, ids[a])]
        /\ im.next = b.seq /\ im.events = h.events /\ im.feed = h.feed
    BY <1>1 DEF ImageOf
  <2>2. ids \in Seq(OrderId)
    BY <2>1 DEF ListsOf
  <2> QED BY <2>1, <2>2, LenProperties
<1>4. n = Len(ids)
  <2>1. Len(ids) \in Nat
    BY <1>3
  <2> DEFINE m == Len(ids)
  <2> HIDE DEF m
  <2>2. q = [a \in 1..m |-> OrderImage(h, ids[a])] /\ m \in Nat
    BY <1>3, <2>1 DEF m
  <2>3. Len(q) = m
    BY <2>2
  <2> QED BY <2>3 DEF m
<1>5. /\ ByKey(Restorable(im.next), q, r, f) /\ Restored(i, k, r, n) /\ g = Finished(k, im)
  BY <1>2 DEF HoldsImage
<1>6. n \in Nat /\ im.next \in 0..MaxSequence
  BY ValidIs
<1> HIDE DEF b, c, q, n
<1>7. /\ r \in Seq(Restorable(im.next)) /\ Len(r) = n /\ f \in [1..n -> 1..n]
      /\ \A a \in 1..n : \E j \in 1..n : f[j] = a
      /\ \A j \in 1..n : r[j] = q[f[j]]
      /\ \A j, l \in 1..n : j < l => \/ Key(r[j]) < Key(r[l])
                                     \/ Key(r[j]) = Key(r[l]) /\ f[j] < f[l]
  BY <1>5 DEF ByKey, n
<1>8. \A j \in 1..n : /\ r[j] = OrderImage(h, ids[f[j]]) /\ r[j].id = ids[f[j]]
                      /\ r[j] \in Restorable(im.next)
  <2> TAKE j \in 1..n
  <2>1. f[j] \in 1..n /\ r[j] = q[f[j]]
    BY <1>7
  <2>2. q[f[j]] = OrderImage(h, ids[f[j]])
    BY <2>1, <1>3, <1>4
  <2>3. r[j] \in Restorable(im.next)
    BY <1>7, ElementOfSeq
  <2>4. r[j].id = ids[f[j]]
    BY <2>1, <2>2 DEF OrderImage
  <2> QED BY <2>1, <2>2, <2>3, <2>4
<1>9. /\ Sound(c) /\ Contents(k, r, n) /\ InPlace(c, r, n) /\ k \in HeldType
  BY <1>5 DEF Restored, c
<1>10. Sound(b) /\ Lifecycles(h, {}) /\ b.index \subseteq OrderId /\ b \in BookType
  BY HeldFacts DEF b
<1>11. \A x \in b.index : \E j \in 1..n : x = r[j].id
  <2> TAKE x \in b.index
  <2>1. PICK a \in 1..n : ids[a] = x
    BY <1>3, <1>4 DEF ListsOf
  <2>2. PICK j \in 1..n : f[j] = a
    BY <1>7
  <2> QED BY <2>1, <2>2, <1>8
<1>12. \A j \in 1..n : r[j].id \in b.index
  <2> TAKE j \in 1..n
  <2>1. f[j] \in 1..Len(ids) /\ r[j].id = ids[f[j]]
    BY <1>4, <1>7, <1>8
  <2> QED BY <2>1, <1>3 DEF ListsOf
<1>13. c.index = b.index
  <2>1. \A x : x \in c.index <=> \E j \in 1..n : x = r[j].id
    BY <1>9 DEF Contents, c
  <2>2. \A x \in c.index : x \in b.index
    BY <2>1, <1>12
  <2>3. \A x \in b.index : x \in c.index
    BY <2>1, <1>11
  <2> QED BY <2>2, <2>3
<1>14. \A id \in b.index : /\ c.order[id] = b.order[id] /\ k.initial[id] = h.initial[id]
                           /\ (id \in k.partly <=> id \in h.partly)
  <2> TAKE id \in b.index
  <2>1. PICK j \in 1..n : id = r[j].id
    BY <1>11
  <2>2. /\ c.order[id] = NodeOf(r[j]) /\ k.initial[id] = r[j].initial
        /\ (id \in k.partly <=> r[j].partly)
    BY <2>1, <1>9 DEF Contents, c
  <2>3. r[j] = OrderImage(h, id)
    BY <2>1, <1>8
  <2> DEFINE o == b.order[id]
  <2>4. o \in Order /\ o.owner = Anonymous
    <3>1. b.order[id] \in Order
      BY <1>10 DEF BookType
    <3>2. h.book.order[id].owner = Anonymous
      BY <1>10 DEF Lifecycles, b
    <3> QED BY <3>1, <3>2 DEF b
  <2>5. r[j] = [id |-> id, side |-> o.side, price |-> o.price, qty |-> o.qty, seq |-> o.seq,
                initial |-> h.initial[id], partly |-> id \in h.partly]
    BY <2>3 DEF OrderImage, b
  <2> HIDE DEF o
  <2>6. NodeOf(r[j]) = o
    BY <2>4, <2>5 DEF NodeOf, Order
  <2>7. r[j].initial = h.initial[id]
    BY <2>5
  <2>8. r[j].partly <=> id \in h.partly
    <3> DEFINE x == r[j]
               y == id \in h.partly
    <3>1. x.partly = y
      BY <2>5
    <3> QED BY <3>1, Zenon
  <2>9. id \in k.partly <=> id \in h.partly
    BY <2>2, <2>8
  <2> QED BY <2>2, <2>6, <2>7, <2>9 DEF o
<1>15. ASSUME NEW s \in Side, NEW p \in Price PROVE c.level[s][p] = b.level[s][p]
  <2> DEFINE u == c.level[s][p]
             v == b.level[s][p]
  <2>1. /\ u \in Seq(OrderId)
        /\ \A m \in DOMAIN u : /\ u[m] \in c.index /\ u[m] \in OrderId
                               /\ c.order[u[m]].side = s /\ c.order[u[m]].price = p
    BY <1>9, Queued
  <2>2. /\ v \in Seq(OrderId)
        /\ \A m \in DOMAIN v : /\ v[m] \in b.index /\ v[m] \in OrderId
                               /\ b.order[v[m]].side = s /\ b.order[v[m]].price = p
    BY <1>10, Queued
  <2>3. \A m \in DOMAIN u : \E l \in DOMAIN v : v[l] = u[m]
    <3> TAKE m \in DOMAIN u
    <3>1. u[m] \in b.index /\ b.order[u[m]].side = s /\ b.order[u[m]].price = p
      BY <2>1, <1>13, <1>14
    <3>2. IndexedAreQueued(b)
      BY <1>10 DEF Sound
    <3> QED BY <3>1, <3>2 DEF IndexedAreQueued
  <2>4. \A m \in DOMAIN v : \E l \in DOMAIN u : u[l] = v[m]
    <3> TAKE m \in DOMAIN v
    <3>1. v[m] \in c.index /\ c.order[v[m]].side = s /\ c.order[v[m]].price = p
      BY <2>2, <1>13, <1>14
    <3>2. IndexedAreQueued(c)
      BY <1>9 DEF Sound
    <3> QED BY <3>1, <3>2 DEF IndexedAreQueued
  <2>5. RunsAlong(r, n, u)
    <3>1. \A m \in DOMAIN u : \E j \in 1..n : u[m] = r[j].id
      BY <2>1, <1>11, <1>13
    <3>2. \A m, l \in DOMAIN u : \A j, e \in 1..n :
            m < l /\ u[m] = r[j].id /\ u[l] = r[e].id => j < e
      BY <1>9 DEF InPlace
    <3> QED BY <3>1, <3>2 DEF RunsAlong
  <2>6. RunsAlong(r, n, v)
    <3>1. \A m \in DOMAIN v : \E j \in 1..n : v[m] = r[j].id
      BY <2>2, <1>11
    <3>2. ASSUME NEW m \in DOMAIN v, NEW l \in DOMAIN v, NEW j \in 1..n, NEW e \in 1..n,
                 m < l, v[m] = r[j].id, v[l] = r[e].id
          PROVE  j < e
      <4>1. f[j] \in 1..Len(ids) /\ f[e] \in 1..Len(ids) /\ f[j] \in Nat /\ f[e] \in Nat
        <5>1. f[j] \in 1..n /\ f[e] \in 1..n
          BY <1>7
        <5> QED BY <5>1, <1>4
      <4>2. ids[f[j]] = v[m] /\ ids[f[e]] = v[l]
        BY <3>2, <1>8
      <4>3. f[j] < f[e]
        <5>1. InQueueOrder(b, ids)
          BY <1>3 DEF ListsOf
        <5> QED BY <4>1, <4>2, <3>2, <5>1 DEF InQueueOrder
      <4>4. Key(r[j]) = Key(r[e]) /\ Key(r[j]) \in Nat
        <5>1. r[j] = OrderImage(h, v[m]) /\ r[e] = OrderImage(h, v[l])
          BY <4>2, <1>8
        <5>2. /\ h.book.order[v[m]].side = s /\ h.book.order[v[m]].price = p
              /\ h.book.order[v[l]].side = s /\ h.book.order[v[l]].price = p
          BY <2>2 DEF b
        <5> DEFINE x == v[m]
                   y == v[l]
                   w == r[j]
                   z == r[e]
        <5> HIDE DEF v, x, y, w, z
        <5>3. w.side = s /\ w.price = p /\ z.side = s /\ z.price = p
          BY <5>1, <5>2 DEF OrderImage, x, y, w, z
        <5>4. Key(w) = Key(z) /\ Key(w) \in Nat
          BY <5>3, KeyIs DEF Key
        <5> QED BY <5>4 DEF w, z
      <4> DEFINE x == Key(r[j])
                 y == Key(r[e])
      <4>5. e < j => y < x \/ f[e] < f[j]
        BY <1>7
      <4>6. j # e
        BY <4>1, <4>3
      <4> HIDE DEF x, y
      <4>7. x = y /\ x \in Nat
        BY <4>4 DEF x, y
      <4>8. ~(e < j)
        BY <4>1, <4>3, <4>5, <4>7
      <4> QED BY <4>6, <4>8
    <3> QED BY <3>1, <3>2 DEF RunsAlong
  <2>7. \A j, l \in 1..n : r[j].id = r[l].id => j = l
    BY <1>9 DEF Contents
  <2> HIDE DEF u, v
  <2>8. u = v
    BY <1>6, <2>1, <2>2, <2>3, <2>4, <2>5, <2>6, <2>7, SameQueue
  <2> QED BY <2>8 DEF u, v
<1>16. c.level = b.level
  <2>1. c \in BookType
    BY <1>9 DEF Sound
  <2> QED BY <2>1, <1>10, <1>15 DEF BookType
<1>17. /\ g.book = [c EXCEPT !.seq = im.next] /\ g.initial = k.initial /\ g.partly = k.partly
       /\ g.events = im.events /\ g.feed = im.feed
  BY <1>5, <1>9 DEF Finished, HeldType, c
<1>18. g.book.level = b.level /\ g.book.seq = b.seq /\ g.book.order = c.order
  <2>1. c \in BookType
    BY <1>9 DEF Sound
  <2> QED BY <2>1, <1>3, <1>16, <1>17 DEF BookType
<1>19. Alike(h, g)
  BY <1>3, <1>14, <1>17, <1>18 DEF Alike, b
<1>20. HeldOk(i, g)
  BY RestoredIsOk
<1>21. g = [h EXCEPT !.events = g.events]
  BY <1>19, <1>20, AlikeAre
<1>22. g.events = h.events
  BY <1>3, <1>17
<1>23. h \in HeldType
  BY HeldFacts
<1> QED
  BY <1>21, <1>22, <1>23 DEF HeldType

-----------------------------------------------------------------------------
(* Validation refuses all that an insertion could refuse                   *)

(* A key is that of one side and one price.                                *)
LEMMA KeyApart ==
  ASSUME NEW s \in Side, NEW p \in Price, NEW t \in Side, NEW x \in Price,
         LevelKey[s][p] = LevelKey[t][x]
  PROVE  s = t /\ p = x
<1>1. /\ p \in Int /\ x \in Int
      /\ LevelKey[s][p] \in Nat /\ LevelKey[t][x] \in Nat
      /\ LevelKey[s][x] \in Nat
  BY LevelKeyAssumption, PriceAssumption
<1>2. s \in {"Buy", "Sell"} /\ t \in {"Buy", "Sell"}
  BY DEF Side
<1>3. s = t
  <2>1. CASE s = "Buy" /\ t = "Sell"
    <3>1. LevelKey["Buy"][p] < LevelKey["Sell"][x]
      BY LevelKeyAssumption
    <3> QED BY <3>1, <2>1, <1>1
  <2>2. CASE s = "Sell" /\ t = "Buy"
    <3>1. LevelKey["Buy"][x] < LevelKey["Sell"][p]
      BY LevelKeyAssumption
    <3> QED BY <3>1, <2>2, <1>1
  <2> QED BY <1>2, <2>1, <2>2
<1>4. p = x
  <2>1. CASE p < x
    <3>1. LevelKey[s][p] < LevelKey[s][x]
      BY <2>1, LevelKeyAssumption
    <3> QED BY <3>1, <1>1, <1>3
  <2>2. CASE x < p
    <3>1. LevelKey[s][x] < LevelKey[s][p]
      BY <2>2, LevelKeyAssumption
    <3> QED BY <3>1, <1>1, <1>3
  <2> QED BY <1>1, <2>1, <2>2
<1> QED
  BY <1>3, <1>4

(* What S has of sides, prices and quantities; K has those with key N.     *)
Sided(S) == \A x \in S : x.side \in Side /\ x.price \in Price
Measured(S, g) == \A x \in S : g[x] = x.qty /\ x.qty \in Nat
Keyed(S, K, N) == \A x \in S : x \in K <=> Key(x) = N

(* Sorting leaves the orders of one key in their order.                    *)
LEMMA SameOrders ==
  ASSUME NEW S, Sided(S), NEW q \in Seq(S),
         NEW r, NEW f, ByKey(S, q, r, f), NEW N, NEW K, Keyed(S, K, N)
  PROVE  Those(r, K) = Those(q, K)
<1> DEFINE u == Those(q, K)
           v == Those(r, K)
           A == Len(u)
           B == Len(v)
           n == Len(q)
<1>1. /\ r \in Seq(S) /\ Len(r) = n /\ n \in Nat
      /\ f \in [1..n -> 1..n]
      /\ \A i \in 1..n : \E k \in 1..n : f[k] = i
      /\ \A k \in 1..n : r[k] = q[f[k]]
      /\ \A j, k \in 1..n : j < k =>
           \/ Key(r[j]) < Key(r[k])
           \/ Key(r[j]) = Key(r[k]) /\ f[j] < f[k]
  BY LenProperties DEF ByKey
<1>2. PICK a : Takes(q, u, a) /\ TakesEvery(q, u, a, K)
  BY ThosePlaces
<1>3. PICK c : Takes(r, v, c) /\ TakesEvery(r, v, c, K)
  BY <1>1, ThosePlaces
<1>4. u \in Seq(S \cap K) /\ v \in Seq(S \cap K)
  BY <1>1, ThoseTyped
<1> HIDE DEF u, v
<1>5. /\ A \in Nat /\ B \in Nat
      /\ \A k \in 1..A : u[k] \in S \cap K
      /\ \A k \in 1..B : v[k] \in S \cap K
  BY <1>4, LenProperties, ElementOfSeq
<1> HIDE DEF A, B, n
<1>6. /\ a \in [1..A -> 1..n] /\ \A k \in 1..A : u[k] = q[a[k]]
      /\ \A j, k \in 1..A : j < k => a[j] < a[k]
  BY <1>2 DEF Takes, A, n
<1>7. /\ c \in [1..B -> 1..n] /\ \A k \in 1..B : v[k] = r[c[k]]
      /\ \A j, k \in 1..B : j < k => c[j] < c[k]
  BY <1>1, <1>3 DEF Takes, B
<1> DEFINE b == [k \in 1..B |-> f[c[k]]]
<1>8. /\ a \in [1..A -> Nat] /\ b \in [1..B -> Nat]
      /\ \A k \in 1..B : b[k] = f[c[k]] /\ b[k] \in 1..n /\ v[k] = q[b[k]]
  <2>1. a \in [1..A -> Nat]
    BY <1>1, <1>6
  <2>2. ASSUME NEW k \in 1..B
        PROVE  c[k] \in 1..n /\ f[c[k]] \in 1..n /\ f[c[k]] \in Nat /\ v[k] = q[f[c[k]]]
    <3>1. c[k] \in 1..n
      BY <1>7
    <3>2. f[c[k]] \in 1..n /\ r[c[k]] = q[f[c[k]]]
      BY <3>1, <1>1
    <3>3. v[k] = r[c[k]]
      BY <1>7
    <3>4. f[c[k]] \in Nat
      BY <3>2, <1>1
    <3> QED BY <3>1, <3>2, <3>3, <3>4
  <2>3. b \in [1..B -> Nat] /\ \A k \in 1..B : b[k] = f[c[k]]
    BY <2>2
  <2> HIDE DEF b
  <2> QED BY <2>1, <2>2, <2>3
<1> HIDE DEF b
<1>9. Rises(a, A)
  BY <1>6 DEF Rises
<1>10. Rises(b, B)
  <2> SUFFICES ASSUME NEW j \in 1..B, NEW k \in 1..B, j < k PROVE b[j] < b[k]
    BY DEF Rises
  <2>1. Key(v[j]) = N /\ Key(v[k]) = N /\ v[j] \in S
    BY <1>5 DEF Keyed
  <2>2. N \in Nat
    BY <2>1, KeyIs DEF Sided
  <2>3. c[j] \in 1..n /\ c[k] \in 1..n /\ c[j] < c[k]
    BY <1>7
  <2>4. Key(r[c[j]]) = N /\ Key(r[c[k]]) = N
    BY <2>1, <1>7
  <2>5. ~(Key(r[c[j]]) < Key(r[c[k]]))
    BY <2>2, <2>4
  <2>6. f[c[j]] < f[c[k]]
    BY <2>3, <2>5, <1>1
  <2> QED BY <2>6, <1>8
<1>11. Covers(b, B, a, A)
  <2> SUFFICES ASSUME NEW j \in 1..A PROVE \E k \in 1..B : b[k] = a[j]
    BY DEF Covers
  <2>1. a[j] \in 1..n /\ q[a[j]] \in K
    BY <1>5, <1>6
  <2>2. PICK d \in 1..n : f[d] = a[j]
    BY <2>1, <1>1
  <2>3. r[d] \in K
    BY <2>1, <2>2, <1>1
  <2>4. PICK k \in 1..B : c[k] = d
    BY <2>3, <1>1, <1>3 DEF TakesEvery, B
  <2> QED BY <2>2, <2>4, <1>8
<1>12. Covers(a, A, b, B)
  <2> SUFFICES ASSUME NEW j \in 1..B PROVE \E k \in 1..A : a[k] = b[j]
    BY DEF Covers
  <2>1. b[j] \in 1..n /\ q[b[j]] \in K
    BY <1>5, <1>8
  <2> QED BY <2>1, <1>2 DEF TakesEvery, A, n
<1>13. ClimbsIn(a, A, b, B)
  BY <1>5, <1>8, <1>9, <1>10, <1>11, <1>12, ClimbPart
<1>14. ClimbsIn(b, B, a, A)
  BY <1>5, <1>8, <1>9, <1>10, <1>11, <1>12, ClimbPart
<1>15. A = B /\ \A k \in 1..A : a[k] = b[k]
  BY <1>5, <1>13, <1>14 DEF ClimbsIn
<1>16. \A k \in 1..A : u[k] = v[k]
  BY <1>6, <1>8, <1>15
<1>17. u = v
  <2> DEFINE X == S \cap K
  <2>1. u \in Seq(X) /\ v \in Seq(X) /\ Len(u) = A /\ Len(v) = A
    BY <1>4, <1>15 DEF A, B
  <2> HIDE DEF X
  <2>2. u \in [1..A -> X] /\ v \in [1..A -> X]
    BY <2>1, LenProperties
  <2>3. u = [k \in 1..A |-> u[k]] /\ v = [k \in 1..A |-> v[k]]
    BY <2>2
  <2>4. [k \in 1..A |-> u[k]] = [k \in 1..A |-> v[k]]
    BY <1>16
  <2> QED BY <2>3, <2>4
<1> QED
  BY <1>17 DEF u, v

(* The quantity of the first k orders of r with key K.                     *)
SumsAlong(a, r, n, K) ==
  /\ a \in [0..n -> Nat] /\ a[0] = 0
  /\ \A k \in 1..n : a[k] = a[k - 1] + (IF Key(r[k]) = K THEN r[k].qty ELSE 0)

(* The sums of quantities never fall.                                      *)
LEMMA SumsRise ==
  ASSUME NEW n \in Nat, NEW r, \A k \in 1..n : r[k].qty \in Nat, NEW K, NEW a, SumsAlong(a, r, n, K)
  PROVE  \A k \in 0..n : a[k] <= a[n]
<1> DEFINE P == {k \in Nat : \A j \in 0..n : j <= k /\ k <= n => a[j] <= a[k]}
<1>1. a \in [0..n -> Nat]
  BY DEF SumsAlong
<1>2. P \in SUBSET Nat /\ 0 \in P
  <2>1. \A j \in 0..n : j <= 0 => j = 0
    OBVIOUS
  <2> QED BY <1>1, <2>1
<1>3. ASSUME NEW k \in P PROVE k + 1 \in P
  <2> SUFFICES ASSUME NEW j \in 0..n, j <= k + 1, k + 1 <= n PROVE a[j] <= a[k + 1]
    OBVIOUS
  <2>1. k \in Nat /\ k \in 0..n /\ k + 1 \in 1..n /\ k + 1 \in 0..n /\ (k + 1) - 1 = k
    OBVIOUS
  <2>2. a[k + 1] = a[k] + (IF Key(r[k + 1]) = K THEN r[k + 1].qty ELSE 0) /\ r[k + 1].qty \in Nat
    BY <2>1 DEF SumsAlong
  <2>3. a[k] \in Nat /\ a[k + 1] \in Nat /\ a[j] \in Nat
    BY <2>1, <1>1
  <2>4. a[k] <= a[k + 1]
    BY <2>2, <2>3
  <2>5. CASE j <= k
    <3>1. a[j] <= a[k]
      BY <2>5, <2>1
    <3> QED BY <3>1, <2>3, <2>4
  <2>6. CASE j = k + 1
    BY <2>6, <2>3
  <2> QED BY <2>1, <2>5, <2>6
<1>4. \A k \in P : k + 1 \in P
  BY <1>3
<1> HIDE DEF P
<1>5. P = Nat
  BY <1>2, <1>4, Induction
<1>6. n \in P
  BY <1>5
<1> QED
  BY <1>6 DEF P

(* They come to what Added says of the orders of the key.                  *)
LEMMA SumsExist ==
  ASSUME NEW S, NEW r \in Seq(S), NEW N, NEW g, Measured(S, g), NEW K, Keyed(S, K, N)
  PROVE  \E a : SumsAlong(a, r, Len(r), N) /\ a[Len(r)] = Added(Those(r, K), g)
<1> DEFINE n == Len(r)
<1>0. Whole(g, S) /\ (\A x \in S : g[x] = x.qty /\ x.qty \in Nat)
      /\ (\A x \in S : x \in K <=> Key(x) = N)
  BY DEF Whole, Measured, Keyed
<1>1. n \in Nat /\ \A k \in 1..n : r[k] \in S
  BY LenProperties, ElementOfSeq
<1>2. PICK F : /\ F \in [0..Len(r) -> Seq(S)] /\ F[0] = <<>>
               /\ FiltersSteps(F, Len(r), r, K) /\ F[Len(r)] = Those(r, K)
  BY ThosePrefixes
<1>3. F \in [0..n -> Seq(S)] /\ F[0] = <<>> /\ FiltersSteps(F, n, r, K) /\ F[n] = Those(r, K)
  BY <1>2
<1> HIDE DEF n
<1> DEFINE a == [k \in 0..n |-> Added(F[k], g)]
           P == {k \in Nat : k <= n => a[k] \in Nat}
<1>4. a[0] = 0
  BY <1>1, <1>3, AddedEmpty
<1>5. \A k \in 0..n : a[k] = Added(F[k], g)
  OBVIOUS
<1> HIDE DEF a
<1>6. ASSUME NEW k \in 1..n
      PROVE  a[k] = a[k - 1] + (IF Key(r[k]) = N THEN r[k].qty ELSE 0) \/ ~(a[k - 1] \in Nat)
  <2> DEFINE s == F[k - 1]
             x == r[k]
  <2>1. k - 1 \in 0..n /\ k \in 0..n
    BY <1>1
  <2>2. s \in Seq(S) /\ x \in S
    BY <2>1, <1>1, <1>3
  <2>3. F[k] = IF x \in K THEN Append(s, x) ELSE s
    BY <1>3 DEF FiltersSteps
  <2>4. a[k - 1] = Added(s, g) /\ a[k] = Added(F[k], g)
    BY <2>1, <1>5
  <2> HIDE DEF s, x
  <2>5. g[x] = x.qty /\ (x \in K <=> Key(x) = N)
    BY <2>2, <1>0
  <2>6. CASE x \in K
    <3>1. Added(Append(s, x), g) = Added(s, g) + g[x]
      BY <1>0, <2>2, AddedAppend
    <3> QED BY <3>1, <2>3, <2>4, <2>5, <2>6 DEF x
  <2>7. CASE x \notin K
    <3>1. a[k] = a[k - 1] /\ Key(x) # N
      BY <2>3, <2>4, <2>5, <2>7
    <3> QED BY <3>1 DEF x
  <2> QED BY <2>6, <2>7
<1>7. P \in SUBSET Nat /\ 0 \in P
  BY <1>4
<1>8. ASSUME NEW k \in P PROVE k + 1 \in P
  <2> SUFFICES ASSUME k + 1 <= n PROVE a[k + 1] \in Nat
    OBVIOUS
  <2>1. k \in Nat /\ k + 1 \in 1..n /\ (k + 1) - 1 = k /\ a[k] \in Nat
    BY <1>1
  <2>2. a[k + 1] = a[k] + (IF Key(r[k + 1]) = N THEN r[k + 1].qty ELSE 0)
    BY <2>1, <1>6
  <2>3. r[k + 1].qty \in Nat
    BY <2>1, <1>0, <1>1
  <2> QED BY <2>1, <2>2, <2>3
<1>9. \A k \in P : k + 1 \in P
  BY <1>8
<1> HIDE DEF P
<1>10. P = Nat
  BY <1>7, <1>9, Induction
<1>11. \A k \in 0..n : a[k] \in Nat
  <2> TAKE k \in 0..n
  <2>1. k \in P /\ k <= n
    BY <1>10
  <2> QED BY <2>1 DEF P
<1>12. a \in [0..n -> Nat]
  BY <1>11 DEF a
<1>13. SumsAlong(a, r, n, N)
  <2> SUFFICES ASSUME NEW k \in 1..n
               PROVE  a[k] = a[k - 1] + (IF Key(r[k]) = N THEN r[k].qty ELSE 0)
    BY <1>4, <1>12 DEF SumsAlong
  <2>1. k - 1 \in 0..n
    BY <1>1
  <2> QED BY <2>1, <1>6, <1>11
<1>14. a[n] = Added(Those(r, K), g)
  BY <1>1, <1>3, <1>5
<1> QED
  BY <1>13, <1>14 DEF n

(* They are not more than a level can hold.                                *)
LevelSums(a, r, n, N) ==
  SumsAlong(a, r, n, N) /\ ((\E k \in 1..n : Key(r[k]) = N) => a[n] <= MaxQuantity)

(* At no key do a valid image's quantities ever exceed the width of a      *)
(* level's total.                                                          *)
LEMMA NoneTooWide ==
  ASSUME NEW i \in Instrument, NEW im, Valid(i, im), NEW r, NEW f,
         ByKey(Restorable(im.next), im.orders, r, f), NEW N
  PROVE  \E a : LevelSums(a, r, Len(im.orders), N)
<1> DEFINE q == im.orders
           S == Range(q)
           K == {o \in Range(im.orders) : Key(o) = N}
           g == [o \in Range(im.orders) |-> o.qty]
           n == Len(q)
           R == Restorable(im.next)
<1>1. /\ im.next \in 0..MaxSequence /\ q \in Seq(R) /\ LevelsAddUp(im)
  BY ValidIs
<1>2. QuantityAt(im, N) = Added(OrdersAt(im, N), g) /\ OrdersAt(im, N) = Those(q, K)
  BY DEF QuantityAt, OrdersAt, Added, FoldLeft, MapThenFoldSet
<1>3. \A l \in Range(im.levels) : l.qty = QuantityAt(im, Key(l)) /\ l.qty <= MaxQuantity
  BY <1>1 DEF LevelsAddUp
<1>4. {Key(l) : l \in Range(im.levels)} = {Key(o) : o \in S}
  BY <1>1 DEF LevelsAddUp
<1>5. \A o \in S : o \in R
  <2>1. DOMAIN q = 1..Len(q) /\ \A k \in 1..Len(q) : q[k] \in R
    <3> HIDE DEF q, R
    <3> QED BY <1>1, LenProperties, ElementOfSeq
  <2> HIDE DEF q, R
  <2> QED BY <2>1 DEF Range
<1>6. \A o \in S : o.side \in Side /\ o.price \in Price /\ o.qty \in Nat
  <2> TAKE o \in S
  <2>1. o \in Restorable(im.next) /\ im.next \in 0..MaxSequence
    BY <1>1, <1>5
  <2>2. o.side \in Side /\ o.price \in Price /\ o.qty \in 0..MaxQuantity
    BY <2>1, RestorableIs
  <2> QED BY <2>2, WidthAssumption
<1>7. \A o \in S : g[o] = o.qty /\ o.qty \in Nat
  BY <1>6
<1>7a. \A o \in S : o \in K <=> Key(o) = N
  OBVIOUS
<1>9. ByKey(R, q, r, f)
  OBVIOUS
<1>9a. S = Range(q)
  OBVIOUS
<1> HIDE DEF q, R, K, g, S
<1>10. n \in Nat /\ DOMAIN q = 1..n /\ \A k \in 1..n : q[k] \in S
  <2>1. n \in Nat /\ DOMAIN q = 1..n
    BY <1>1, LenProperties
  <2> QED BY <2>1, <1>9a DEF Range
<1>11. /\ r \in Seq(R) /\ Len(r) = n /\ f \in [1..n -> 1..n]
       /\ \A k \in 1..n : r[k] = q[f[k]]
  BY <1>9 DEF ByKey
<1> HIDE DEF n
<1>12. q \in Seq(S) /\ r \in Seq(S)
  <2>1. q \in [1..n -> S]
    <3>1. q = [k \in 1..n |-> q[k]]
      BY <1>1, <1>10, LenProperties
    <3> QED BY <3>1, <1>10
  <2>2. r \in [1..n -> S]
    <3>1. r = [k \in 1..n |-> r[k]]
      BY <1>11, LenProperties
    <3>2. \A k \in 1..n : r[k] \in S
      <4> TAKE k \in 1..n
      <4>1. f[k] \in 1..n /\ r[k] = q[f[k]]
        BY <1>11
      <4> QED BY <4>1, <1>10
    <3> QED BY <3>1, <3>2
  <2> QED BY <2>1, <2>2, <1>10
<1>13. ByKey(S, q, r, f)
  BY <1>9, <1>12 DEF ByKey
<1>14. Sided(S) /\ Measured(S, g) /\ Keyed(S, K, N)
  BY <1>6, <1>7, <1>7a DEF Sided, Measured, Keyed
<1>15. Those(r, K) = Those(q, K)
  BY <1>12, <1>13, <1>14, SameOrders
<1>17. PICK a : SumsAlong(a, r, Len(r), N) /\ a[Len(r)] = Added(Those(r, K), g)
  BY <1>12, <1>14, SumsExist
<1>18. ASSUME NEW k \in 1..n, Key(r[k]) = N PROVE a[n] <= MaxQuantity
  <2>1. r[k] \in S
    BY <1>10, <1>11
  <2>2. PICK l \in Range(im.levels) : Key(l) = N
    BY <2>1, <1>4, <1>18
  <2>3. l.qty = QuantityAt(im, N) /\ l.qty <= MaxQuantity
    BY <2>2, <1>3
  <2> QED BY <2>3, <1>2, <1>11, <1>15, <1>17
<1>19. LevelSums(a, r, n, N)
  BY <1>11, <1>17, <1>18 DEF LevelSums
<1> QED
  BY <1>19 DEF n, q

(* The totals of b are those of the first k orders of r.                   *)
Totals(b, A, k) == \A s \in Side, p \in Price : b.total[s][p] = A[s][p][k]
AddsUp(A, r, n) == \A s \in Side, p \in Price : LevelSums(A[s][p], r, n, LevelKey[s][p])

(* The orders r of a valid image, by key.                                  *)
InTurn(i, im, r, f, n) ==
  /\ Valid(i, im) /\ n = Len(im.orders)
  /\ ByKey(Restorable(im.next), im.orders, r, f)

(* There is a place for every order of a valid image.                      *)
LEMMA AnotherFits ==
  ASSUME NEW i \in Instrument, NEW im, NEW r, NEW f, NEW n, InTurn(i, im, r, f, n),
         NEW A, AddsUp(A, r, n), NEW k \in Nat, k < n, NEW l, l = k + 1,
         NEW h, Restored(i, h, r, k), Totals(h.book, A, k)
  PROVE  OrderCanBeTaken(i, h.book, r[l])
<1> DEFINE o == r[l]
           b == h.book
           s == o.side
           p == o.price
           N == LevelKey[s][p]
           a == A[s][p]
           top == im.next
           q == im.orders
<1>1. /\ Valid(i, im) /\ n = Len(q) /\ n \in Nat /\ n <= MaxOrders[i] /\ MaxOrders[i] \in Nat
      /\ top \in 0..MaxSequence /\ NothingTwice(im) /\ ByKey(Restorable(top), q, r, f)
      /\ q \in Seq(Restorable(top))
  BY ValidIs, InstrumentAssumption DEF InTurn
<1>2. l \in 1..n /\ l - 1 = k /\ k \in 0..n /\ l \in 0..n
  BY <1>1
<1>3. /\ r \in Seq(Restorable(top)) /\ Len(r) = n
      /\ f \in [1..n -> 1..n] /\ \A j, m \in 1..n : f[j] = f[m] => j = m
      /\ \A j \in 1..n : r[j] = q[f[j]]
  BY <1>1 DEF ByKey
<1>4. o \in Restorable(top)
  <2>1. l \in 1..Len(r)
    BY <1>2, <1>3
  <2> QED BY <1>3, <2>1, ElementOfSeq
<1>5. s \in Side /\ p \in Price /\ o.qty \in 0..MaxQuantity /\ Key(o) = N
  BY <1>1, <1>4, RestorableIs DEF Key
<1>6. /\ Contents(h, r, k) /\ b.used = k /\ Cardinality(b.index) = k
  BY DEF Restored
<1>7. o.id \notin b.index
  <2> SUFFICES ASSUME o.id \in b.index PROVE FALSE
    OBVIOUS
  <2>1. PICK j \in 1..k : o.id = r[j].id
    BY <1>6 DEF Contents
  <2>2. j \in 1..n /\ j # l
    BY <1>1
  <2>3. f[j] \in 1..n /\ f[l] \in 1..n /\ f[j] # f[l] /\ q[f[j]].id = q[f[l]].id
    BY <1>2, <1>3, <2>1, <2>2
  <2>4. DOMAIN q = 1..n
    BY <1>1, LenProperties
  <2> QED BY <2>3, <2>4, <1>1 DEF NothingTwice
<1>8. LevelSums(a, r, n, N)
  BY <1>5 DEF AddsUp
<1>9. /\ SumsAlong(a, r, n, N)
      /\ (\E j \in 1..n : Key(r[j]) = N) => a[n] <= MaxQuantity
  BY <1>8 DEF LevelSums
<1>10. \A j \in 1..n : r[j].qty \in Nat
  <2> TAKE j \in 1..n
  <2>1. r[j] \in Restorable(top)
    <3>1. j \in 1..Len(r)
      BY <1>3
    <3> QED BY <1>3, <3>1, ElementOfSeq
  <2>2. r[j].qty \in 0..MaxQuantity
    BY <1>1, <2>1, RestorableIs
  <2> QED BY <2>2, WidthAssumption
<1>11. b.total[s][p] = a[k]
  BY <1>5 DEF Totals
<1> HIDE DEF a, N, b, s, p
<1>12. \A j \in 0..n : a[j] <= a[n]
  BY <1>1, <1>9, <1>10, SumsRise
<1>13. a[l] = a[k] + o.qty /\ a[k] \in Nat /\ a[l] \in Nat /\ a[n] \in Nat
  <2>1. a[l] = a[l - 1] + (IF Key(r[l]) = N THEN r[l].qty ELSE 0)
    BY <1>2, <1>9 DEF SumsAlong
  <2>2. a \in [0..n -> Nat]
    BY <1>9 DEF SumsAlong
  <2>3. a[l - 1] = a[k] /\ Key(r[l]) = N /\ n \in 0..n
    BY <1>1, <1>2, <1>5
  <2> QED BY <2>1, <2>2, <2>3, <1>2
<1>14. a[n] <= MaxQuantity
  BY <1>2, <1>5, <1>9
<1>15. o.qty <= MaxQuantity - a[k]
  <2>1. a[l] <= a[n]
    BY <1>2, <1>12
  <2>2. MaxQuantity \in Nat /\ o.qty \in Nat
    BY <1>5, WidthAssumption
  <2> QED BY <2>1, <2>2, <1>13, <1>14
<1>16. Takeable(b, o)
  BY <1>7, <1>11, <1>15 DEF Takeable, s, p
<1>17. b.used # MaxOrders[i]
  BY <1>1, <1>6
<1> QED
  BY <1>16, <1>17 DEF OrderCanBeTaken, b

(* The totals with it.                                                     *)
LEMMA TotalsGrow ==
  ASSUME NEW A, NEW r, NEW n \in Nat, AddsUp(A, r, n), NEW k \in Nat, k < n, NEW l, l = k + 1,
         NEW b, Totals(b, A, k), NEW top \in 0..MaxSequence, r[l] \in Restorable(top),
         NEW c, TakesOrder(b, c, r[l])
  PROVE  Totals(c, A, l)
<1> DEFINE o == r[l]
<1>1. l \in 1..n /\ l - 1 = k /\ k \in 0..n /\ l \in 0..n
  OBVIOUS
<1>2. o.side \in Side /\ o.price \in Price
  BY RestorableIs
<1> SUFFICES ASSUME NEW s \in Side, NEW p \in Price PROVE c.total[s][p] = A[s][p][l]
  BY DEF Totals
<1> DEFINE a == A[s][p]
           N == LevelKey[s][p]
<1>3. SumsAlong(a, r, n, N)
  BY DEF AddsUp, LevelSums
<1>4. a[l] = a[k] + (IF Key(o) = N THEN o.qty ELSE 0) /\ a[k] \in Nat
  <2> HIDE DEF a, N
  <2>1. a \in [0..n -> Nat] /\ a[l] = a[l - 1] + (IF Key(r[l]) = N THEN r[l].qty ELSE 0)
    BY <1>1, <1>3 DEF SumsAlong
  <2> QED BY <1>1, <2>1
<1>5. b.total[s][p] = a[k]
  BY DEF Totals
<1>6. CASE s = o.side /\ p = o.price
  <2>1. Key(o) = N
    BY <1>6 DEF Key
  <2>2. c.total[s][p] = b.total[s][p] + o.qty
    BY <1>6 DEF TakesOrder
  <2> QED BY <2>1, <2>2, <1>4, <1>5
<1>7. CASE ~(s = o.side /\ p = o.price)
  <2>1. Key(o) # N
    BY <1>2, <1>7, KeyApart DEF Key
  <2>2. c.total[s][p] = b.total[s][p]
    BY <1>7 DEF TakesOrder, SameElsewhere
  <2> QED BY <2>1, <2>2, <1>4, <1>5
<1> QED
  BY <1>6, <1>7

(* Restoring a valid image takes every order of it.                        *)
LEMMA AllAreTaken ==
  ASSUME NEW i \in Instrument, NEW im, NEW r, NEW f, NEW n, InTurn(i, im, r, f, n),
         NEW F, RestoringTo(i, r, n, F)
  PROVE  F[n].status = "Accepted"
<1> DEFINE A == [s \in Side |-> [p \in Price |-> CHOOSE a : LevelSums(a, r, n, LevelKey[s][p])]]
           top == im.next
<1>1. /\ Valid(i, im) /\ n = Len(im.orders) /\ n \in Nat /\ top \in 0..MaxSequence
      /\ ByKey(Restorable(top), im.orders, r, f)
  BY ValidIs DEF InTurn
<1>2. AddsUp(A, r, n)
  <2> SUFFICES ASSUME NEW s \in Side, NEW p \in Price
               PROVE  LevelSums(CHOOSE a : LevelSums(a, r, n, LevelKey[s][p]), r, n, LevelKey[s][p])
    BY DEF AddsUp
  <2> DEFINE N == LevelKey[s][p]
  <2> HIDE DEF N
  <2>1. \E a : LevelSums(a, r, Len(im.orders), N)
    BY <1>1, NoneTooWide
  <2>2. \E a : LevelSums(a, r, n, N)
    BY <1>1, <2>1
  <2>3. LevelSums(CHOOSE a : LevelSums(a, r, n, N), r, n, N)
    BY <2>2
  <2> QED BY <2>3 DEF N
<1> HIDE DEF A
<1>3. \A k \in 1..n : r[k] \in Restorable(top)
  <2> TAKE k \in 1..n
  <2>1. r \in Seq(Restorable(top)) /\ Len(r) = n
    BY <1>1 DEF ByKey
  <2> QED BY <2>1, ElementOfSeq
<1>4. /\ F \in [0..n -> RestoreType] /\ RestoresSteps(F, n, r, i)
      /\ F[0] = [held |-> EmptyHeld, status |-> "Accepted"]
  BY DEF RestoringTo
<1>5. \A k \in 0..n : F[k].status = "Accepted" => Restored(i, F[k].held, r, k)
  BY <1>1, <1>3, RestoreSteps
<1> DEFINE Done(k) == F[k].status = "Accepted" /\ Totals(F[k].held.book, A, k)
           P == {k \in Nat : k <= n => Done(k)}
<1>6. Done(0)
  <2>1. F[0].status = "Accepted" /\ F[0].held = EmptyHeld /\ EmptyHeld.book = EmptyBook
    BY <1>4 DEF EmptyHeld
  <2>2. ASSUME NEW s \in Side, NEW p \in Price PROVE EmptyBook.total[s][p] = A[s][p][0]
    <3>1. A[s][p][0] = 0
      BY <1>2 DEF AddsUp, LevelSums, SumsAlong
    <3> QED BY <3>1 DEF EmptyBook
  <2> QED BY <2>1, <2>2 DEF Totals
<1>7. ASSUME NEW k \in P PROVE k + 1 \in P
  <2> SUFFICES ASSUME k + 1 <= n PROVE Done(k + 1)
    OBVIOUS
  <2> DEFINE l == k + 1
             h == F[k].held
             o == r[l]
             x == RestoreOrder(i, h, o)
  <2>1. k \in Nat /\ k < n /\ k <= n /\ l \in 1..n /\ l - 1 = k /\ k \in 0..n
    BY <1>1
  <2>2. F[k].status = "Accepted" /\ Totals(h.book, A, k)
    BY <2>1
  <2>3. Restored(i, h, r, k)
    BY <2>1, <2>2, <1>5
  <2>4. F[l] = x
    <3>1. F[l] = IF F[l - 1].status = "Accepted" THEN RestoreOrder(i, F[l - 1].held, r[l]) ELSE F[l - 1]
      BY <1>4, <2>1 DEF RestoresSteps
    <3> QED BY <3>1, <2>1, <2>2
  <2>5. h \in HeldType /\ Sound(h.book) /\ Sums(h.book) /\ o \in Restorable(top)
        /\ x = RestoreOrder(i, h, o) /\ l = k + 1
    BY <2>1, <2>3, <1>3 DEF Restored
  <2> HIDE DEF h, x, l
  <2>6. OrderCanBeTaken(i, h.book, r[l])
    BY <1>2, <2>1, <2>2, <2>3, <2>5, AnotherFits
  <2> HIDE DEF o
  <2>7. IF OrderCanBeTaken(i, h.book, o) THEN OrderTaken(i, h, o, x) ELSE OrderRefused(h, x)
    BY <1>1, <2>5, RestoreOrderIs
  <2>8. OrderCanBeTaken(i, h.book, o)
    BY <2>6 DEF o
  <2>9. x.status = "Accepted" /\ x.held = Placed(h, o) /\ Takeable(h.book, o)
    BY <2>7, <2>8 DEF OrderTaken, OrderCanBeTaken
  <2> DEFINE g == x.held
             b == h.book
             c == g.book
  <2>10. g = Placed(h, o)
    BY <2>9
  <2> HIDE DEF g
  <2>11. TakesOrder(h.book, g.book, o)
    BY <1>1, <2>5, <2>9, <2>10, PlacedIs
  <2>12. TakesOrder(b, c, r[l]) /\ Totals(b, A, k) /\ r[l] \in Restorable(top)
    BY <2>2, <2>5, <2>11 DEF o
  <2> HIDE DEF b, c
  <2>13. Totals(c, A, l)
    BY <1>1, <1>2, <2>1, <2>5, <2>12, TotalsGrow
  <2> QED BY <2>4, <2>9, <2>13 DEF l, c, g
<1>8. P \in SUBSET Nat /\ 0 \in P
  BY <1>6
<1>9. \A k \in P : k + 1 \in P
  BY <1>7
<1> HIDE DEF P, Done
<1>10. P = Nat
  BY <1>8, <1>9, Induction
<1>11. Done(n)
  <2>1. n \in P /\ n <= n
    BY <1>1, <1>10
  <2> QED BY <2>1 DEF P
<1> QED
  BY <1>11 DEF Done

(* So its book is restored.                                                *)
LEMMA BookAccepted ==
  ASSUME NEW i \in Instrument, NEW im, Valid(i, im)
  PROVE  RestoreBook(i, im).status = "Accepted"
<1> DEFINE n == Len(im.orders)
           x == RestoreBook(i, im)
<1>1. PICK r, f, F : /\ LoopsTo(i, im, r, f, F)
                     /\ x = IF F[n].status = "Accepted"
                            THEN [F[n] EXCEPT !.held = Finished(@, im)]
                            ELSE [F[n] EXCEPT !.held = EmptyHeld]
  BY RestoreLoop
<1>2. InTurn(i, im, r, f, n) /\ RestoringTo(i, r, n, F)
  BY <1>1 DEF LoopsTo, InTurn
<1>3. n \in Nat
  BY ValidIs
<1> HIDE DEF n, x
<1>4. F[n].status = "Accepted"
  BY <1>2, AllAreTaken
<1>5. F[n] \in RestoreType
  BY <1>2, <1>3 DEF RestoringTo
<1>6. F[n] = [held |-> F[n].held, status |-> F[n].status]
  BY <1>5 DEF RestoreType
<1>7. x.status = "Accepted"
  BY <1>1, <1>4, <1>6
<1> QED
  BY <1>7 DEF x

(* A valid image of an engine is restored whole.                           *)
LEMMA BooksAccepted ==
  ASSUME NEW e, EngineOk(e), NEW im, ValidImage(e, im)
  PROVE  RestoreBooks(e, im).status = "Accepted"
<1> DEFINE n == Len(e.ids)
           q == [m \in DOMAIN e.ids |-> m]
           x == RestoreBooks(e, im)
<1>1. n \in Nat /\ DOMAIN e.ids = 1..n
  <2>1. e.ids \in Seq(Instrument)
    BY DEF EngineOk, Routed, EngineType
  <2> QED BY <2>1, LenProperties
<1>2. PICK F : BooksTo(e, im, F) /\ x = F[n]
  BY RestoreBooksLoop
<1>3. F[0] = [engine |-> e, status |-> "Accepted"] /\ BooksSteps(F, n, q, e, im)
  BY <1>2 DEF BooksTo
<1>4. \A k \in 1..n : q[k] = k
  BY <1>1
<1> HIDE DEF n, q, x
<1> DEFINE Done(k) == F[k].status = "Accepted"
           P == {k \in Nat : k <= n => Done(k)}
<1>5. Done(0)
  BY <1>3
<1>6. ASSUME NEW k \in P PROVE k + 1 \in P
  <2> SUFFICES ASSUME k + 1 <= n PROVE Done(k + 1)
    OBVIOUS
  <2> DEFINE l == k + 1
             r == RestoreBook(e.ids[l], im.books[l])
  <2>1. k \in Nat /\ k <= n /\ l \in 1..n /\ l - 1 = k /\ q[l] = l
    BY <1>1, <1>4
  <2>2. F[k].status = "Accepted"
    BY <2>1
  <2>3. e.ids[l] \in Instrument /\ Valid(e.ids[l], im.books[l])
    BY <1>1, <2>1 DEF ValidImage
  <2>4. r.status = "Accepted"
    <3> DEFINE i == e.ids[l]
               b == im.books[l]
    <3>1. i \in Instrument /\ Valid(i, b)
      BY <2>3
    <3> HIDE DEF i, b
    <3>2. RestoreBook(i, b).status = "Accepted"
      BY <3>1, BookAccepted
    <3> QED BY <3>2 DEF i, b
  <2>5. F[l] = IF F[l - 1].status # "Accepted" THEN F[l - 1]
               ELSE [engine |-> [F[l - 1].engine EXCEPT
                                   !.held[q[l]] = RestoreBook(e.ids[q[l]], im.books[q[l]]).held],
                     status |-> RestoreBook(e.ids[q[l]], im.books[q[l]]).status]
    BY <1>3, <2>1 DEF BooksSteps
  <2>6. F[l].status = r.status
    BY <2>1, <2>2, <2>5
  <2> QED BY <2>4, <2>6
<1>7. P \in SUBSET Nat /\ 0 \in P
  BY <1>5
<1>8. \A k \in P : k + 1 \in P
  BY <1>6
<1> HIDE DEF P, Done
<1>9. P = Nat
  BY <1>7, <1>8, Induction
<1>10. Done(n)
  <2>1. n \in P /\ n <= n
    BY <1>1, <1>9
  <2> QED BY <2>1 DEF P
<1>11. x.status = "Accepted"
  BY <1>2, <1>10 DEF Done
<1> QED
  BY <1>11 DEF x

(* A restore that is refused changes nothing.                              *)
LEMMA RefusedChangesNothing ==
  ASSUME NEW e, EngineOk(e), NEW im \in ImageType, NEW x, x = Restore(e, im),
         x.status # "Accepted"
  PROVE  x.engine = e
<1>1. CASE ImageStatus(e, im) = "Accepted"
  <2>1. ValidImage(e, im) /\ x = RestoreBooks(e, im)
    BY <1>1, StatusIs DEF Restore
  <2>2. RestoreBooks(e, im).status = "Accepted"
    BY <2>1, BooksAccepted
  <2> QED BY <2>1, <2>2
<1>2. CASE ImageStatus(e, im) # "Accepted"
  <2>1. x = [engine |-> e, status |-> ImageStatus(e, im)]
    BY <1>2 DEF Restore
  <2> QED BY <2>1
<1> QED
  BY <1>1, <1>2

-----------------------------------------------------------------------------
(* Validation refuses nothing that serialize wrote                         *)

(* q are the orders of what h holds, those of ids one after another.       *)
Written(h, q, ids, n) ==
  /\ n \in Nat /\ q \in Seq(OrderRecord) /\ Len(q) = n
  /\ ids \in Seq(OrderId) /\ Len(ids) = n
  /\ \A a \in 1..n : ids[a] \in h.book.index /\ q[a] = OrderImage(h, ids[a])
  /\ \A a, d \in 1..n : ids[a] = ids[d] => a = d
  /\ \A x \in h.book.index : \E a \in 1..n : ids[a] = x
  /\ InQueueOrder(h.book, ids)

(* So are the orders of a book's image.                                    *)
LEMMA OrdersAreWritten ==
  ASSUME NEW i \in Instrument, NEW h, HeldOk(i, h), NEW im, im = BookImage(i, h)
  PROVE  \E ids : Written(h, im.orders, ids, Len(im.orders))
<1>1. im \in BookRecord
  BY BookImageIs
<1>2. PICK ids : ImageOf(i, h, im, ids)
  BY BookImageIs
<1> DEFINE q == im.orders
           m == Len(ids)
<1>3. q \in Seq(OrderRecord)
  BY <1>1 DEF BookRecord
<1>4. ListsOf(h.book, ids, h.book.index) /\ q = [a \in 1..m |-> OrderImage(h, ids[a])]
  BY <1>2 DEF ImageOf
<1>5. ids \in Seq(OrderId)
  BY <1>4 DEF ListsOf
<1>6. m \in Nat
  BY <1>5, LenProperties
<1>7. /\ NoneTwice(ids) /\ InQueueOrder(h.book, ids)
      /\ \A a \in 1..m : ids[a] \in h.book.index
      /\ \A x \in h.book.index : \E a \in 1..m : ids[a] = x
  BY <1>4 DEF ListsOf
<1>8. \A a, d \in 1..m : ids[a] = ids[d] => a = d
  BY <1>7 DEF NoneTwice
<1>9. m = Len(ids)
  OBVIOUS
<1> HIDE DEF q, m
<1>10. Len(q) = m /\ \A a \in 1..m : q[a] = OrderImage(h, ids[a])
  BY <1>4, <1>6
<1>11. Written(h, q, ids, m)
  BY <1>3, <1>5, <1>6, <1>7, <1>8, <1>9, <1>10 DEF Written
<1> QED
  BY <1>10, <1>11 DEF q

(* What is written of an order.                                            *)
Tells(h, id, o) ==
  /\ o.id = id /\ id \in OrderId
  /\ o.side = h.book.order[id].side /\ o.side \in Side
  /\ o.price = h.book.order[id].price /\ o.price \in Price
  /\ o.qty = h.book.order[id].qty /\ o.qty \in 1..o.initial /\ o.initial \in 0..MaxQuantity
  /\ o.partly => o.qty < o.initial
  /\ o.seq = h.book.order[id].seq /\ o.seq \in 1..h.book.seq /\ h.book.seq \in 0..MaxSequence

(* The image of an order tells what the book has of it.                    *)
LEMMA OrderTells ==
  ASSUME NEW i \in Instrument, NEW h, HeldOk(i, h), NEW id \in h.book.index,
         NEW o, o = OrderImage(h, id)
  PROVE  Tells(h, id, o)
<1> DEFINE b == h.book
           x == b.order[id]
<1>1. Sound(b) /\ Sequenced(b) /\ Lifecycles(h, {}) /\ h.initial \in [OrderId -> 0..MaxQuantity]
  BY HeldFacts
<1>2. id \in OrderId /\ x.side \in Side /\ x.price \in Price /\ b.seq \in 0..MaxSequence
  <2>1. b.seq \in 0..MaxSequence
    BY <1>1 DEF Sound, BookType
  <2>2. id \in b.index
    OBVIOUS
  <2> HIDE DEF b
  <2> QED BY <1>1, <2>1, <2>2, OrderPlace
<1>3. x.seq \in 1..b.seq
  BY <1>1 DEF Sequenced, Numbered
<1>4. x.qty \in 1..h.initial[id] /\ (id \in h.partly => x.qty < h.initial[id])
  BY <1>1 DEF Lifecycles
<1>5. o = [id |-> id, side |-> x.side, price |-> x.price, qty |-> x.qty, seq |-> x.seq,
           initial |-> h.initial[id], partly |-> id \in h.partly]
  BY DEF OrderImage
<1>6. h.initial[id] \in 0..MaxQuantity
  BY <1>1, <1>2
<1> DEFINE z == id \in h.partly
<1>7. o.partly = z /\ o.initial = h.initial[id]
  BY <1>5
<1> HIDE DEF b, x, z
<1>8. /\ o.id = id /\ o.side = x.side /\ o.price = x.price /\ o.qty = x.qty /\ o.seq = x.seq
  BY <1>5
<1>9. o.partly => x.qty < h.initial[id]
  BY <1>4, <1>7 DEF z
<1> QED
  BY <1>2, <1>3, <1>4, <1>6, <1>7, <1>8, <1>9 DEF Tells, b, x

(* Every order, one by one, and any two.                                   *)
LEMMA AllTell ==
  ASSUME NEW i \in Instrument, NEW h, HeldOk(i, h), NEW q, NEW ids, NEW n, Written(h, q, ids, n)
  PROVE  \A a \in 1..n : Tells(h, ids[a], q[a])
<1> TAKE a \in 1..n
<1> DEFINE id == ids[a]
           o == q[a]
<1>1. id \in h.book.index /\ o = OrderImage(h, id)
  BY DEF Written
<1> HIDE DEF id, o
<1>2. Tells(h, id, o)
  BY <1>1, OrderTells
<1> QED
  BY <1>2 DEF id, o

(* There are no more of them than the pool has slots.                      *)
LEMMA OrdersFit ==
  ASSUME NEW i \in Instrument, NEW h, HeldOk(i, h), NEW q, NEW ids, NEW n, Written(h, q, ids, n)
  PROVE  n <= MaxOrders[i]
<1> DEFINE S == 1..n
           T == h.book.index
           f == [a \in 1..n |-> ids[a]]
<1>1. /\ IsFiniteSet(T) /\ h.book.used = Cardinality(T) /\ h.book.used <= MaxOrders[i]
      /\ h.book.used \in Nat /\ MaxOrders[i] \in Nat
  BY HeldFacts
<1>2. n \in Nat /\ (\A a \in 1..n : ids[a] \in T) /\ \A a, d \in 1..n : ids[a] = ids[d] => a = d
  BY DEF Written
<1>3. f \in Injection(S, T)
  BY <1>2 DEF Injection, IsInjective
<1>4. Cardinality(S) = n
  BY <1>2, FS_Interval
<1> HIDE DEF S, T, f
<1>5. Cardinality(S) <= Cardinality(T)
  BY <1>1, <1>3, FS_Injection
<1> QED
  BY <1>1, <1>2, <1>4, <1>5

(* Where an order rests is a level.                                        *)
LEMMA RestsSomewhere ==
  ASSUME NEW b, Sound(b), NEW x \in b.index, NEW s, s = b.order[x].side,
         NEW p, p = b.order[x].price
  PROVE  p \in Occupied(b, s)
<1>1. p \in Price /\ \E k \in DOMAIN b.level[s][p] : TRUE
  BY DEF Sound, IndexedAreQueued
<1> QED
  BY <1>1 DEF Occupied

(* Each order is sound, bids are below asks, and nothing is there twice.   *)
LEMMA OrdersAreSound ==
  ASSUME NEW i \in Instrument, NEW h, HeldOk(i, h), NEW im, im.next = h.book.seq,
         NEW ids, NEW n, Written(h, im.orders, ids, n)
  PROVE  /\ \A o \in Range(im.orders) : OrderIsSound(im, o)
         /\ ImageUncrossed(im) /\ NothingTwice(im)
<1> DEFINE q == im.orders
           b == h.book
<1>1. \A a \in 1..n : Tells(h, ids[a], q[a])
  BY AllTell
<1>2. n \in Nat /\ DOMAIN q = 1..n /\ \A a \in 1..n : ids[a] \in b.index
  BY LenProperties DEF Written
<1>3. \A a, d \in 1..n : ids[a] = ids[d] => a = d
  BY DEF Written
<1>4. Sound(b) /\ Uncrossed(b) /\ Apart(b)
  BY HeldFacts DEF Sequenced
<1> HIDE DEF q
<1>5. \A o \in Range(q) : \E a \in 1..n : o = q[a]
  BY <1>2 DEF Range
<1>6. ASSUME NEW o \in Range(q) PROVE OrderIsSound(im, o)
  <2>1. PICK a \in 1..n : o = q[a]
    BY <1>5
  <2>2. Tells(h, ids[a], o)
    BY <1>1, <2>1
  <2>3. /\ o.id \in OrderId /\ o.side \in Side /\ o.price \in Price
        /\ o.qty \in 1..o.initial /\ o.initial \in 0..MaxQuantity
        /\ (o.partly => o.qty < o.initial) /\ o.seq \in 1..im.next /\ im.next \in 0..MaxSequence
    BY <2>2 DEF Tells
  <2>4. o.id # InvalidId
    BY <2>3, InvalidIdAssumption
  <2>5. o.qty # 0 /\ o.initial >= o.qty /\ (o.partly => o.initial # o.qty)
    <3>1. MaxQuantity \in Nat
      BY WidthAssumption
    <3> QED BY <2>3, <3>1
  <2>6. o.seq # 0 /\ o.seq <= im.next
    <3>1. MaxSequence \in Nat
      BY WidthAssumption
    <3> QED BY <2>3, <3>1
  <2> QED BY <2>3, <2>4, <2>5, <2>6 DEF OrderIsSound
<1>7. ImageUncrossed(im)
  <2> SUFFICES ASSUME NEW x \in Sides(im, "Buy"), NEW y \in Sides(im, "Sell") PROVE x.price < y.price
    BY DEF ImageUncrossed
  <2>1. x \in Range(q) /\ x.side = "Buy" /\ y \in Range(q) /\ y.side = "Sell"
    BY DEF Sides, q
  <2>2. PICK a \in 1..n : x = q[a]
    BY <2>1, <1>5
  <2>3. PICK d \in 1..n : y = q[d]
    BY <2>1, <1>5
  <2>4. Tells(h, ids[a], x) /\ ids[a] \in b.index
    BY <1>1, <1>2, <2>2
  <2>5. Tells(h, ids[d], y) /\ ids[d] \in b.index
    BY <1>1, <1>2, <2>3
  <2>6. b.order[ids[a]].side = "Buy" /\ b.order[ids[a]].price = x.price /\ x.price \in Price
    BY <2>1, <2>4 DEF Tells
  <2>7. b.order[ids[d]].side = "Sell" /\ b.order[ids[d]].price = y.price /\ y.price \in Price
    BY <2>1, <2>5 DEF Tells
  <2>8. x.price \in Occupied(b, "Buy") /\ y.price \in Occupied(b, "Sell")
    BY <1>4, <2>4, <2>5, <2>6, <2>7, RestsSomewhere
  <2> QED BY <2>8, <1>4 DEF Uncrossed
<1>8. NothingTwice(im)
  <2> SUFFICES ASSUME NEW a \in 1..n, NEW d \in 1..n, a # d
               PROVE  /\ q[a].id # q[d].id
                      /\ q[a].seq = q[d].seq => q[d].seq = MaxSequence
    BY <1>2 DEF NothingTwice, q
  <2>1. ids[a] # ids[d] /\ ids[a] \in b.index /\ ids[d] \in b.index
    BY <1>2, <1>3
  <2>2. /\ q[a].id = ids[a] /\ q[a].seq = b.order[ids[a]].seq
        /\ q[d].id = ids[d] /\ q[d].seq = b.order[ids[d]].seq
    BY <1>1 DEF Tells
  <2>3. b.order[ids[a]].seq = b.order[ids[d]].seq => b.order[ids[a]].seq = MaxSequence
    BY <1>4, <2>1 DEF Apart
  <2> QED BY <2>1, <2>2, <2>3
<1> QED
  BY <1>6, <1>7, <1>8 DEF q

(* The key of what is written of an order.                                 *)
LEMMA WrittenKey ==
  ASSUME NEW h, NEW id, NEW o, Tells(h, id, o), NEW s \in Side, NEW p \in Price
  PROVE  Key(o) = LevelKey[s][p] <=> h.book.order[id].side = s /\ h.book.order[id].price = p
<1>1. /\ o.side \in Side /\ o.price \in Price
      /\ o.side = h.book.order[id].side /\ o.price = h.book.order[id].price
  BY DEF Tells
<1>2. Key(o) = LevelKey[o.side][o.price]
  BY DEF Key
<1>3. ASSUME Key(o) = LevelKey[s][p] PROVE o.side = s /\ o.price = p
  <2> DEFINE t == o.side
             x == o.price
  <2>1. t \in Side /\ x \in Price /\ LevelKey[s][p] = LevelKey[t][x]
    BY <1>1, <1>2, <1>3
  <2> HIDE DEF t, x
  <2>2. s = t /\ p = x
    BY <2>1, KeyApart
  <2> QED BY <2>2 DEF t, x
<1> QED
  BY <1>1, <1>2, <1>3

(* Sorted by level, the orders are in sequence within each.                *)
LEMMA OrdersInSequence ==
  ASSUME NEW i \in Instrument, NEW h, HeldOk(i, h), NEW im,
         NEW ids, NEW n, Written(h, im.orders, ids, n)
  PROVE  QueuesInSequence(im)
<1> DEFINE q == im.orders
           b == h.book
           r == Sorted(q)
           S == {o \in OrderRecord : o.price \in Price}
<1>1. \A a \in 1..n : Tells(h, ids[a], q[a])
  BY AllTell
<1>2. /\ n \in Nat /\ q \in Seq(OrderRecord) /\ Len(q) = n /\ Len(ids) = n
      /\ \A a \in 1..n : ids[a] \in b.index
      /\ \A a, d \in 1..n : ids[a] = ids[d] => a = d
      /\ InQueueOrder(b, ids)
  BY DEF Written
<1>3. q \in Seq(S)
  <2>1. \A a \in 1..n : q[a] \in OrderRecord /\ q[a].price \in Price
    <3> TAKE a \in 1..n
    <3>1. Tells(h, ids[a], q[a])
      BY <1>1
    <3> HIDE DEF q
    <3> QED BY <3>1, <1>2, ElementOfSeq DEF Tells
  <2> HIDE DEF q
  <2>2. q \in [1..n -> OrderRecord]
    BY <1>2
  <2>3. q \in [1..n -> S]
    BY <2>1, <2>2
  <2> HIDE DEF S
  <2> QED BY <2>3, <1>2
<1>4. \A x \in S : x.side \in Side /\ x.price \in Price
  BY DEF OrderRecord
<1> HIDE DEF q, S
<1>5. PICK f : ByKey(S, q, r, f)
  BY <1>3, <1>4, SortedIs
<1> HIDE DEF r
<1>6. /\ r \in Seq(S) /\ Len(r) = n /\ f \in [1..n -> 1..n] /\ \A k \in 1..n : r[k] = q[f[k]]
      /\ \A j, k \in 1..n : j < k => \/ Key(r[j]) < Key(r[k])
                                     \/ Key(r[j]) = Key(r[k]) /\ f[j] < f[k]
  BY <1>2, <1>5 DEF ByKey
<1>7. Sound(b) /\ InLine(b)
  BY HeldFacts DEF Sequenced
<1> HIDE DEF b
<1>8. ASSUME NEW k \in 1..n, k > 1, Key(r[k - 1]) = Key(r[k]) PROVE r[k - 1].seq <= r[k].seq
  <2> DEFINE j == k - 1
             a == f[j]
             d == f[k]
             x == ids[a]
             y == ids[d]
             s == b.order[x].side
             p == b.order[x].price
  <2>1. j \in 1..n /\ j < k
    BY <1>2, <1>8
  <2>2. a \in 1..n /\ d \in 1..n /\ r[j] = q[a] /\ r[k] = q[d]
    BY <2>1, <1>6
  <2>3. Tells(h, x, r[j]) /\ Tells(h, y, r[k]) /\ x \in b.index /\ y \in b.index
    BY <2>2, <1>1, <1>2
  <2>4. a < d
    <3>1. r[j].side \in Side /\ r[j].price \in Price
      BY <2>3 DEF Tells
    <3>2. Key(r[j]) \in Nat
      BY <3>1, KeyIs
    <3>3. ~(Key(r[j]) < Key(r[k]))
      BY <3>2, <1>8
    <3> QED BY <3>3, <2>1, <1>6
  <2>5. s \in Side /\ p \in Price /\ Key(r[j]) = LevelKey[s][p]
    <3>1. r[j].side = s /\ r[j].price = p /\ r[j].side \in Side /\ r[j].price \in Price
      BY <2>3 DEF Tells, b
    <3> QED BY <3>1 DEF Key
  <2> HIDE DEF j, a, d, x, y, s, p
  <2>6. b.order[y].side = s /\ b.order[y].price = p
    <3>1. Key(r[k]) = LevelKey[s][p]
      BY <2>5, <1>8 DEF j
    <3> QED BY <3>1, <2>3, <2>5, WrittenKey DEF b
  <2>7. b.order[x].side = s /\ b.order[x].price = p
    BY DEF s, p
  <2>8. PICK m \in DOMAIN b.level[s][p] : b.level[s][p][m] = x
    BY <2>3, <2>7, <1>7 DEF Sound, IndexedAreQueued
  <2>9. PICK l \in DOMAIN b.level[s][p] : b.level[s][p][l] = y
    BY <2>3, <2>6, <1>7 DEF Sound, IndexedAreQueued
  <2>10. m \in Nat /\ l \in Nat
    <3> DEFINE u == b.level[s][p]
    <3>1. u \in Seq(OrderId)
      BY <2>5, <1>7, Queued
    <3> HIDE DEF u
    <3>2. DOMAIN u = 1..Len(u)
      BY <3>1, LenProperties
    <3> QED BY <2>8, <2>9, <3>2 DEF u
  <2>11. m < l
    <3>1. m # l
      <4>1. x # y
        BY <2>2, <2>4, <1>2 DEF x, y
      <4> QED BY <4>1, <2>8, <2>9
    <3>2. ~(l < m)
      <4>1. ids[d] = b.level[s][p][l] /\ ids[a] = b.level[s][p][m]
        BY <2>8, <2>9 DEF x, y
      <4>2. l < m => d < a
        BY <4>1, <2>2, <2>5, <2>8, <2>9, <1>2 DEF InQueueOrder
      <4>3. a \in Nat /\ d \in Nat
        BY <2>2, <1>2
      <4> QED BY <4>2, <4>3, <2>4
    <3> QED BY <3>1, <3>2, <2>10
  <2>12. b.order[x].seq <= b.order[y].seq
    BY <2>5, <2>8, <2>9, <2>11, <1>7 DEF InLine
  <2>13. r[j].seq = b.order[x].seq /\ r[k].seq = b.order[y].seq
    BY <2>3 DEF Tells, b
  <2> QED BY <2>12, <2>13 DEF j
<1>9. DOMAIN r = 1..n
  BY <1>6, LenProperties
<1> QED
  BY <1>8, <1>9 DEF QueuesInSequence, r, q

(* The orders of a level are written in the order of its queue.            *)
LEMMA LevelIsWritten ==
  ASSUME NEW i \in Instrument, NEW h, HeldOk(i, h),
         NEW q, NEW ids, NEW n, Written(h, q, ids, n), NEW s \in Side, NEW p \in Price,
         NEW K, \A a \in 1..n : q[a] \in K <=> Key(q[a]) = LevelKey[s][p],
         NEW u, u = Those(q, K), NEW v, v = h.book.level[s][p]
  PROVE  Len(u) = Len(v) /\ \A j \in 1..Len(v) : u[j] = OrderImage(h, v[j])
<1> DEFINE b == h.book
           w == [j \in 1..Len(u) |-> u[j].id]
           N == LevelKey[s][p]
<1>1. \A a \in 1..n : Tells(h, ids[a], q[a])
  BY AllTell
<1>2. /\ n \in Nat /\ q \in Seq(OrderRecord) /\ Len(q) = n /\ Len(ids) = n
      /\ \A a \in 1..n : ids[a] \in b.index /\ q[a] = OrderImage(h, ids[a])
      /\ \A a, d \in 1..n : ids[a] = ids[d] => a = d
      /\ \A x \in b.index : \E a \in 1..n : ids[a] = x
      /\ InQueueOrder(b, ids)
  BY DEF Written
<1>3. PICK f : Takes(q, u, f) /\ TakesEvery(q, u, f, K)
  BY <1>2, ThosePlaces
<1>4. u \in Seq(OrderRecord \cap K) /\ Len(u) \in Nat
  BY <1>2, ThoseTyped, LenProperties
<1> DEFINE m == Len(u)
<1>5. /\ f \in [1..m -> 1..n] /\ (\A k \in 1..m : u[k] = q[f[k]])
      /\ (\A j, k \in 1..m : j < k => f[j] < f[k])
      /\ \A c \in 1..n : q[c] \in K => \E j \in 1..m : f[j] = c
  BY <1>2, <1>3 DEF Takes, TakesEvery
<1>6. \A k \in 1..m : u[k] \in K
  BY <1>4, ElementOfSeq
<1>7. Sound(b)
  BY HeldFacts
<1> HIDE DEF N, b
<1>8. \A a \in 1..n : /\ q[a].id = ids[a] /\ ids[a] \in OrderId
                      /\ q[a] \in K <=> b.order[ids[a]].side = s /\ b.order[ids[a]].price = p
  <2> TAKE a \in 1..n
  <2> DEFINE id == ids[a]
             o == q[a]
  <2>1. Tells(h, id, o) /\ (o \in K <=> Key(o) = LevelKey[s][p])
    BY <1>1
  <2>2. Key(o) = LevelKey[s][p] <=> h.book.order[id].side = s /\ h.book.order[id].price = p
    <3> HIDE DEF id, o
    <3> QED BY <2>1, WrittenKey
  <2>3. o.id = id /\ id \in OrderId
    BY <2>1 DEF Tells
  <2> QED BY <2>1, <2>2, <2>3 DEF b
<1>9. \A k \in 1..m : f[k] \in 1..n /\ w[k] = ids[f[k]] /\ w[k] = q[f[k]].id
  BY <1>5, <1>8
<1>10. w \in Seq(OrderId) /\ DOMAIN w = 1..m /\ Len(w) = m
  <2>1. w \in [1..m -> OrderId] /\ m \in Nat
    BY <1>4, <1>8, <1>9
  <2> QED BY <2>1
<1> HIDE DEF w, m
<1>11. /\ v \in Seq(OrderId) /\ DOMAIN v = 1..Len(v)
       /\ \A k \in DOMAIN v : v[k] \in b.index /\ b.order[v[k]].side = s /\ b.order[v[k]].price = p
  <2>1. v = b.level[s][p]
    BY DEF b
  <2>2. /\ b.level[s][p] \in Seq(OrderId)
        /\ \A k \in DOMAIN b.level[s][p] :
             /\ b.level[s][p][k] \in b.index
             /\ b.order[b.level[s][p][k]].side = s /\ b.order[b.level[s][p][k]].price = p
    BY <1>7, Queued
  <2> QED BY <2>1, <2>2, LenProperties
<1>12. \A j, k \in 1..n : q[j].id = q[k].id => j = k
  BY <1>2, <1>8
<1>13. RunsAlong(q, n, w)
  <2>1. \A k \in DOMAIN w : \E j \in 1..n : w[k] = q[j].id
    BY <1>9, <1>10
  <2>2. ASSUME NEW k \in DOMAIN w, NEW l \in DOMAIN w, NEW j \in 1..n, NEW d \in 1..n,
               k < l, w[k] = q[j].id, w[l] = q[d].id
        PROVE  j < d
    <3>1. f[k] = j /\ f[l] = d
      BY <2>2, <1>9, <1>10, <1>12
    <3> QED BY <3>1, <2>2, <1>5, <1>10 DEF m
  <2> QED BY <2>1, <2>2 DEF RunsAlong
<1>14. RunsAlong(q, n, v)
  <2>1. \A k \in DOMAIN v : \E j \in 1..n : v[k] = q[j].id
    <3> TAKE k \in DOMAIN v
    <3>1. PICK a \in 1..n : ids[a] = v[k]
      BY <1>2, <1>11
    <3> QED BY <3>1, <1>8
  <2>2. ASSUME NEW k \in DOMAIN v, NEW l \in DOMAIN v, NEW j \in 1..n, NEW d \in 1..n,
               k < l, v[k] = q[j].id, v[l] = q[d].id
        PROVE  j < d
    <3>1. ids[j] = v[k] /\ ids[d] = v[l]
      BY <2>2, <1>8
    <3>2. k \in DOMAIN b.level[s][p] /\ l \in DOMAIN b.level[s][p]
          /\ ids[j] = b.level[s][p][k] /\ ids[d] = b.level[s][p][l]
      BY <3>1, <2>2 DEF b
    <3> QED BY <3>2, <2>2, <1>2 DEF InQueueOrder
  <2> QED BY <2>1, <2>2 DEF RunsAlong
<1>15. \A k \in DOMAIN w : \E l \in DOMAIN v : v[l] = w[k]
  <2> TAKE k \in DOMAIN w
  <2>1. k \in 1..m /\ f[k] \in 1..n /\ w[k] = ids[f[k]] /\ u[k] = q[f[k]] /\ u[k] \in K
    BY <1>5, <1>6, <1>9, <1>10 DEF m
  <2>2. w[k] \in b.index /\ b.order[w[k]].side = s /\ b.order[w[k]].price = p
    BY <2>1, <1>2, <1>8
  <2>3. \E l \in DOMAIN b.level[s][p] : b.level[s][p][l] = w[k]
    BY <2>2, <1>7 DEF Sound, IndexedAreQueued
  <2> QED BY <2>3 DEF b
<1>16. \A k \in DOMAIN v : \E l \in DOMAIN w : w[l] = v[k]
  <2> TAKE k \in DOMAIN v
  <2>1. PICK a \in 1..n : ids[a] = v[k]
    BY <1>2, <1>11
  <2>2. q[a] \in K
    BY <2>1, <1>8, <1>11
  <2>3. PICK j \in 1..m : f[j] = a
    BY <2>2, <1>5 DEF m
  <2> QED BY <2>1, <2>3, <1>9, <1>10
<1>17. w = v
  <2>1. n \in Nat /\ w \in Seq(OrderId) /\ v \in Seq(OrderId)
    BY <1>2, <1>10, <1>11
  <2> QED BY <2>1, <1>12, <1>13, <1>14, <1>15, <1>16, SameQueue
<1>18. Len(u) = Len(v)
  BY <1>10, <1>17 DEF m
<1>19. ASSUME NEW j \in 1..Len(v) PROVE u[j] = OrderImage(h, v[j])
  <2>1. j \in 1..m
    BY <1>18 DEF m
  <2>2. f[j] \in 1..n /\ v[j] = ids[f[j]] /\ u[j] = q[f[j]]
    BY <2>1, <1>5, <1>9, <1>17 DEF m
  <2> QED BY <2>2, <1>2
<1> QED
  BY <1>18, <1>19

(* Two sequences with the same numbers have the same sum.                  *)
LEMMA AddedAlike ==
  ASSUME NEW S, NEW q \in Seq(S), NEW f, Whole(f, S), NEW T, NEW r \in Seq(T), NEW g, Whole(g, T),
         Len(q) = Len(r), \A k \in 1..Len(r) : f[q[k]] = g[r[k]]
  PROVE  Added(q, f) = Added(r, g)
<1> DEFINE n == Len(r)
           v == [k \in 1..n |-> g[r[k]]]
<1>1. n \in Nat /\ Len(q) = n /\ \A k \in 1..n : q[k] \in S /\ r[k] \in T /\ f[q[k]] = g[r[k]]
  BY LenProperties, ElementOfSeq
<1>2. \A k \in 1..n : v[k] = g[r[k]] /\ v[k] = f[q[k]]
  BY <1>1
<1>3. Gives(v, r, g, n) /\ Gives(v, q, f, n)
  BY <1>2 DEF Gives
<1>4. Whole(v, 1..n)
  BY <1>1, <1>2 DEF Whole
<1> HIDE DEF v
<1>5. Gives(v, r, g, Len(r)) /\ Gives(v, q, f, Len(q))
  BY <1>1, <1>3 DEF n
<1>6. PICK G : RunningSum(G, v, Len(r)) /\ Added(r, g) = G[Len(r)]
  BY <1>5, AddedIsRunningSum
<1>7. PICK F : RunningSum(F, v, Len(q)) /\ Added(q, f) = F[Len(q)]
  BY <1>5, AddedIsRunningSum
<1>8. RunningSum(G, v, n) /\ RunningSum(F, v, n) /\ Added(r, g) = G[n] /\ Added(q, f) = F[n]
  BY <1>1, <1>6, <1>7 DEF n
<1> HIDE DEF n
<1>9. F[n] = G[n]
  BY <1>1, <1>4, <1>8, RunningSumUnique
<1> QED
  BY <1>8, <1>9

(* What is added up of the orders of a level is what the book has.         *)
Tallies(h, im, s, p, N) ==
  QuantityAt(im, N) = h.book.total[s][p] /\ CountAt(im, N) = Len(h.book.level[s][p])

(* The orders at the key of a level come to its total, and are as many as  *)
(* it has.                                                                 *)
LEMMA LevelAddsUp ==
  ASSUME NEW i \in Instrument, NEW h, HeldOk(i, h), NEW im,
         NEW ids, NEW n, Written(h, im.orders, ids, n), NEW s \in Side, NEW p \in Price,
         NEW N, N = LevelKey[s][p]
  PROVE  Tallies(h, im, s, p, N)
<1> DEFINE q == im.orders
           b == h.book
           v == b.level[s][p]
           S == Range(q)
           K == {o \in Range(im.orders) : Key(o) = N}
           g == [o \in Range(im.orders) |-> o.qty]
           u == Those(q, K)
<1>1. /\ QuantityAt(im, N) = Added(u, g) /\ CountAt(im, N) = Len(u)
  BY DEF QuantityAt, CountAt, OrdersAt, Added, FoldLeft, MapThenFoldSet
<1>2. \A a \in 1..n : Tells(h, ids[a], q[a])
  BY AllTell
<1>3. n \in Nat /\ q \in Seq(OrderRecord) /\ Len(q) = n
  BY DEF Written
<1>4. DOMAIN q = 1..n
  BY <1>3, LenProperties
<1>5. (\A o \in S : \E a \in 1..n : o = q[a]) /\ (\A a \in 1..n : q[a] \in S)
  BY <1>4 DEF Range
<1>6. \A a \in 1..n : q[a] \in K <=> Key(q[a]) = LevelKey[s][p]
  BY <1>5
<1>7. \A o \in S : g[o] = o.qty
  OBVIOUS
<1>8. Written(h, q, ids, n)
  OBVIOUS
<1>9. Sound(b) /\ Sums(b) /\ b \in BookType
  BY HeldFacts
<1> HIDE DEF q, g, K, S, b
<1>10. \A o \in S : g[o] \in Int
  <2> TAKE o \in S
  <2>1. PICK a \in 1..n : o = q[a]
    BY <1>5
  <2>2. o.qty \in 1..o.initial /\ o.initial \in 0..MaxQuantity
    BY <2>1, <1>2 DEF Tells
  <2> QED BY <2>2, <1>7, WidthAssumption
<1>11. u \in Seq(S)
  <2>1. q \in [1..n -> S]
    <3>1. q = [k \in 1..n |-> q[k]]
      BY <1>3, <1>4, LenProperties
    <3> QED BY <3>1, <1>5
  <2>2. q \in Seq(S)
    BY <2>1, <1>3
  <2>3. u \in Seq(S \cap K)
    BY <2>2, ThoseTyped
  <2>4. \A k \in 1..Len(u) : u[k] \in S
    BY <2>3, ElementOfSeq
  <2>5. u = [k \in 1..Len(u) |-> u[k]] /\ Len(u) \in Nat
    BY <2>3, LenProperties
  <2> HIDE DEF u
  <2>6. u \in [1..Len(u) -> S]
    BY <2>4, <2>5
  <2> QED BY <2>5, <2>6
<1>12. v \in Seq(OrderId) /\ \A k \in DOMAIN v : v[k] \in b.index
  BY <1>9, Queued
<1>13. v = h.book.level[s][p]
  BY DEF b
<1> HIDE DEF u, v
<1>14. Len(u) = Len(v) /\ \A j \in 1..Len(v) : u[j] = OrderImage(h, v[j])
  BY <1>6, <1>8, <1>13, LevelIsWritten DEF u
<1> DEFINE f == QuantitiesOf(b)
<1>15. Whole(f, OrderId) /\ \A x \in OrderId : f[x] = b.order[x].qty
  BY <1>9, QuantitiesAreWhole
<1> HIDE DEF f
<1>16. Whole(g, S)
  BY <1>10 DEF Whole
<1>17. \A k \in 1..Len(v) : g[u[k]] = f[v[k]]
  <2> TAKE k \in 1..Len(v)
  <2>1. u[k] \in S /\ v[k] \in OrderId
    BY <1>11, <1>12, <1>14, ElementOfSeq
  <2>2. u[k].qty = b.order[v[k]].qty
    <3>1. u[k] = OrderImage(h, v[k])
      BY <1>14
    <3>2. OrderImage(h, v[k]).qty = b.order[v[k]].qty
      BY DEF OrderImage, b
    <3> QED BY <3>1, <3>2
  <2> QED BY <2>1, <2>2, <1>7, <1>15
<1>18. Added(u, g) = Added(v, f)
  BY <1>11, <1>12, <1>14, <1>15, <1>16, <1>17, AddedAlike
<1>19. b.total[s][p] = Added(v, f)
  BY <1>9, <1>13, QuantityIsAdded DEF Sums, f, b
<1>20. QuantityAt(im, N) = b.total[s][p] /\ CountAt(im, N) = Len(v)
  BY <1>1, <1>14, <1>18, <1>19 DEF g
<1> QED
  BY <1>13, <1>20 DEF b, Tallies

(* l are the levels of a book, each once.                                  *)
LevelsOf(b, l, S) ==
  /\ \A a \in DOMAIN l : \E s \in S : \E p \in Occupied(b, s) : l[a] = LevelImage(b, s, p)
  /\ \A s \in S : \A p \in Occupied(b, s) : \E a \in DOMAIN l : l[a] = LevelImage(b, s, p)
  /\ \A a, d \in DOMAIN l : l[a].side = l[d].side /\ l[a].price = l[d].price => a = d

(* The images of a side's levels are those of its occupied prices, each    *)
(* once.                                                                   *)
LEMMA SideLevels ==
  ASSUME NEW b, Sound(b), IsFiniteSet(b.index), NEW s \in Side
  PROVE  LevelsOf(b, LevelImages(b, s), {s})
<1> DEFINE f == BestFirst(b, s)
           n == Cardinality(Occupied(b, s))
           l == LevelImages(b, s)
<1>1. /\ n \in Nat /\ f \in [1..n -> Occupied(b, s)]
      /\ \A j, k \in 1..n : f[j] = f[k] => j = k
      /\ \A p \in Occupied(b, s) : \E k \in 1..n : f[k] = p
  BY BestFirstIs
<1>2. l = [k \in 1..n |-> LevelImage(b, s, f[k])]
  BY <1>1 DEF LevelImages
<1> HIDE DEF l, n, f
<1>3. DOMAIN l = 1..n /\ \A k \in 1..n : l[k] = LevelImage(b, s, f[k]) /\ f[k] \in Occupied(b, s)
  BY <1>1, <1>2
<1>4. \A k \in 1..n : l[k].price = f[k]
  BY <1>3 DEF LevelImage
<1> QED
  BY <1>1, <1>3, <1>4 DEF LevelsOf, l

(* Those of both sides together are the levels of the book, each once.     *)
LEMMA AllLevels ==
  ASSUME NEW b, Sound(b), IsFiniteSet(b.index),
         NEW l, l = LevelImages(b, "Buy") \o LevelImages(b, "Sell")
  PROVE  LevelsOf(b, l, Side)
<1> DEFINE u == LevelImages(b, "Buy")
           v == LevelImages(b, "Sell")
           n == Len(u)
           o == Len(v)
<1>1. "Buy" \in Side /\ "Sell" \in Side /\ Side = {"Buy", "Sell"}
  BY DEF Side
<1>2. u \in Seq(LevelRecord) /\ v \in Seq(LevelRecord)
  BY <1>1, LevelImagesTyped
<1>3. LevelsOf(b, u, {"Buy"}) /\ LevelsOf(b, v, {"Sell"})
  BY <1>1, SideLevels
<1>4. l = u \o v
  OBVIOUS
<1> HIDE DEF u, v
<1>5. n \in Nat /\ o \in Nat /\ DOMAIN u = 1..n /\ DOMAIN v = 1..o
  BY <1>2, LenProperties
<1>6. /\ l \in Seq(LevelRecord) /\ Len(l) = n + o
      /\ \A a \in 1..(n + o) : l[a] = IF a <= n THEN u[a] ELSE v[a - n]
  BY <1>2, <1>4, ConcatProperties
<1>7. DOMAIN l = 1..(n + o)
  BY <1>6, LenProperties
<1> HIDE DEF n, o
<1>7a. /\ \A a \in DOMAIN u : \E p \in Occupied(b, "Buy") : u[a] = LevelImage(b, "Buy", p)
       /\ \A a \in DOMAIN v : \E p \in Occupied(b, "Sell") : v[a] = LevelImage(b, "Sell", p)
  BY <1>3 DEF LevelsOf
<1>7b. \A p : LevelImage(b, "Buy", p).side = "Buy" /\ LevelImage(b, "Sell", p).side = "Sell"
  BY DEF LevelImage
<1>8. \A a \in 1..n : a \in DOMAIN l /\ l[a] = u[a] /\ l[a].side = "Buy"
  <2> TAKE a \in 1..n
  <2>1. a \in 1..(n + o) /\ l[a] = u[a]
    BY <1>5, <1>6
  <2>2. \E p \in Occupied(b, "Buy") : u[a] = LevelImage(b, "Buy", p)
    BY <1>5, <1>7a
  <2> QED BY <2>1, <2>2, <1>7, <1>7b
<1>9. \A a \in 1..o : n + a \in DOMAIN l /\ l[n + a] = v[a] /\ l[n + a].side = "Sell"
  <2> TAKE a \in 1..o
  <2>1. n + a \in 1..(n + o) /\ ~(n + a <= n) /\ (n + a) - n = a
    BY <1>5
  <2>2. l[n + a] = v[a]
    BY <2>1, <1>6
  <2>3. \E p \in Occupied(b, "Sell") : v[a] = LevelImage(b, "Sell", p)
    BY <1>5, <1>7a
  <2> QED BY <2>1, <2>2, <2>3, <1>7, <1>7b
<1>10. \A a \in DOMAIN l : a \in 1..n \/ (a - n \in 1..o /\ n + (a - n) = a)
  <2> TAKE a \in DOMAIN l
  <2>1. a \in 1..(n + o)
    BY <1>7
  <2> QED BY <2>1, <1>5
<1>11. \A a \in DOMAIN l : \E s \in Side : \E p \in Occupied(b, s) : l[a] = LevelImage(b, s, p)
  <2> TAKE a \in DOMAIN l
  <2>1. CASE a \in 1..n
    <3>1. \E p \in Occupied(b, "Buy") : u[a] = LevelImage(b, "Buy", p)
      BY <2>1, <1>3, <1>5 DEF LevelsOf
    <3> QED BY <2>1, <3>1, <1>1, <1>8
  <2>2. CASE a - n \in 1..o /\ n + (a - n) = a
    <3>1. \E p \in Occupied(b, "Sell") : v[a - n] = LevelImage(b, "Sell", p)
      BY <2>2, <1>3, <1>5 DEF LevelsOf
    <3>2. l[a] = v[a - n]
      BY <2>2, <1>9
    <3> QED BY <3>1, <3>2, <1>1
  <2> QED BY <2>1, <2>2, <1>10
<1>12. \A s \in Side : \A p \in Occupied(b, s) : \E a \in DOMAIN l : l[a] = LevelImage(b, s, p)
  <2>1. ASSUME NEW p \in Occupied(b, "Buy") PROVE \E a \in DOMAIN l : l[a] = LevelImage(b, "Buy", p)
    <3>1. PICK a \in 1..n : u[a] = LevelImage(b, "Buy", p)
      BY <1>3, <1>5 DEF LevelsOf
    <3> QED BY <3>1, <1>8
  <2>2. ASSUME NEW p \in Occupied(b, "Sell") PROVE \E a \in DOMAIN l : l[a] = LevelImage(b, "Sell", p)
    <3>1. PICK a \in 1..o : v[a] = LevelImage(b, "Sell", p)
      BY <1>3, <1>5 DEF LevelsOf
    <3> QED BY <3>1, <1>9
  <2> QED BY <2>1, <2>2, <1>1
<1>13. ASSUME NEW a \in DOMAIN l, NEW d \in DOMAIN l, l[a].side = l[d].side, l[a].price = l[d].price
       PROVE  a = d
  <2>1. CASE a \in 1..n
    <3>1. d \in 1..n
      <4>1. l[d].side = "Buy"
        BY <2>1, <1>8, <1>13
      <4>2. ~(d - n \in 1..o /\ n + (d - n) = d)
        BY <4>1, <1>9
      <4> QED BY <4>2, <1>10
    <3>2. l[a] = u[a] /\ l[d] = u[d]
      BY <2>1, <3>1, <1>8
    <3> QED BY <2>1, <3>1, <3>2, <1>3, <1>5, <1>13 DEF LevelsOf
  <2>2. CASE a \notin 1..n
    <3>1. a - n \in 1..o /\ n + (a - n) = a
      BY <2>2, <1>10
    <3>2. l[a] = v[a - n] /\ l[a].side = "Sell"
      BY <3>1, <1>9
    <3>3. d \notin 1..n
      BY <3>2, <1>8, <1>13
    <3>4. d - n \in 1..o /\ n + (d - n) = d
      BY <3>3, <1>10
    <3>5. l[d] = v[d - n]
      BY <3>4, <1>9
    <3>6. a - n = d - n
      BY <3>1, <3>2, <3>4, <3>5, <1>3, <1>5, <1>13 DEF LevelsOf
    <3> QED BY <3>1, <3>4, <3>6
  <2> QED BY <2>1, <2>2
<1> QED
  BY <1>11, <1>12, <1>13 DEF LevelsOf

(* Where a level is, an order rests that is written.                       *)
LEMMA LevelHasOrder ==
  ASSUME NEW i \in Instrument, NEW h, HeldOk(i, h), NEW q, NEW ids, NEW n, Written(h, q, ids, n),
         NEW s \in Side, NEW p \in Occupied(h.book, s)
  PROVE  \E a \in 1..n : Key(q[a]) = LevelKey[s][p]
<1> DEFINE b == h.book
           v == b.level[s][p]
<1>1. p \in Price /\ v # <<>>
  BY DEF Occupied
<1>2. Sound(b)
  BY HeldFacts
<1>3. v \in Seq(OrderId) /\ \A k \in DOMAIN v : /\ v[k] \in b.index
                                                /\ b.order[v[k]].side = s /\ b.order[v[k]].price = p
  <2> HIDE DEF b
  <2> QED BY <1>1, <1>2, Queued
<1> HIDE DEF v
<1>4. 1 \in DOMAIN v
  <2>1. Len(v) \in Nat /\ Len(v) # 0 /\ DOMAIN v = 1..Len(v)
    BY <1>1, <1>3, LenProperties, EmptySeq
  <2> QED BY <2>1
<1>5. PICK a \in 1..n : ids[a] = v[1]
  BY <1>3, <1>4 DEF Written
<1>6. Tells(h, ids[a], q[a])
  BY AllTell
<1>7. Key(q[a]) = LevelKey[s][p]
  <2> DEFINE id == ids[a]
             o == q[a]
  <2>1. Tells(h, id, o) /\ h.book.order[id].side = s /\ h.book.order[id].price = p
    BY <1>3, <1>4, <1>5, <1>6
  <2> HIDE DEF id, o
  <2>2. Key(o) = LevelKey[s][p]
    BY <2>1, <1>1, WrittenKey
  <2> QED BY <2>2 DEF o
<1> QED
  BY <1>7

(* An order that is written has a level.                                   *)
LEMMA OrderHasLevel ==
  ASSUME NEW i \in Instrument, NEW h, HeldOk(i, h), NEW q, NEW ids, NEW n, Written(h, q, ids, n),
         NEW a \in 1..n
  PROVE  \E s \in Side : \E p \in Occupied(h.book, s) : Key(q[a]) = LevelKey[s][p]
<1> DEFINE id == ids[a]
           o == q[a]
           s == h.book.order[id].side
           p == h.book.order[id].price
<1>1. Tells(h, id, o)
  BY AllTell
<1>2. id \in h.book.index
  BY DEF Written
<1>3. Sound(h.book)
  BY HeldFacts
<1> HIDE DEF id, o
<1>4. o.side = s /\ o.price = p /\ s \in Side /\ p \in Price
  BY <1>1 DEF Tells
<1>5. p \in Occupied(h.book, s)
  <2> DEFINE b == h.book
  <2>1. Sound(b) /\ id \in b.index /\ s = b.order[id].side /\ p = b.order[id].price
    BY <1>2, <1>3
  <2> HIDE DEF b, s, p
  <2>2. p \in Occupied(b, s)
    BY <2>1, RestsSomewhere
  <2> QED BY <2>2 DEF b
<1>6. Key(o) = LevelKey[s][p]
  BY <1>4 DEF Key
<1> QED
  BY <1>4, <1>5, <1>6 DEF o

(* So at the level of every price.                                         *)
LEMMA LevelTallies ==
  ASSUME NEW i \in Instrument, NEW h, HeldOk(i, h), NEW im,
         NEW ids, NEW n, Written(h, im.orders, ids, n)
  PROVE  \A s \in Side : \A p \in Price : Tallies(h, im, s, p, LevelKey[s][p])
<1> TAKE s \in Side
<1> TAKE p \in Price
<1> DEFINE N == LevelKey[s][p]
<1>1. N = LevelKey[s][p]
  OBVIOUS
<1> HIDE DEF N
<1>2. Tallies(h, im, s, p, N)
  BY <1>1, LevelAddsUp
<1> QED
  BY <1>1, <1>2

(* The levels written of a book are those of the orders written.           *)
LEMMA LevelsMatchOrders ==
  ASSUME NEW i \in Instrument, NEW h, HeldOk(i, h), NEW im,
         NEW ids, NEW n, Written(h, im.orders, ids, n), LevelsOf(h.book, im.levels, Side)
  PROVE  LevelsAddUp(im)
<1> DEFINE b == h.book
           q == im.orders
           l == im.levels
<1>1. /\ \A a \in DOMAIN l : \E s \in Side : \E p \in Occupied(b, s) : l[a] = LevelImage(b, s, p)
      /\ \A s \in Side : \A p \in Occupied(b, s) : \E a \in DOMAIN l : l[a] = LevelImage(b, s, p)
      /\ \A a, d \in DOMAIN l : l[a].side = l[d].side /\ l[a].price = l[d].price => a = d
  BY DEF LevelsOf
<1>2. \A s : \A p : /\ LevelImage(b, s, p).side = s /\ LevelImage(b, s, p).price = p
                    /\ LevelImage(b, s, p).qty = b.total[s][p]
                    /\ LevelImage(b, s, p).count = Len(b.level[s][p])
                    /\ Key(LevelImage(b, s, p)) = LevelKey[s][p]
  BY DEF LevelImage, Key
<1>3. \A s \in Side : \A p \in Occupied(b, s) : p \in Price
  BY DEF Occupied
<1>4. DOMAIN q = 1..n
  BY LenProperties DEF Written
<1>5. ASSUME NEW a \in DOMAIN l PROVE l[a].side \in Side /\ l[a].price \in Price
  <2>1. PICK s \in Side : \E p \in Occupied(b, s) : l[a] = LevelImage(b, s, p)
    BY <1>1
  <2>2. PICK p \in Occupied(b, s) : l[a] = LevelImage(b, s, p)
    BY <2>1
  <2> QED BY <2>2, <1>2, <1>3
<1>6. ASSUME NEW a \in DOMAIN l, NEW d \in DOMAIN l, a # d PROVE Key(l[a]) # Key(l[d])
  <2> DEFINE s == l[a].side
             p == l[a].price
             t == l[d].side
             x == l[d].price
  <2>1. s \in Side /\ p \in Price /\ t \in Side /\ x \in Price
    BY <1>5
  <2>2. ~(s = t /\ p = x)
    BY <1>1, <1>6
  <2>3. Key(l[a]) = LevelKey[s][p] /\ Key(l[d]) = LevelKey[t][x]
    BY DEF Key
  <2> HIDE DEF s, p, t, x
  <2> QED BY <2>1, <2>2, <2>3, KeyApart
<1>7. \A y \in Range(l) : \E a \in DOMAIN l : y = l[a]
  BY DEF Range
<1>8. ASSUME NEW y \in Range(l) PROVE \E o \in Range(q) : Key(o) = Key(y)
  <2>1. PICK s \in Side : \E p \in Occupied(b, s) : y = LevelImage(b, s, p)
    BY <1>1, <1>7
  <2>2. PICK p \in Occupied(b, s) : y = LevelImage(b, s, p)
    BY <2>1
  <2>3. PICK a \in 1..n : Key(q[a]) = LevelKey[s][p]
    BY LevelHasOrder
  <2>4. q[a] \in Range(q)
    BY <1>4 DEF Range
  <2> QED BY <2>2, <2>3, <2>4, <1>2
<1>9. ASSUME NEW o \in Range(q) PROVE \E y \in Range(l) : Key(y) = Key(o)
  <2>1. PICK a \in 1..n : o = q[a]
    BY <1>4 DEF Range
  <2>2. PICK s \in Side : \E p \in Occupied(b, s) : Key(q[a]) = LevelKey[s][p]
    BY OrderHasLevel
  <2>3. PICK p \in Occupied(b, s) : Key(q[a]) = LevelKey[s][p]
    BY <2>2
  <2>4. PICK d \in DOMAIN l : l[d] = LevelImage(b, s, p)
    BY <1>1
  <2>5. l[d] \in Range(l)
    BY DEF Range
  <2> QED BY <2>1, <2>3, <2>4, <2>5, <1>2
<1>10. {Key(y) : y \in Range(l)} = {Key(o) : o \in Range(q)}
  <2> DEFINE A == Range(l)
             C == Range(q)
  <2>1. (\A y \in A : \E o \in C : Key(o) = Key(y)) /\ \A o \in C : \E y \in A : Key(y) = Key(o)
    BY <1>8, <1>9
  <2> HIDE DEF A, C
  <2>2. {Key(y) : y \in A} = {Key(o) : o \in C}
    BY <2>1
  <2> QED BY <2>2 DEF A, C
<1>11. ASSUME NEW y \in Range(l)
       PROVE  /\ y.qty = QuantityAt(im, Key(y)) /\ y.qty <= MaxQuantity
              /\ y.count = CountAt(im, Key(y))
  <2>1. PICK s \in Side : \E p \in Occupied(b, s) : y = LevelImage(b, s, p)
    BY <1>1, <1>7
  <2>2. PICK p \in Occupied(b, s) : y = LevelImage(b, s, p)
    BY <2>1
  <2> DEFINE N == LevelKey[s][p]
  <2>3. Key(y) = N /\ y.qty = b.total[s][p] /\ y.count = Len(b.level[s][p]) /\ p \in Price
    BY <2>2, <1>2, <1>3
  <2>4. N = LevelKey[s][p]
    OBVIOUS
  <2> HIDE DEF N
  <2>5. Tallies(h, im, s, p, N)
    <3>1. \A t \in Side : \A x \in Price : Tallies(h, im, t, x, LevelKey[t][x])
      BY LevelTallies
    <3> QED BY <3>1, <2>3, <2>4
  <2>6. b.total[s][p] \in 0..MaxQuantity
    <3>1. b.total \in [Side -> [Price -> 0..MaxQuantity]]
      BY HeldFacts DEF BookType
    <3> HIDE DEF b
    <3> QED BY <3>1, <2>3
  <2> QED BY <2>3, <2>5, <2>6, WidthAssumption DEF Tallies
<1> QED
  BY <1>5, <1>6, <1>10, <1>11 DEF LevelsAddUp

(* What write_book_snapshot writes of a sound book,                        *)
(* validate_book_snapshot accepts.                                         *)
LEMMA WrittenIsValid ==
  ASSUME NEW i \in Instrument, NEW h, HeldOk(i, h), NEW im, im = BookImage(i, h)
  PROVE  Valid(i, im)
<1> DEFINE b == h.book
           l == LevelImages(b, "Buy") \o LevelImages(b, "Sell")
           n == Len(im.orders)
<1>1. im \in BookRecord /\ im.instrument = i
  BY BookImageIs
<1>2. im.maxOrders = MaxOrders[i] /\ im.next = b.seq /\ im.levels = l
  BY DEF BookImage, LevelImages
<1>3. Sound(b) /\ IsFiniteSet(b.index)
  BY HeldFacts
<1>4. l = LevelImages(b, "Buy") \o LevelImages(b, "Sell")
  OBVIOUS
<1> HIDE DEF l
<1>5. LevelsOf(b, im.levels, Side)
  <2> HIDE DEF b
  <2> QED BY <1>2, <1>3, <1>4, AllLevels
<1>6. PICK ids : Written(h, im.orders, ids, n)
  BY OrdersAreWritten
<1>7. n <= MaxOrders[i]
  <2> HIDE DEF n
  <2> QED BY <1>6, OrdersFit
<1>8. im.next = h.book.seq
  BY <1>2
<1>9. /\ \A o \in Range(im.orders) : OrderIsSound(im, o)
      /\ ImageUncrossed(im) /\ NothingTwice(im)
  <2> HIDE DEF n
  <2> QED BY <1>6, <1>8, OrdersAreSound
<1>10. QueuesInSequence(im)
  <2> HIDE DEF n
  <2> QED BY <1>6, OrdersInSequence
<1>11. LevelsAddUp(im)
  <2> HIDE DEF n
  <2> QED BY <1>5, <1>6, LevelsMatchOrders DEF b
<1>12. MaxOrders[i] \in Nat /\ n \in Nat
  <2>1. im.orders \in Seq(OrderRecord)
    BY <1>1 DEF BookRecord
  <2> QED BY <2>1, HeldFacts, LenProperties
<1>13. ~(im.instrument # i \/ im.maxOrders # MaxOrders[i]) /\ ~(Len(im.orders) > im.maxOrders)
  BY <1>1, <1>2, <1>7, <1>12
<1>14. BookStatus(i, im) = "Accepted"
  BY <1>9, <1>10, <1>11, <1>13 DEF BookStatus
<1> QED
  BY <1>1, <1>14 DEF Valid

(* The image of an engine is restored into any engine with its instruments *)
(* at its indices.                                                         *)
LEMMA ImageIsRestored ==
  ASSUME NEW e, EngineOk(e), e.valid, NEW p, EngineOk(p), p.ids = e.ids, NEW im, im = Image(p)
  PROVE  Restore(e, im).status = "Accepted"
<1>1. /\ im \in ImageType /\ Len(im.books) = Len(p.ids)
      /\ \A n \in DOMAIN p.ids : p.ids[n] \in Instrument /\ im.books[n] = BookImage(p.ids[n], p.held[n])
  BY ImageTyped
<1>2. \A n \in DOMAIN p.ids : HeldOk(p.ids[n], p.held[n])
  BY DEF EngineOk
<1>3. \A n \in DOMAIN e.ids : e.ids[n] \in Instrument /\ Valid(e.ids[n], im.books[n])
  <2> TAKE n \in DOMAIN e.ids
  <2> DEFINE i == p.ids[n]
             h == p.held[n]
             x == im.books[n]
  <2>1. i \in Instrument /\ HeldOk(i, h) /\ x = BookImage(i, h) /\ e.ids[n] = i
    BY <1>1, <1>2
  <2> HIDE DEF i, h, x
  <2>2. Valid(i, x)
    BY <2>1, WrittenIsValid
  <2> QED BY <2>1, <2>2 DEF x
<1>4. ValidImage(e, im)
  BY <1>1, <1>3 DEF ValidImage
<1>5. ImageStatus(e, im) = "Accepted"
  <2> DEFINE bad == {n \in DOMAIN e.ids : BookStatus(e.ids[n], im.books[n]) # "Accepted"}
  <2>1. im.readable
    BY DEF Image
  <2>2. Len(im.books) = Len(e.ids)
    BY <1>1
  <2>3. bad = {}
    BY <1>3 DEF Valid
  <2> QED BY <2>1, <2>2, <2>3 DEF ImageStatus
<1>6. RestoreBooks(e, im).status = "Accepted"
  BY <1>4, BooksAccepted
<1> QED
  BY <1>5, <1>6 DEF Restore

-----------------------------------------------------------------------------
(* The checksum, and what it settles                                       *)

(* Engines with the same books hold the same pairs of instrument and       *)
(* book.                                                                   *)
LEMMA SameBooksOf ==
  ASSUME NEW e, EngineOk(e), NEW f, EngineOk(f), SameBooks(e, f)
  PROVE  BooksOf(e) \subseteq BooksOf(f)
<1> SUFFICES ASSUME NEW n \in DOMAIN e.ids PROVE <<e.ids[n], e.held[n]>> \in BooksOf(f)
  BY DEF BooksOf
<1>1. Held(e, e.ids[n]) = e.held[n] /\ e.ids[n] \in Range(e.ids)
  BY HeldIs
<1>2. e.ids[n] \in Range(f.ids) /\ Held(f, e.ids[n]) = e.held[n]
  BY <1>1 DEF SameBooks
<1>3. PICK m \in DOMAIN f.ids : f.ids[m] = e.ids[n]
  BY <1>2 DEF Range
<1>4. Held(f, f.ids[m]) = f.held[m]
  BY HeldIs
<1> QED
  BY <1>2, <1>3, <1>4 DEF BooksOf

(* What the checksum takes in settles all but the number of the next event. *)
LEMMA SumSettles ==
  ASSUME NEW i \in Instrument, NEW h, HeldOk(i, h), NEW g, HeldOk(i, g), HeldSum(h) = HeldSum(g)
  PROVE  [h EXCEPT !.events = 0] = [g EXCEPT !.events = 0]
<1> DEFINE b == h.book
           c == g.book
           L(x) == [s \in Side |-> [p \in Price |->
                      [n \in DOMAIN x.book.level[s][p] |-> Stored(x, x.book.level[s][p][n])]]]
<1>1. /\ h \in HeldType /\ Sound(b) /\ b \in BookType
      /\ g \in HeldType /\ Sound(c) /\ c \in BookType
  BY HeldFacts DEF Sound
<1>2. /\ HeldSum(h).seq = b.seq /\ HeldSum(h).feed = h.feed /\ HeldSum(h).level = L(h)
      /\ HeldSum(g).seq = c.seq /\ HeldSum(g).feed = g.feed /\ HeldSum(g).level = L(g)
  BY DEF HeldSum
<1>3. b.seq = c.seq /\ h.feed = g.feed /\ L(h) = L(g)
  BY <1>2
<1>4. ASSUME NEW s \in Side, NEW p \in Price
      PROVE  /\ c.level[s][p] = b.level[s][p]
             /\ \A n \in DOMAIN b.level[s][p] : Stored(g, b.level[s][p][n]) = Stored(h, b.level[s][p][n])
  <2> DEFINE u == b.level[s][p]
             v == c.level[s][p]
  <2>1. u \in Seq(OrderId) /\ v \in Seq(OrderId)
    BY <1>1 DEF BookType
  <2>2. [n \in DOMAIN u |-> Stored(h, u[n])] = [n \in DOMAIN v |-> Stored(g, v[n])]
    <3>1. L(h)[s][p] = L(g)[s][p]
      BY <1>3
    <3>2. L(h)[s][p] = [n \in DOMAIN u |-> Stored(h, u[n])] /\ L(g)[s][p] = [n \in DOMAIN v |-> Stored(g, v[n])]
      OBVIOUS
    <3> QED BY <3>1, <3>2
  <2> HIDE DEF u, v
  <2>3. DOMAIN u = DOMAIN v /\ \A n \in DOMAIN u : Stored(h, u[n]) = Stored(g, v[n])
    <3> DEFINE x == [n \in DOMAIN u |-> Stored(h, u[n])]
               y == [n \in DOMAIN v |-> Stored(g, v[n])]
    <3>1. x = y
      BY <2>2
    <3>2. DOMAIN x = DOMAIN u /\ DOMAIN y = DOMAIN v
      OBVIOUS
    <3>3. \A n \in DOMAIN u : x[n] = Stored(h, u[n])
      OBVIOUS
    <3>4. \A n \in DOMAIN v : y[n] = Stored(g, v[n])
      OBVIOUS
    <3> HIDE DEF x, y
    <3>5. DOMAIN u = DOMAIN v
      BY <3>1, <3>2
    <3> QED BY <3>1, <3>3, <3>4, <3>5
  <2>4. \A n \in DOMAIN u : u[n] = v[n]
    <3> TAKE n \in DOMAIN u
    <3>1. Stored(h, u[n])[1] = u[n] /\ Stored(g, v[n])[1] = v[n]
      BY DEF Stored
    <3> QED BY <3>1, <2>3
  <2>5. u = v
    <3>1. u = [n \in DOMAIN u |-> u[n]] /\ v = [n \in DOMAIN v |-> v[n]]
      BY <2>1
    <3>2. [n \in DOMAIN u |-> u[n]] = [n \in DOMAIN v |-> v[n]]
      BY <2>3, <2>4
    <3> QED BY <3>1, <3>2
  <2> QED BY <2>3, <2>5 DEF u, v
<1>5. c.level = b.level
  BY <1>1, <1>4 DEF BookType
<1>6. ASSUME NEW id \in b.index
      PROVE  /\ c.order[id] = b.order[id] /\ g.initial[id] = h.initial[id]
             /\ (id \in g.partly <=> id \in h.partly)
  <2> DEFINE s == b.order[id].side
             p == b.order[id].price
  <2>1. s \in Side /\ p \in Price /\ \E n \in DOMAIN b.level[s][p] : b.level[s][p][n] = id
    <3>1. id \in OrderId /\ b.order \in [OrderId -> Order]
      BY <1>1 DEF BookType
    <3> QED BY <3>1, <1>1 DEF Sound, IndexedAreQueued, Order
  <2> HIDE DEF s, p
  <2>2. PICK n \in DOMAIN b.level[s][p] : b.level[s][p][n] = id
    BY <2>1
  <2>3. Stored(g, id) = Stored(h, id)
    BY <2>1, <2>2, <1>4
  <2>4. /\ Stored(g, id)[2] = c.order[id] /\ Stored(g, id)[3] = g.initial[id]
        /\ Stored(h, id)[2] = b.order[id] /\ Stored(h, id)[3] = h.initial[id]
    BY DEF Stored
  <2>5. Stored(g, id)[4] = (id \in g.partly)
    BY Zenon DEF Stored
  <2>6. Stored(h, id)[4] = (id \in h.partly)
    BY Zenon DEF Stored
  <2>7. id \in g.partly <=> id \in h.partly
    BY <2>3, <2>5, <2>6, Zenon
  <2> QED BY <2>3, <2>4, <2>7
<1>7. Alike(h, g)
  BY <1>3, <1>5, <1>6 DEF Alike
<1>8. g = [h EXCEPT !.events = g.events]
  BY <1>7, AlikeAre
<1> DEFINE n == g.events
<1>9. g = [h EXCEPT !.events = n]
  BY <1>8
<1> HIDE DEF n
<1> QED
  BY <1>9, <1>1 DEF HeldType

(* Engines with the same checksum hold the same books but for event        *)
(* numbers.                                                                *)
LEMMA SameUnnumbered ==
  ASSUME NEW e, EngineOk(e), NEW f, EngineOk(f), Checksum(e) = Checksum(f)
  PROVE  Unnumbered(e) \subseteq Unnumbered(f)
<1> SUFFICES ASSUME NEW n \in DOMAIN e.ids
             PROVE  <<e.ids[n], [e.held[n] EXCEPT !.events = 0]>> \in Unnumbered(f)
  BY DEF Unnumbered
<1> DEFINE i == e.ids[n]
<1>1. /\ Held(e, i) = e.held[n] /\ i \in Range(e.ids) /\ i \in Instrument /\ HeldOk(i, e.held[n])
  BY HeldIs
<1> HIDE DEF i
<1>2. [j \in Range(e.ids) |-> HeldSum(Held(e, j))] = [j \in Range(f.ids) |-> HeldSum(Held(f, j))]
  BY ChecksumIs
<1>3. i \in Range(f.ids) /\ HeldSum(Held(e, i)) = HeldSum(Held(f, i))
  <2> DEFINE x == [j \in Range(e.ids) |-> HeldSum(Held(e, j))]
             y == [j \in Range(f.ids) |-> HeldSum(Held(f, j))]
  <2>1. x = y
    BY <1>2
  <2>2. DOMAIN x = Range(e.ids) /\ DOMAIN y = Range(f.ids)
    OBVIOUS
  <2>3. x[i] = HeldSum(Held(e, i))
    BY <1>1
  <2>4. i \in Range(f.ids) => y[i] = HeldSum(Held(f, i))
    OBVIOUS
  <2> HIDE DEF x, y
  <2>5. Range(e.ids) = Range(f.ids)
    BY <2>1, <2>2
  <2>6. i \in Range(f.ids)
    BY <2>5, <1>1
  <2> QED BY <2>1, <2>3, <2>4, <2>6
<1>4. PICK m \in DOMAIN f.ids : i = f.ids[m]
  BY <1>3 DEF Range
<1>5. Held(f, i) = f.held[m] /\ HeldOk(i, f.held[m])
  BY <1>4, HeldIs
<1> DEFINE h == e.held[n]
           g == f.held[m]
<1>6. HeldOk(i, h) /\ HeldOk(i, g) /\ HeldSum(h) = HeldSum(g)
  BY <1>1, <1>3, <1>5
<1> HIDE DEF h, g
<1>7. [h EXCEPT !.events = 0] = [g EXCEPT !.events = 0]
  BY <1>1, <1>6, SumSettles
<1>8. <<f.ids[m], [g EXCEPT !.events = 0]>> \in Unnumbered(f)
  BY DEF Unnumbered, g
<1> QED
  BY <1>4, <1>7, <1>8 DEF i, h

(* An engine that was restored from the image of p holds what p held.      *)
LEMMA RestoredSame ==
  ASSUME NEW e, EngineOk(e), NEW p, EngineOk(p), NEW im, im = Image(p),
         NEW x, x = Restore(e, im), x.status = "Accepted"
  PROVE  x.engine.ids = p.ids /\ SameBooks(x.engine, p)
<1> DEFINE f == x.engine
<1>1. /\ im \in ImageType /\ Len(im.books) = Len(p.ids)
      /\ \A n \in DOMAIN p.ids : p.ids[n] \in Instrument /\ im.books[n] = BookImage(p.ids[n], p.held[n])
  BY ImageTyped
<1>2. RestoreOutcome(e, im, x)
  BY <1>1, RestoreIs
<1>3. /\ EngineOk(f) /\ SameRoutes(e, f) /\ ValidImage(e, im) /\ EngineRestored(e, im, f)
  BY <1>2 DEF RestoreOutcome
<1> HIDE DEF f
<1>4. /\ f.ids = e.ids /\ Len(e.ids) = Len(p.ids)
      /\ \A n \in DOMAIN e.ids : /\ e.ids[n] \in Instrument /\ Valid(e.ids[n], im.books[n])
                                 /\ BookRestored(e.ids[n], im.books[n], f.held[n])
  BY <1>1, <1>3 DEF SameRoutes, ValidImage, EngineRestored
<1>5. /\ e.ids \in Seq(Instrument) /\ p.ids \in Seq(Instrument)
      /\ f.held \in Seq(HeldType) /\ p.held \in Seq(HeldType)
      /\ Len(f.held) = Len(f.ids) /\ Len(p.held) = Len(p.ids)
  BY <1>3 DEF EngineOk, Routed, EngineType
<1>6. DOMAIN e.ids = 1..Len(p.ids) /\ DOMAIN p.ids = 1..Len(p.ids)
      /\ DOMAIN f.held = 1..Len(p.ids) /\ DOMAIN p.held = 1..Len(p.ids)
  BY <1>4, <1>5, LenProperties
<1>7. ASSUME NEW n \in DOMAIN p.ids PROVE e.ids[n] = p.ids[n] /\ f.held[n] = p.held[n]
  <2> DEFINE i == p.ids[n]
             b == im.books[n]
             h == p.held[n]
             g == f.held[n]
  <2>1. i \in Instrument /\ b = BookImage(i, h) /\ HeldOk(i, h)
    BY <1>1, HeldIs
  <2>2. n \in DOMAIN e.ids /\ e.ids[n] \in Instrument /\ Valid(e.ids[n], b) /\ BookRestored(e.ids[n], b, g)
    BY <1>4, <1>6
  <2>3. b.instrument = i
    BY <2>1 DEF BookImage
  <2> DEFINE j == e.ids[n]
  <2>4. j \in Instrument /\ Valid(j, b)
    BY <2>2
  <2> HIDE DEF i, b, h, g, j
  <2>5. b.instrument = j
    BY <2>4, ValidIs
  <2>6. j = i
    BY <2>3, <2>5
  <2>7. Valid(i, b) /\ BookRestored(i, b, g)
    BY <2>2, <2>4, <2>6 DEF j
  <2>8. g = h
    BY <2>1, <2>7, RoundTrip
  <2> QED BY <2>6, <2>8 DEF i, j, g, h
<1>8. f.ids = p.ids
  <2>1. e.ids = [n \in DOMAIN e.ids |-> e.ids[n]] /\ p.ids = [n \in DOMAIN p.ids |-> p.ids[n]]
    BY <1>5
  <2>2. [n \in DOMAIN e.ids |-> e.ids[n]] = [n \in DOMAIN p.ids |-> p.ids[n]]
    BY <1>6, <1>7
  <2> QED BY <2>1, <2>2, <1>4
<1>9. SameBooks(f, p)
  <2> SUFFICES ASSUME NEW i \in Range(f.ids) PROVE Held(f, i) = Held(p, i)
    BY <1>8 DEF SameBooks
  <2>1. PICK n \in DOMAIN p.ids : i = p.ids[n]
    BY <1>8 DEF Range
  <2>2. Held(p, i) = p.held[n]
    BY <2>1, HeldIs
  <2>3. n \in DOMAIN f.ids /\ f.ids[n] = i
    BY <2>1, <1>8
  <2>4. Held(f, i) = f.held[n]
    BY <2>3, <1>3, HeldIs
  <2> QED BY <2>2, <2>4, <1>7
<1> QED
  BY <1>8, <1>9 DEF f

-----------------------------------------------------------------------------
(* A snapshot that was changed                                             *)

(* Replacing an element, or taking one out, leaves a sequence of its kind. *)
LEMMA PutTyped ==
  ASSUME NEW S, NEW q \in Seq(S), NEW k, NEW x \in S
  PROVE  [q EXCEPT ![k] = x] \in Seq(S)
<1> DEFINE r == [q EXCEPT ![k] = x]
           n == Len(q)
<1>1. n \in Nat /\ q \in [1..n -> S]
  BY LenProperties
<1> HIDE DEF n
<1>2. r \in [1..n -> S]
  BY <1>1
<1> HIDE DEF r
<1>3. r \in Seq(S)
  BY <1>1, <1>2
<1> QED
  BY <1>3 DEF r

(* A reversed sequence keeps its type.                                     *)
LEMMA ReverseTyped ==
  ASSUME NEW S, NEW q \in Seq(S)
  PROVE  Reverse(q) \in Seq(S)
<1> DEFINE r == Reverse(q)
           n == Len(q)
<1>1. n \in Nat /\ \A k \in 1..n : q[k] \in S
  BY LenProperties, ElementOfSeq
<1>2. r = [k \in 1..n |-> q[(n - k) + 1]]
  BY DEF Reverse
<1> HIDE DEF n, r
<1>3. \A k \in 1..n : (n - k) + 1 \in 1..n
  BY <1>1
<1>4. r \in [1..n -> S]
  BY <1>1, <1>2, <1>3
<1>5. r \in Seq(S)
  BY <1>1, <1>4
<1> QED
  BY <1>5 DEF r

(* What a restore may be given can be read.                                *)
LEMMA OrdersChange ==
  ASSUME NEW o \in OrderRecord
  PROVE  ChangedOrders(o) \subseteq OrderRecord
<1> SUFFICES ASSUME NEW c \in ChangedOrders(o) PROVE c \in OrderRecord
  OBVIOUS
<1>1. CASE c \in {[o EXCEPT !.id = x] : x \in OrderId \cup {InvalidId}}
  BY <1>1 DEF OrderRecord
<1>2. CASE c \in {[o EXCEPT !.side = x] : x \in Side}
  BY <1>2 DEF OrderRecord
<1>3. CASE c \in {[o EXCEPT !.price = x] : x \in Price \cup {NoPrice}}
  BY <1>3 DEF OrderRecord
<1>4. CASE c \in {[o EXCEPT !.qty = x] : x \in 0..MaxQuantity}
  BY <1>4 DEF OrderRecord
<1>5. CASE c \in {[o EXCEPT !.seq = x] : x \in 0..MaxSequence}
  BY <1>5 DEF OrderRecord
<1>6. CASE c \in {[o EXCEPT !.initial = x] : x \in 0..MaxQuantity}
  BY <1>6 DEF OrderRecord
<1>7. CASE c \in {[o EXCEPT !.partly = ~@]}
  BY <1>7 DEF OrderRecord
<1> QED
  BY <1>1, <1>2, <1>3, <1>4, <1>5, <1>6, <1>7 DEF ChangedOrders

(* A changed level record is a level record.                               *)
LEMMA LevelsChange ==
  ASSUME NEW l \in LevelRecord
  PROVE  ChangedLevels(l) \subseteq LevelRecord
<1>1. 0..MaxQuantity \subseteq Nat
  BY WidthAssumption
<1> QED
  BY <1>1 DEF ChangedLevels, LevelRecord

(* A changed book image is a book image.                                   *)
LEMMA BooksChange ==
  ASSUME NEW b \in BookRecord
  PROVE  ChangedBooks(b) \subseteq BookRecord
<1> DEFINE orders == b.orders
           levels == b.levels
           Given(os, ls) == [b EXCEPT !.orders = os, !.levels = ls]
<1>1. /\ b.instrument \in Nat /\ b.maxOrders \in Nat /\ b.next \in 0..MaxSequence
      /\ b.events \in Nat /\ b.feed \in Nat /\ orders \in Seq(OrderRecord)
      /\ levels \in Seq(LevelRecord)
      /\ b = [instrument |-> b.instrument, maxOrders |-> b.maxOrders, next |-> b.next,
              events |-> b.events, feed |-> b.feed, orders |-> b.orders, levels |-> b.levels]
  BY DEF BookRecord
<1> SUFFICES ASSUME NEW c \in ChangedBooks(b) PROVE c \in BookRecord
  OBVIOUS
<1>2. \A os \in Seq(OrderRecord) : [b EXCEPT !.orders = os] \in BookRecord
  BY DEF BookRecord
<1>3. \A ls \in Seq(LevelRecord) : [b EXCEPT !.levels = ls] \in BookRecord
  BY DEF BookRecord
<1>4. \A os \in Seq(OrderRecord), ls \in Seq(LevelRecord) :
        [b EXCEPT !.orders = os, !.levels = ls] \in BookRecord
  BY DEF BookRecord
<1>5. DOMAIN orders = 1..Len(orders) /\ DOMAIN levels = 1..Len(levels)
  BY <1>1, LenProperties
<1> HIDE DEF orders, levels
<1>6. CASE c \in {[b EXCEPT !.maxOrders = @ + 1], [b EXCEPT !.instrument = @ + 1],
                  [b EXCEPT !.events = @ + 1], [b EXCEPT !.feed = @ + 1]}
  <2>1. CASE c = [b EXCEPT !.maxOrders = @ + 1]
    BY <2>1 DEF BookRecord
  <2>2. CASE c = [b EXCEPT !.instrument = @ + 1]
    BY <2>2 DEF BookRecord
  <2>3. CASE c = [b EXCEPT !.events = @ + 1]
    BY <2>3 DEF BookRecord
  <2>4. CASE c = [b EXCEPT !.feed = @ + 1]
    BY <2>4 DEF BookRecord
  <2> QED BY <1>6, <2>1, <2>2, <2>3, <2>4
<1>7. CASE c \in {[b EXCEPT !.next = x] : x \in 0..MaxSequence}
  BY <1>7 DEF BookRecord
<1>8. CASE \E n \in DOMAIN orders : \E o \in ChangedOrders(orders[n]) : c = [b EXCEPT !.orders[n] = o]
  <2>0. PICK n \in DOMAIN orders : \E o \in ChangedOrders(orders[n]) : c = [b EXCEPT !.orders[n] = o]
    BY <1>8
  <2>1. PICK o \in ChangedOrders(orders[n]) : c = [b EXCEPT !.orders[n] = o]
    BY <2>0
  <2>2. orders[n] \in OrderRecord
    BY <1>1, <1>5, ElementOfSeq
  <2>3. o \in OrderRecord
    BY <2>2, OrdersChange
  <2>4. [orders EXCEPT ![n] = o] \in Seq(OrderRecord)
    <3> DEFINE R == OrderRecord
    <3>1. orders \in Seq(R) /\ o \in R
      BY <1>1, <2>3
    <3> HIDE DEF R
    <3>2. [orders EXCEPT ![n] = o] \in Seq(R)
      BY <3>1, PutTyped
    <3> QED BY <3>2 DEF R
  <2>5. c = [b EXCEPT !.orders = [orders EXCEPT ![n] = o]]
    BY <2>1, <1>1 DEF orders
  <2> DEFINE os == [orders EXCEPT ![n] = o]
  <2>6. os \in Seq(OrderRecord) /\ c = [b EXCEPT !.orders = os]
    BY <2>4, <2>5
  <2> HIDE DEF os
  <2> QED BY <2>6, <1>2
<1>9. CASE \E n \in DOMAIN orders : c = [b EXCEPT !.orders = RemoveAt(@, n)]
  <2>1. PICK n \in DOMAIN orders : c = [b EXCEPT !.orders = RemoveAt(@, n)]
    BY <1>9
  <2> DEFINE os == RemoveAt(orders, n)
  <2>2. c = [b EXCEPT !.orders = os]
    BY <2>1 DEF orders
  <2>3. os \in Seq(OrderRecord)
    BY <1>1, RemoveAtProperties
  <2> HIDE DEF os
  <2> QED BY <2>2, <2>3, <1>2
<1>10. CASE c = [b EXCEPT !.orders = Reverse(@)]
  <2> DEFINE os == Reverse(orders)
  <2>1. c = [b EXCEPT !.orders = os]
    BY <1>10 DEF orders
  <2>2. os \in Seq(OrderRecord)
    BY <1>1, ReverseTyped
  <2> HIDE DEF os
  <2> QED BY <2>1, <2>2, <1>2
<1>11. CASE \E n \in DOMAIN levels : \E l \in ChangedLevels(levels[n]) : c = [b EXCEPT !.levels[n] = l]
  <2>0. PICK n \in DOMAIN levels : \E l \in ChangedLevels(levels[n]) : c = [b EXCEPT !.levels[n] = l]
    BY <1>11
  <2>1. PICK l \in ChangedLevels(levels[n]) : c = [b EXCEPT !.levels[n] = l]
    BY <2>0
  <2>2. levels[n] \in LevelRecord
    BY <1>1, <1>5, ElementOfSeq
  <2>3. l \in LevelRecord
    BY <2>2, LevelsChange
  <2> DEFINE ls == [levels EXCEPT ![n] = l]
  <2>4. ls \in Seq(LevelRecord)
    <3> DEFINE R == LevelRecord
    <3>1. levels \in Seq(R) /\ l \in R
      BY <1>1, <2>3
    <3> HIDE DEF R
    <3> QED BY <3>1, PutTyped DEF R
  <2>5. c = [b EXCEPT !.levels = ls]
    BY <2>1, <1>1 DEF levels
  <2> HIDE DEF ls
  <2> QED BY <2>4, <2>5, <1>3
<1>12. CASE \E n \in DOMAIN levels : c = [b EXCEPT !.levels = RemoveAt(@, n)]
  <2>1. PICK n \in DOMAIN levels : c = [b EXCEPT !.levels = RemoveAt(@, n)]
    BY <1>12
  <2> DEFINE ls == RemoveAt(levels, n)
  <2>2. c = [b EXCEPT !.levels = ls]
    BY <2>1 DEF levels
  <2>3. ls \in Seq(LevelRecord)
    BY <1>1, RemoveAtProperties
  <2> HIDE DEF ls
  <2> QED BY <2>2, <2>3, <1>3
<1>13. CASE 1 \in DOMAIN orders /\ c = [b EXCEPT !.orders[1].qty = 1, !.levels[1].qty = 1]
  <2> DEFINE o == [orders[1] EXCEPT !.qty = 1]
             l == [levels[1] EXCEPT !.qty = 1]
             os == [orders EXCEPT ![1] = o]
             ls == [levels EXCEPT ![1] = l]
  <2>1. c = [b EXCEPT !.orders = os, !.levels = ls]
    BY <1>13, <1>1 DEF orders, levels
  <2>2. o \in OrderRecord
    <3>1. orders[1] \in OrderRecord /\ 1 \in 0..MaxQuantity
      BY <1>13, <1>1, <1>5, ElementOfSeq, WidthAssumption
    <3> QED BY <3>1 DEF OrderRecord
  <2>3. os \in Seq(OrderRecord)
    <3> DEFINE R == OrderRecord
    <3>1. orders \in Seq(R) /\ o \in R
      BY <1>1, <2>2
    <3> HIDE DEF R, o
    <3> QED BY <3>1, PutTyped
  <2>4. ls \in Seq(LevelRecord)
    <3>1. CASE 1 \in DOMAIN levels
      <4>1. levels[1] \in LevelRecord
        BY <3>1, <1>1, <1>5, ElementOfSeq
      <4>2. l \in LevelRecord
        BY <4>1 DEF LevelRecord
      <4> DEFINE R == LevelRecord
      <4>3. levels \in Seq(R) /\ l \in R
        BY <1>1, <4>2
      <4> HIDE DEF R, l
      <4> QED BY <4>3, PutTyped DEF R
    <3>2. CASE 1 \notin DOMAIN levels
      <4>1. ls = levels
        BY <3>2, <1>1
      <4> QED BY <4>1, <1>1
    <3> QED BY <3>1, <3>2
  <2> HIDE DEF os, ls
  <2> QED BY <2>1, <2>3, <2>4, <1>4
<1> DEFINE A == {[b EXCEPT !.maxOrders = @ + 1], [b EXCEPT !.instrument = @ + 1], [b EXCEPT !.events = @ + 1], [b EXCEPT !.feed = @ + 1]}
           B == {[b EXCEPT !.next = x] : x \in 0..MaxSequence}
           C == UNION {{[b EXCEPT !.orders[n] = o] : o \in ChangedOrders(b.orders[n])} : n \in DOMAIN b.orders}
           D == {[b EXCEPT !.orders = RemoveAt(@, n)] : n \in DOMAIN b.orders}
           E == {[b EXCEPT !.orders = Reverse(@)]}
           F == UNION {{[b EXCEPT !.levels[n] = l] : l \in ChangedLevels(b.levels[n])} : n \in DOMAIN b.levels}
           G == {[b EXCEPT !.levels = RemoveAt(@, n)] : n \in DOMAIN b.levels}
           H == {[b EXCEPT !.orders[1].qty = 1, !.levels[1].qty = 1] : n \in DOMAIN b.orders \cap {1}}
<1>14. c \in A \/ c \in B \/ c \in C \/ c \in D \/ c \in E \/ c \in F \/ c \in G \/ c \in H
  <2>1. ChangedBooks(b) = A \cup B \cup C \cup D \cup E \cup F \cup G \cup H
    BY Zenon DEF ChangedBooks
  <2> HIDE DEF A, B, C, D, E, F, G, H
  <2> QED BY <2>1
<1>15. CASE c \in A
  BY <1>6, <1>15, Zenon DEF orders, levels
<1>16. CASE c \in B
  BY <1>7, <1>16, Zenon DEF orders, levels
<1>17. CASE c \in C
  BY <1>8, <1>17, Zenon DEF orders, levels
<1>18. CASE c \in D
  BY <1>9, <1>18, Zenon DEF orders, levels
<1>19. CASE c \in E
  BY <1>10, <1>19, Zenon DEF orders, levels
<1>20. CASE c \in F
  BY <1>11, <1>20, Zenon DEF orders, levels
<1>21. CASE c \in G
  BY <1>12, <1>21, Zenon DEF orders, levels
<1>22. CASE c \in H
  BY <1>13, <1>22, Zenon DEF orders, levels
<1> HIDE DEF A, B, C, D, E, F, G, H
<1> QED
  BY <1>14, <1>15, <1>16, <1>17, <1>18, <1>19, <1>20, <1>21, <1>22

(* A changed image is an image.                                            *)
LEMMA ImagesChange ==
  ASSUME NEW im \in ImageType
  PROVE  Changed(im) \subseteq ImageType
<1> DEFINE books == im.books
<1>1. /\ im.readable \in BOOLEAN /\ books \in Seq(BookRecord) /\ DOMAIN books = 1..Len(books)
      /\ im = [readable |-> im.readable, books |-> im.books]
  BY LenProperties DEF ImageType
<1> SUFFICES ASSUME NEW c \in Changed(im) PROVE c \in ImageType
  OBVIOUS
<1>2. \A bs \in Seq(BookRecord) : [im EXCEPT !.books = bs] \in ImageType
  BY DEF ImageType
<1> HIDE DEF books
<1>3. CASE c = [im EXCEPT !.readable = FALSE]
  BY <1>3 DEF ImageType
<1>4. CASE \E n \in DOMAIN books : \E b \in ChangedBooks(books[n]) : c = [im EXCEPT !.books[n] = b]
  <2>0. PICK n \in DOMAIN books : \E b \in ChangedBooks(books[n]) : c = [im EXCEPT !.books[n] = b]
    BY <1>4
  <2>1. PICK b \in ChangedBooks(books[n]) : c = [im EXCEPT !.books[n] = b]
    BY <2>0
  <2>2. books[n] \in BookRecord
    BY <1>1, ElementOfSeq
  <2>3. b \in BookRecord
    BY <2>2, BooksChange
  <2> DEFINE bs == [books EXCEPT ![n] = b]
  <2>4. bs \in Seq(BookRecord)
    <3> DEFINE R == BookRecord
    <3>1. books \in Seq(R) /\ b \in R
      BY <1>1, <2>3
    <3> HIDE DEF R
    <3> QED BY <3>1, PutTyped DEF R
  <2>5. c = [im EXCEPT !.books = bs]
    BY <2>1, <1>1 DEF books
  <2> HIDE DEF bs
  <2> QED BY <2>4, <2>5, <1>2
<1> QED
  BY <1>3, <1>4 DEF Changed, books

-----------------------------------------------------------------------------
(* Histories, and the inductive invariant                                  *)

(* Every engine of the past is one of books, the first new, all with the   *)
(* instruments configured.                                                 *)
PastIs(p) ==
  /\ p \in Seq(EngineType) /\ 1 \in DOMAIN p /\ p[1] = FreshEngine
  /\ \A k \in DOMAIN p : EngineOk(p[k]) /\ p[k].ids = Configured

(* The snapshot is that of an engine of the past.                          *)
SavedIs(p, s) == s.at \in DOMAIN p /\ s.image = Image(p[s.at])

(* A record leads from one engine of the past to the next.                 *)
RecordIs(p, r) ==
  /\ r.sequence \in DOMAIN p /\ r.sequence + 1 \in DOMAIN p /\ r.command \in Command
  /\ r = Record(p[r.sequence], r.command, r.sequence)
  /\ SameBooks(p[r.sequence + 1], Dispatch(p[r.sequence], r.command).engine)
JournalIs(p, j, w) == (\A r \in j : RecordIs(p, r)) /\ (w # NoRecord => RecordIs(p, w))

(* The live engine is the last of the past.                                *)
LiveIs(p, e, n) ==
  /\ n \in DOMAIN p /\ n = Len(p)
  /\ e.ids = Configured /\ SameBooks(e, p[n])

(* An engine recovered from what was not changed is that of the past at    *)
(* the cursor.                                                             *)
RecoveredIs(p, e, k) ==
  Range(e.ids) = Range(Configured) => k \in DOMAIN p /\ SameBooks(e, p[k])

VouchedIs(p, e, k) == k \in DOMAIN p /\ Checksum(e) = Checksum(p[k])

(* The inductive invariant.                                                *)
RecoveryInv ==
  /\ mode \in {"live", "recovering"}
  /\ EngineOk(engine) /\ PastIs(past) /\ SavedIs(past, saved) /\ JournalIs(past, journal, pending)
  /\ mode = "live" => LiveIs(past, engine, next) /\ call = "none"
  /\ mode = "recovering" => pending = NoRecord
  /\ mode = "recovering" /\ intact => RecoveredIs(past, engine, cursor)
  /\ mode = "recovering" /\ accepted /\ vouched => VouchedIs(past, engine, cursor)

(* Having the same books is symmetric.                                     *)
LEMMA SameBooksBack ==
  ASSUME NEW e, NEW f, SameBooks(e, f)
  PROVE  SameBooks(f, e)
  BY DEF SameBooks

(* Having the same books is transitive.                                    *)
LEMMA SameBooksOn ==
  ASSUME NEW e, NEW f, NEW g, SameBooks(e, f), SameBooks(f, g)
  PROVE  SameBooks(e, g)
  BY DEF SameBooks

(* The live engine before its first command.                               *)
LEMMA FreshIs == EngineOk(FreshEngine) /\ IsNew(FreshEngine, Configured) /\ FreshEngine.ids = Configured
<1> DEFINE m == Len(Configured)
<1>1. Configured \in Seq(Instrument) /\ IsConfiguration(Configured, m)
  BY CallerAssumption
<1>2. m = Len(Configured) /\ m \in 0..Len(Configured) /\ FreshEngine = Constructed(Configured, m, m)
  BY <1>1, LenProperties DEF FreshEngine
<1> HIDE DEF m
<1>3. EngineOk(FreshEngine)
  BY <1>1, <1>2, ConstructedOk
<1>4. IsNew(FreshEngine, Configured)
  BY <1>1, <1>2, ConstructedIs
<1> QED
  BY <1>3, <1>4 DEF IsNew

(* The past of a new engine.                                               *)
LEMMA PastFirst == PastIs(<<FreshEngine>>) /\ Len(<<FreshEngine>>) = 1
                   /\ 1 \in DOMAIN <<FreshEngine>> /\ <<FreshEngine>>[1] = FreshEngine
<1> DEFINE e == FreshEngine
<1>1. EngineOk(e) /\ e.ids = Configured /\ e \in EngineType
  BY FreshIs DEF EngineOk, Routed
<1>2. e = FreshEngine
  OBVIOUS
<1> HIDE DEF e
<1>3. <<e>> \in Seq(EngineType) /\ DOMAIN <<e>> = {1} /\ Len(<<e>>) = 1 /\ <<e>>[1] = e
  BY <1>1
<1>4. PastIs(<<e>>)
  BY <1>1, <1>2, <1>3 DEF PastIs
<1> QED
  BY <1>2, <1>3, <1>4

(* The inductive invariant holds at first.                                 *)
LEMMA RecoveryInit == Init => RecoveryInv
<1> SUFFICES ASSUME Init PROVE RecoveryInv
  OBVIOUS
<1>1. /\ mode = "live" /\ engine = FreshEngine /\ next = 1 /\ past = <<FreshEngine>>
      /\ journal = {} /\ pending = NoRecord /\ call = "none"
      /\ saved.image = Image(FreshEngine) /\ saved.at = 1
  BY DEF Init
<1>2. EngineOk(engine) /\ engine.ids = Configured
  BY <1>1, FreshIs
<1>3. PastIs(past) /\ Len(past) = 1 /\ 1 \in DOMAIN past /\ past[1] = FreshEngine
  BY <1>1, PastFirst
<1>4. SavedIs(past, saved)
  BY <1>1, <1>3 DEF SavedIs
<1>5. JournalIs(past, journal, pending)
  BY <1>1 DEF JournalIs
<1>6. LiveIs(past, engine, next)
  BY <1>1, <1>2, <1>3 DEF LiveIs, SameBooks
<1> QED
  BY <1>1, <1>2, <1>3, <1>4, <1>5, <1>6 DEF RecoveryInv

-----------------------------------------------------------------------------
(* The parts of the invariant through the steps.                           *)

(* q is p, and may go on.                                                  *)
Continues(p, q) == \A k \in DOMAIN p : k \in DOMAIN q /\ q[k] = p[k]

(* q is p and one more, e.                                                 *)
Longer(p, e, q) ==
  /\ PastIs(q) /\ Len(q) = Len(p) + 1 /\ DOMAIN q = 1..(Len(p) + 1) /\ Len(p) \in Nat
  /\ q[Len(p) + 1] = e /\ DOMAIN p = 1..Len(p)
  /\ Continues(p, q)

(* The past grows by the engine after a dispatch.                          *)
LEMMA PastGrows ==
  ASSUME NEW p, PastIs(p), NEW e, EngineOk(e), e.ids = Configured, NEW q, q = Append(p, e)
  PROVE  Longer(p, e, q)
<1>1. p \in Seq(EngineType) /\ e \in EngineType
  BY DEF PastIs, EngineOk, Routed
<1> DEFINE n == Len(p)
<1>2. DOMAIN p = 1..n /\ n \in Nat
  BY <1>1, LenProperties
<1>3. /\ q \in Seq(EngineType) /\ Len(q) = n + 1 /\ q[n + 1] = e
      /\ \A k \in 1..n : q[k] = p[k]
  BY <1>1, AppendProperties
<1>4. DOMAIN q = 1..(n + 1)
  BY <1>3, LenProperties
<1> HIDE DEF n
<1>5. \A k \in 1..n : k \in 1..(n + 1)
  BY <1>2
<1>6. \A k \in 1..(n + 1) : k \in 1..n \/ k = n + 1
  BY <1>2
<1>7. PastIs(q)
  BY <1>2, <1>3, <1>4, <1>5, <1>6 DEF PastIs
<1> QED
  BY <1>2, <1>3, <1>4, <1>5, <1>7 DEF n, Longer, Continues

(* What was recorded of a past is recorded of a longer one.                *)
LEMMA RecordLasts ==
  ASSUME NEW p, NEW q, Continues(p, q),
         NEW r, RecordIs(p, r)
  PROVE  RecordIs(q, r)
<1> DEFINE k == r.sequence
           m == r.sequence + 1
<1>1. /\ k \in DOMAIN p /\ m \in DOMAIN p /\ r.command \in Command
      /\ r = Record(p[k], r.command, k)
      /\ SameBooks(p[m], Dispatch(p[k], r.command).engine)
  BY DEF RecordIs
<1>2. k \in DOMAIN q /\ q[k] = p[k] /\ m \in DOMAIN q /\ q[m] = p[m]
  BY <1>1 DEF Continues
<1> QED
  BY <1>1, <1>2 DEF RecordIs

(* A snapshot of the past is one of a longer past.                         *)
LEMMA SavedLasts ==
  ASSUME NEW p, NEW q, Continues(p, q),
         NEW s, SavedIs(p, s)
  PROVE  SavedIs(q, s)
  BY DEF SavedIs, Continues

(* Engines with the same books at the same indices have the same image.    *)
LEMMA SameImage ==
  ASSUME NEW e, EngineOk(e), NEW f, EngineOk(f), e.ids = f.ids, SameBooks(e, f)
  PROVE  Image(e) = Image(f)
<1>1. ASSUME NEW n \in DOMAIN e.ids PROVE e.held[n] = f.held[n]
  <2>1. Held(e, e.ids[n]) = e.held[n] /\ e.ids[n] \in Range(e.ids)
    BY HeldIs
  <2>2. n \in DOMAIN f.ids
    OBVIOUS
  <2>3. Held(f, f.ids[n]) = f.held[n]
    BY <2>2, HeldIs
  <2> QED BY <2>1, <2>3 DEF SameBooks
<1>2. [n \in DOMAIN e.ids |-> BookImage(e.ids[n], e.held[n])] = [n \in DOMAIN f.ids |-> BookImage(f.ids[n], f.held[n])]
  BY <1>1
<1> QED
  BY <1>2 DEF Image

(* The past p goes on to q with engine f, along record r.                  *)
LedTo(p, n, q, f, r) ==
  /\ EngineOk(f) /\ PastIs(q) /\ LiveIs(q, f, n + 1) /\ RecordIs(q, r)
  /\ Continues(p, q)

(* A command dispatched by the last engine of the past.                    *)
LEMMA DispatchLeads ==
  ASSUME NEW p, PastIs(p), NEW e, EngineOk(e), NEW n, LiveIs(p, e, n),
         NEW c \in Command, NEW f, f = Dispatch(e, c).engine, NEW q, q = Append(p, f),
         NEW r, r = Record(e, c, n)
  PROVE  LedTo(p, n, q, f, r)
<1>1. EngineOk(f) /\ SameRoutes(e, f)
  BY DispatchOk
<1>2. /\ n \in DOMAIN p /\ n = Len(p) /\ e.ids = Configured /\ SameBooks(e, p[n])
      /\ EngineOk(p[n])
  BY DEF LiveIs, PastIs
<1>3. f.ids = Configured
  BY <1>1, <1>2 DEF SameRoutes
<1>4. /\ PastIs(q) /\ Len(q) = n + 1 /\ DOMAIN q = 1..(n + 1) /\ n \in Nat
      /\ q[n + 1] = f /\ DOMAIN p = 1..n
      /\ \A k \in DOMAIN p : k \in DOMAIN q /\ q[k] = p[k]
  <2>1. Longer(p, f, q)
    BY <1>1, <1>3, PastGrows
  <2> QED BY <2>1, <1>2 DEF Longer, Continues
<1>5. n + 1 \in DOMAIN q
  BY <1>4
<1>6. LiveIs(q, f, n + 1)
  BY <1>3, <1>4, <1>5 DEF LiveIs, SameBooks
<1> DEFINE d == p[n]
<1>7. EngineOk(d) /\ SameBooks(e, d) /\ q[n] = d /\ n \in DOMAIN q
  BY <1>2, <1>4
<1> HIDE DEF d
<1>8. Record(e, c, n) = Record(d, c, n) /\ SameBooks(Dispatch(e, c).engine, Dispatch(d, c).engine)
  BY <1>1, <1>7, SameRecord
<1>9. r.sequence = n /\ r.command = c
  BY DEF Record, RecordOf
<1>10. RecordIs(q, r)
  BY <1>4, <1>5, <1>7, <1>8, <1>9 DEF RecordIs
<1> QED
  BY <1>1, <1>4, <1>6, <1>10 DEF LedTo, Continues

(* A recovery that starts over has the books of the start, if it has the   *)
(* instruments.                                                            *)
LEMMA StartsOver ==
  ASSUME NEW p, PastIs(p), NEW ids \in Lists, NEW lasts \in 0..Len(ids),
         NEW e, e = Constructed(ids, Len(Configured), lasts)
  PROVE  EngineOk(e) /\ RecoveredIs(p, e, 1)
<1> DEFINE m == Len(Configured)
           f == FreshEngine
<1>1. ids \in Seq(Instrument) /\ m = Len(Configured) /\ e = Constructed(ids, m, lasts)
  BY CallerAssumption
<1> HIDE DEF m
<1>2. EngineOk(e) /\ (e = FailedEngine \/ IsNew(e, ids))
  BY <1>1, ConstructedOk
<1>3. 1 \in DOMAIN p /\ p[1] = f
  BY DEF PastIs
<1>4. EngineOk(f) /\ IsNew(f, Configured) /\ f.ids = Configured
  BY FreshIs
<1> HIDE DEF f
<1>5. ASSUME Range(e.ids) = Range(Configured) PROVE SameBooks(e, f)
  <2> SUFFICES ASSUME NEW i \in Range(e.ids) PROVE Held(e, i) = Held(f, i)
    BY <1>4, <1>5 DEF SameBooks
  <2>1. PICK n \in DOMAIN e.ids : i = e.ids[n] /\ Held(e, i) = e.held[n]
    BY <1>2, FoundAt
  <2>2. i \in Range(f.ids)
    BY <1>4, <1>5
  <2>3. PICK k \in DOMAIN f.ids : i = f.ids[k] /\ Held(f, i) = f.held[k]
    BY <2>2, <1>4, FoundAt
  <2>4. f.held[k] = EmptyHeld
    <3>1. f.held \in Seq(HeldType) /\ f.ids \in Seq(Instrument) /\ Len(f.held) = Len(f.ids)
      BY <1>4 DEF EngineOk, Routed, EngineType
    <3>2. DOMAIN f.held = DOMAIN f.ids
      BY <3>1, LenProperties
    <3> QED BY <3>2, <1>4 DEF IsNew
  <2>5. e.held[n] = EmptyHeld
    <3>1. e # FailedEngine
      <4>1. CASE e = FailedEngine
        <5>1. e.ids = <<>>
          BY <4>1, FailedRouted
        <5> QED BY <5>1, <2>1
      <4> QED BY <4>1
    <3>2. e.held \in Seq(HeldType) /\ e.ids \in Seq(Instrument) /\ Len(e.held) = Len(e.ids)
      BY <1>2 DEF EngineOk, Routed, EngineType
    <3>3. DOMAIN e.held = DOMAIN e.ids
      BY <3>2, LenProperties
    <3> QED BY <3>1, <3>3, <1>2 DEF IsNew
  <2> QED BY <2>1, <2>3, <2>4, <2>5
<1> QED
  BY <1>2, <1>3, <1>5 DEF RecoveredIs

(* What a restore of an image that may have been changed leads to.         *)
LEMMA RestoreLeads ==
  ASSUME NEW p, PastIs(p), NEW s, SavedIs(p, s), NEW e, EngineOk(e),
         NEW im \in {s.image} \cup Changed(s.image), NEW x, x = Restore(e, im)
  PROVE  /\ EngineOk(x.engine) /\ im \in ImageType
         /\ x.status # "Accepted" => x.engine = e
         /\ x.status = "Accepted" /\ im = s.image => RecoveredIs(p, x.engine, s.at)
<1> DEFINE f == p[s.at]
           old == s.image
<1>1. s.at \in DOMAIN p /\ EngineOk(f) /\ f.ids = Configured /\ old = Image(f)
  BY DEF SavedIs, PastIs
<1> HIDE DEF f, old
<1>2. old \in ImageType
  BY <1>1, ImageTyped
<1>3. im \in ImageType
  <2>1. Changed(old) \subseteq ImageType
    BY <1>2, ImagesChange
  <2> QED BY <1>2, <2>1 DEF old
<1>4. RestoreOutcome(e, im, x)
  BY <1>3, RestoreIs
<1>5. EngineOk(x.engine)
  BY <1>4 DEF RestoreOutcome
<1>6. x.status # "Accepted" => x.engine = e
  BY <1>3, RefusedChangesNothing
<1>7. ASSUME x.status = "Accepted", im = old PROVE RecoveredIs(p, x.engine, s.at)
  <2>1. im = Image(f)
    BY <1>1, <1>7
  <2>2. SameBooks(x.engine, f)
    BY <2>1, <1>1, <1>7, RestoredSame
  <2> QED BY <2>2, <1>1 DEF RecoveredIs, f
<1> QED
  BY <1>3, <1>5, <1>6, <1>7 DEF old

(* A record that was reproduced leads on.                                  *)
LEMMA ReplayLeads ==
  ASSUME NEW p, PastIs(p), NEW r, RecordIs(p, r), NEW e, EngineOk(e),
         NEW f, f = Dispatch(e, r.command).engine
  PROVE  /\ EngineOk(f) /\ f.ids = e.ids
         /\ r.sequence \in DOMAIN p /\ r.sequence + 1 \in DOMAIN p
         /\ Agrees(r, Record(e, r.command, r.sequence)) => VouchedIs(p, f, r.sequence + 1)
         /\ SameBooks(e, p[r.sequence]) => /\ SameBooks(f, p[r.sequence + 1])
                                           /\ Agrees(r, Record(e, r.command, r.sequence))
<1> DEFINE k == r.sequence
           c == r.command
           g == p[k]
           h == p[k + 1]
           d == Dispatch(g, c).engine
<1>1. /\ k \in DOMAIN p /\ k + 1 \in DOMAIN p /\ c \in Command
      /\ r = Record(g, c, k) /\ SameBooks(h, d)
      /\ EngineOk(g) /\ EngineOk(h)
  BY DEF RecordIs, PastIs
<1>2. f = Dispatch(e, c).engine /\ d = Dispatch(g, c).engine
  OBVIOUS
<1> HIDE DEF k, c, g, h, d
<1>3. EngineOk(f) /\ SameRoutes(e, f)
  BY <1>1, <1>2, DispatchOk
<1>4. ASSUME Agrees(r, Record(e, c, k)) PROVE VouchedIs(p, f, k + 1)
  <2>1. Record(e, c, k).after = r.after
    BY <1>4 DEF Agrees, Record, RecordOf
  <2>2. Record(e, c, k).after = Checksum(f)
    BY <1>2 DEF Record, RecordOf
  <2>3. r.after = Checksum(d)
    BY <1>1, <1>2 DEF Record, RecordOf
  <2>4. Checksum(h) = Checksum(d)
    BY <1>1, SameChecksum
  <2> QED BY <1>1, <2>1, <2>2, <2>3, <2>4 DEF VouchedIs, h
<1>5. ASSUME SameBooks(e, g) PROVE SameBooks(f, h) /\ Agrees(r, Record(e, c, k))
  <2>1. Record(e, c, k) = Record(g, c, k) /\ SameBooks(Dispatch(e, c).engine, Dispatch(g, c).engine)
    BY <1>1, <1>5, SameRecord
  <2>2. SameBooks(f, d) /\ SameBooks(d, h)
    BY <2>1, <1>1, <1>2, SameBooksBack
  <2>3. SameBooks(f, h)
    BY <2>2, SameBooksOn
  <2>4. Agrees(r, r)
    BY <1>1 DEF Agrees, Record, RecordOf
  <2> QED BY <2>1, <2>3, <2>4, <1>1
<1> QED
  BY <1>1, <1>3, <1>4, <1>5 DEF SameRoutes, k, c, g, h

(* q is p up to n.                                                         *)
Shorter(p, n, q) ==
  /\ PastIs(q) /\ Len(q) = n /\ DOMAIN q = 1..n /\ n \in Nat
  /\ \A k \in DOMAIN q : q[k] = p[k]

(* Going on from a recovery leaves a shorter past.                         *)
LEMMA PastShortens ==
  ASSUME NEW p, PastIs(p), NEW n \in DOMAIN p, NEW q, q = SubSeq(p, 1, n)
  PROVE  Shorter(p, n, q)
<1>1. p \in Seq(EngineType) /\ DOMAIN p = 1..Len(p) /\ Len(p) \in Nat
  BY LenProperties DEF PastIs
<1>2. n \in 1..Len(p)
  BY <1>1
<1>3. Len(q) = n /\ \A k \in 1..n : q[k] = p[k]
  BY <1>1, <1>2
<1>4. q \in Seq(EngineType)
  BY <1>1, <1>2
<1>5. DOMAIN q = 1..n
  BY <1>3, <1>4, LenProperties
<1>6. PastIs(q)
  <2>1. \A k \in 1..n : k \in DOMAIN p
    BY <1>1, <1>2
  <2>2. 1 \in 1..n
    BY <1>2
  <2> QED BY <1>3, <1>4, <1>5, <2>1, <2>2 DEF PastIs
<1> QED
  BY <1>1, <1>2, <1>3, <1>5, <1>6 DEF Shorter

-----------------------------------------------------------------------------
(* The actions                                                             *)

(* The actions, one by one.                                                *)
LEMMA RecordStep ==
  ASSUME RecoveryInv, NEW c, DispatchAndRecord(c)
  PROVE  RecoveryInv'
<1>1. /\ mode = "live" /\ pending = NoRecord /\ next \in DOMAIN Script /\ c \in Script[next]
      /\ engine' = Dispatch(engine, c).engine /\ pending' = Record(engine, c, next)
      /\ next' = next + 1 /\ past' = Append(past, engine')
      /\ mode' = mode /\ journal' = journal /\ saved' = saved /\ call' = call
  BY DEF DispatchAndRecord, replay
<1>2. /\ EngineOk(engine) /\ PastIs(past) /\ SavedIs(past, saved) /\ JournalIs(past, journal, pending)
      /\ LiveIs(past, engine, next) /\ call = "none"
  BY <1>1 DEF RecoveryInv
<1>3. c \in Command
  <2>1. Script \in Seq(SUBSET Command)
    BY CallerAssumption
  <2>2. Script[next] \in SUBSET Command
    <3>1. next \in 1..Len(Script)
      BY <1>1, <2>1, LenProperties
    <3> QED BY <2>1, <3>1, ElementOfSeq
  <2> QED BY <1>1, <2>2
<1>4. /\ EngineOk(engine') /\ PastIs(past') /\ LiveIs(past', engine', next + 1) /\ RecordIs(past', pending')
      /\ Continues(past, past')
  <2> DEFINE f == engine'
             q == past'
             r == pending'
  <2>1. f = Dispatch(engine, c).engine /\ q = Append(past, f) /\ r = Record(engine, c, next)
    BY <1>1
  <2> HIDE DEF f, q, r
  <2>2. LedTo(past, next, q, f, r)
    BY <2>1, <1>2, <1>3, DispatchLeads
  <2> QED BY <2>2 DEF LedTo, f, q, r
<1> DEFINE p == past
           q == past'
<1>5. Continues(p, q)
  BY <1>4
<1>6. SavedIs(p, saved) /\ \A r \in journal : RecordIs(p, r)
  BY <1>2 DEF JournalIs
<1> HIDE DEF p, q
<1>7. SavedIs(q, saved)
  BY <1>5, <1>6, SavedLasts
<1>8. \A r \in journal : RecordIs(q, r)
  BY <1>5, <1>6, RecordLasts
<1>9. JournalIs(q, journal', pending')
  BY <1>1, <1>4, <1>8 DEF JournalIs, q
<1> QED
  BY <1>1, <1>2, <1>4, <1>7, <1>9 DEF RecoveryInv, q

(* A record becomes durable.                                               *)
LEMMA PersistStep ==
  ASSUME RecoveryInv, Persist
  PROVE  RecoveryInv'
<1>1. /\ mode = "live" /\ pending # NoRecord /\ journal' = journal \cup {pending} /\ pending' = NoRecord
      /\ mode' = mode /\ engine' = engine /\ next' = next /\ past' = past /\ saved' = saved /\ call' = call
  BY DEF Persist, memory, replay
<1>2. JournalIs(past, journal', pending')
  <2>1. JournalIs(past, journal, pending)
    BY DEF RecoveryInv
  <2> QED BY <1>1, <2>1 DEF JournalIs
<1> QED
  BY <1>1, <1>2 DEF RecoveryInv

(* The live engine's snapshot is that of the last engine of the past.      *)
LEMMA SnapshotStep ==
  ASSUME RecoveryInv, TakeSnapshot
  PROVE  RecoveryInv'
<1>1. /\ mode = "live" /\ saved' = [image |-> Image(engine), at |-> next]
      /\ mode' = mode /\ engine' = engine /\ next' = next /\ past' = past
      /\ journal' = journal /\ pending' = pending /\ call' = call
  BY DEF TakeSnapshot, memory, replay
<1>2. EngineOk(engine) /\ PastIs(past) /\ LiveIs(past, engine, next)
  BY <1>1 DEF RecoveryInv
<1>3. SavedIs(past, saved')
  <2> DEFINE f == past[next]
  <2>1. next \in DOMAIN past /\ EngineOk(f) /\ engine.ids = f.ids /\ SameBooks(engine, f)
    BY <1>2 DEF LiveIs, PastIs
  <2> HIDE DEF f
  <2>2. Image(engine) = Image(f)
    BY <1>2, <2>1, SameImage
  <2>3. saved'.image = Image(engine) /\ saved'.at = next
    BY <1>1
  <2> QED BY <2>1, <2>2, <2>3 DEF SavedIs, f
<1> QED
  BY <1>1, <1>3 DEF RecoveryInv

(* Crash and Construct. *)
LEMMA StartOverStep ==
  ASSUME RecoveryInv, NEW ids \in Lists, NEW lasts \in 0..Len(ids), StartOver(ids, lasts), pending' = NoRecord
  PROVE  RecoveryInv'
<1>1. /\ mode' = "recovering" /\ engine' = Constructed(ids, Len(Configured), lasts)
      /\ cursor' = 1 /\ vouched' = FALSE
      /\ past' = past /\ journal' = journal /\ saved' = saved
  BY DEF StartOver
<1>2. PastIs(past) /\ SavedIs(past, saved) /\ JournalIs(past, journal, pending)
  BY DEF RecoveryInv
<1>3. EngineOk(engine') /\ RecoveredIs(past, engine', 1)
  <2> DEFINE e == engine'
  <2>1. e = Constructed(ids, Len(Configured), lasts)
    BY <1>1
  <2> HIDE DEF e
  <2>2. EngineOk(e) /\ RecoveredIs(past, e, 1)
    BY <1>2, <2>1, StartsOver
  <2> QED BY <2>2 DEF e
<1>4. JournalIs(past, journal, pending')
  BY <1>2 DEF JournalIs
<1> QED
  BY <1>1, <1>2, <1>3, <1>4 DEF RecoveryInv

(* A restore, of the snapshot as saved or changed: accepted, it leads to   *)
(* the past it was taken from or vouches for nothing; refused, it          *)
(* changes nothing.                                                        *)
LEMMA RestoreStep ==
  ASSUME RecoveryInv, NEW im \in {saved.image} \cup Changed(saved.image), RestoreSaved(im)
  PROVE  RecoveryInv' /\ (~accepted' => engine' = engine)
<1> DEFINE x == Restore(engine, im)
<1>1. /\ mode = "recovering" /\ engine' = x.engine
      /\ accepted' = (x.status = "Accepted")
      /\ IF accepted'
         THEN cursor' = saved.at /\ intact' = (im = saved.image) /\ vouched' = FALSE
         ELSE cursor' = cursor /\ intact' = intact /\ vouched' = vouched
      /\ mode' = mode /\ past' = past /\ journal' = journal /\ pending' = pending /\ saved' = saved
  BY DEF RestoreSaved, storage
<1>2. /\ EngineOk(engine) /\ PastIs(past) /\ SavedIs(past, saved) /\ JournalIs(past, journal, pending)
      /\ pending = NoRecord /\ (intact => RecoveredIs(past, engine, cursor))
  BY <1>1 DEF RecoveryInv
<1>3. x = Restore(engine, im)
  OBVIOUS
<1> HIDE DEF x
<1>4. /\ EngineOk(x.engine)
      /\ x.status # "Accepted" => x.engine = engine
      /\ x.status = "Accepted" /\ im = saved.image => RecoveredIs(past, x.engine, saved.at)
  BY <1>2, <1>3, RestoreLeads
<1>5. CASE x.status = "Accepted"
  <2>1. accepted' /\ cursor' = saved.at /\ intact' = (im = saved.image) /\ vouched' = FALSE
    BY <1>1, <1>5
  <2>2. intact' => RecoveredIs(past, engine', cursor')
    BY <2>1, <1>1, <1>4, <1>5
  <2> QED BY <1>1, <1>2, <1>4, <2>1, <2>2 DEF RecoveryInv
<1>6. CASE x.status # "Accepted"
  <2>1. ~accepted' /\ cursor' = cursor /\ intact' = intact /\ engine' = engine
    BY <1>1, <1>4, <1>6
  <2> QED BY <1>1, <1>2, <2>1 DEF RecoveryInv
<1> QED
  BY <1>5, <1>6

(* A record is replayed: a recovered engine reproduces the record that     *)
(* is due, and any engine that does has the checksum of the past.          *)
LEMMA ReplayStep ==
  ASSUME RecoveryInv, NEW r \in journal, ReplayRecord(r)
  PROVE  RecoveryInv'
<1>1. /\ mode = "recovering" /\ mode' = mode /\ past' = past /\ journal' = journal
      /\ pending' = pending /\ saved' = saved /\ intact' = intact
  BY DEF ReplayRecord, storage
<1>2. /\ EngineOk(engine) /\ PastIs(past) /\ SavedIs(past, saved) /\ JournalIs(past, journal, pending)
      /\ pending = NoRecord /\ (intact => RecoveredIs(past, engine, cursor))
  BY <1>1 DEF RecoveryInv
<1>3. RecordIs(past, r)
  BY <1>2 DEF JournalIs
<1> DEFINE f == Dispatch(engine, r.command).engine
           k == r.sequence
<1>4. f = Dispatch(engine, r.command).engine
  OBVIOUS
<1> HIDE DEF f
<1>5. /\ EngineOk(f) /\ f.ids = engine.ids
      /\ k \in DOMAIN past /\ k + 1 \in DOMAIN past
      /\ IsReproduced(r) => VouchedIs(past, f, k + 1)
      /\ SameBooks(engine, past[k]) => SameBooks(f, past[k + 1]) /\ IsReproduced(r)
  BY <1>2, <1>3, <1>4, ReplayLeads DEF IsReproduced
<1>6. CASE ~IsDue(r)
  <2>1. ~accepted' /\ engine' = engine /\ cursor' = cursor
    BY <1>6 DEF ReplayRecord
  <2> QED BY <1>1, <1>2, <2>1 DEF RecoveryInv
<1>7. CASE IsDue(r)
  <2>1. k = cursor
    BY <1>7 DEF IsDue
  <2>2. intact => (Range(f.ids) = Range(Configured) => SameBooks(f, past[k + 1]) /\ IsReproduced(r))
    BY <1>2, <1>5, <2>1 DEF RecoveredIs
  <2>3. CASE IsReproduced(r)
    <3>1. engine' = f /\ cursor' = k + 1
      BY <1>7, <2>1, <2>3 DEF ReplayRecord, f
    <3>2. intact' => RecoveredIs(past, engine', cursor')
      BY <1>1, <1>5, <2>2, <3>1 DEF RecoveredIs
    <3>3. VouchedIs(past, engine', cursor')
      BY <1>5, <2>3, <3>1
    <3> QED BY <1>1, <1>2, <1>5, <3>1, <3>2, <3>3 DEF RecoveryInv
  <2>4. CASE ~IsReproduced(r)
    <3>1. engine' = f /\ ~accepted'
      BY <1>7, <2>4 DEF ReplayRecord, f
    <3>2. intact' => RecoveredIs(past, engine', cursor')
      BY <1>1, <2>2, <2>4, <3>1 DEF RecoveredIs
    <3> QED BY <1>1, <1>2, <1>5, <3>1, <3>2 DEF RecoveryInv
  <2> QED BY <2>3, <2>4
<1> QED
  BY <1>6, <1>7

(* A torn record changes nothing.                                          *)
LEMMA TornStep ==
  ASSUME RecoveryInv, ReplayTorn
  PROVE  RecoveryInv'
  BY DEF ReplayTorn, RecoveryInv, memory, storage

(* The caller goes on: the recovered engine is the last of a past that     *)
(* ends at the cursor.                                                     *)
LEMMA ResumeStep ==
  ASSUME RecoveryInv, Resume
  PROVE  RecoveryInv'
<1>1. /\ mode = "recovering" /\ accepted /\ intact /\ engine.ids = Configured
      /\ saved.at <= cursor /\ \A r \in journal : r.sequence < cursor
      /\ mode' = "live" /\ next' = cursor /\ past' = SubSeq(past, 1, cursor) /\ call' = "none"
      /\ engine' = engine /\ journal' = journal /\ pending' = pending /\ saved' = saved
  BY DEF Resume, storage
<1>2. /\ EngineOk(engine) /\ PastIs(past) /\ SavedIs(past, saved) /\ JournalIs(past, journal, pending)
      /\ pending = NoRecord /\ RecoveredIs(past, engine, cursor)
  BY <1>1 DEF RecoveryInv
<1> DEFINE p == past
           q == past'
           n == cursor
<1>3. n \in DOMAIN p /\ SameBooks(engine, p[n]) /\ q = SubSeq(p, 1, n) /\ PastIs(p)
  BY <1>1, <1>2 DEF RecoveredIs
<1>4. \A k \in DOMAIN p : k \in Nat /\ k >= 1
  BY <1>2, LenProperties DEF PastIs
<1>5. SavedIs(p, saved) /\ saved.at <= n /\ \A r \in journal : RecordIs(p, r) /\ r.sequence < n
  BY <1>1, <1>2 DEF JournalIs
<1> HIDE DEF p, q, n
<1>6. /\ PastIs(q) /\ Len(q) = n /\ DOMAIN q = 1..n /\ n \in Nat
      /\ \A k \in DOMAIN q : q[k] = p[k]
  <2>1. Shorter(p, n, q)
    BY <1>3, PastShortens
  <2> QED BY <2>1 DEF Shorter
<1>7. SavedIs(q, saved)
  <2>1. saved.at \in DOMAIN p /\ saved.image = Image(p[saved.at])
    BY <1>5 DEF SavedIs
  <2>2. saved.at \in DOMAIN q
    BY <1>4, <1>5, <1>6, <2>1
  <2>3. q[saved.at] = p[saved.at]
    BY <2>2, <1>6
  <2> QED BY <2>1, <2>2, <2>3 DEF SavedIs
<1>8. ASSUME NEW r \in journal PROVE RecordIs(q, r)
  <2> DEFINE k == r.sequence
             m == r.sequence + 1
  <2>1. /\ k \in DOMAIN p /\ m \in DOMAIN p /\ r.command \in Command
        /\ r = Record(p[k], r.command, k)
        /\ SameBooks(p[m], Dispatch(p[k], r.command).engine)
    BY <1>5 DEF RecordIs
  <2>2. k \in 1..n /\ m \in 1..n
    BY <1>4, <1>5, <1>6, <2>1
  <2>3. q[k] = p[k] /\ q[m] = p[m] /\ k \in DOMAIN q /\ m \in DOMAIN q
    BY <2>2, <1>6
  <2> QED BY <2>1, <2>3 DEF RecordIs
<1>9. JournalIs(q, journal, pending)
  BY <1>2, <1>8 DEF JournalIs
<1>10. LiveIs(q, engine, n)
  <2>1. n \in DOMAIN q
    BY <1>3, <1>4, <1>6
  <2> QED BY <1>1, <1>3, <1>6, <2>1 DEF LiveIs
<1> QED
  BY <1>1, <1>2, <1>6, <1>7, <1>9, <1>10 DEF RecoveryInv, q, n

-----------------------------------------------------------------------------
(* The theorems                                                            *)

(* Every step preserves the inductive invariant.                           *)
LEMMA RecoveryNext == RecoveryInv /\ [Next]_vars => RecoveryInv'
<1> SUFFICES ASSUME RecoveryInv, [Next]_vars PROVE RecoveryInv'
  OBVIOUS
<1>1. CASE \E c \in UNION Range(Script) : DispatchAndRecord(c)
  BY <1>1, RecordStep
<1>2. CASE Persist
  BY <1>2, PersistStep
<1>3. CASE TakeSnapshot
  BY <1>3, SnapshotStep
<1>4. CASE \E ids \in Lists : \E lasts \in 0..Len(ids) : Crash(ids, lasts) \/ Construct(ids, lasts)
  <2>1. PICK ids \in Lists : \E lasts \in 0..Len(ids) : Crash(ids, lasts) \/ Construct(ids, lasts)
    BY <1>4
  <2>2. PICK lasts \in 0..Len(ids) : Crash(ids, lasts) \/ Construct(ids, lasts)
    BY <2>1
  <2>3. StartOver(ids, lasts) /\ pending' = NoRecord
    <3>1. CASE Crash(ids, lasts)
      BY <3>1 DEF Crash
    <3>2. CASE Construct(ids, lasts)
      BY <3>2 DEF Construct, RecoveryInv
    <3> QED BY <2>2, <3>1, <3>2
  <2> QED BY <2>3, StartOverStep
<1>5. CASE \E im \in {saved.image} \cup Changed(saved.image) : RestoreSaved(im)
  BY <1>5, RestoreStep
<1>6. CASE \E r \in journal : ReplayRecord(r)
  BY <1>6, ReplayStep
<1>7. CASE ReplayTorn
  BY <1>7, TornStep
<1>8. CASE Resume
  BY <1>8, ResumeStep
<1>9. CASE UNCHANGED vars
  BY <1>9 DEF vars, memory, storage, replay, RecoveryInv
<1> QED
  BY <1>1, <1>2, <1>3, <1>4, <1>5, <1>6, <1>7, <1>8, <1>9 DEF Next

(* The inductive invariant of journal, snapshot and recovery holds         *)
(* throughout.                                                             *)
THEOREM RecoveryInvHolds == Spec => []RecoveryInv
  BY RecoveryInit, RecoveryNext, PTL DEF Spec

(* Every engine that is, was restored or was replayed into holds books.    *)
THEOREM BooksStayBooksHolds == Spec => []BooksStayBooks
<1>1. RecoveryInv => BooksStayBooks
  <2> SUFFICES ASSUME RecoveryInv, NEW n \in DOMAIN engine.ids
               PROVE  IsBook(engine.ids[n], engine.held[n])
    BY DEF BooksStayBooks
  <2>1. EngineOk(engine)
    BY DEF RecoveryInv
  <2> DEFINE i == engine.ids[n]
             h == engine.held[n]
  <2>2. i \in Instrument /\ HeldOk(i, h)
    BY <2>1, HeldIs
  <2> HIDE DEF i, h
  <2>3. IsBook(i, h)
    BY <2>2, OkIsBook
  <2> QED BY <2>3 DEF i, h
<1> QED
  BY <1>1, RecoveryInvHolds, PTL

(* An engine finds exactly the instruments it was constructed with,        *)
(* whatever the hash and however full the lookup table.                    *)
THEOREM RoutesAreExactHolds == Spec => []RoutesAreExact
<1>1. RecoveryInv => RoutesAreExact
  <2> SUFFICES ASSUME RecoveryInv PROVE RoutesAreExact
    OBVIOUS
  <2>1. Routed(engine)
    BY DEF RecoveryInv, EngineOk
  <2>2. ASSUME NEW i \in Instrument
        PROVE  IF i \in Range(engine.ids)
               THEN LookupIndex(engine, i) \in DOMAIN engine.ids /\ engine.ids[LookupIndex(engine, i)] = i
               ELSE LookupIndex(engine, i) = 0
    BY <2>1, RoutesLead
  <2>3. ~engine.valid => engine.ids = <<>>
    BY <2>1 DEF Routed
  <2> QED BY <2>2, <2>3 DEF RoutesAreExact
<1> QED
  BY <1>1, RecoveryInvHolds, PTL

(* A recovery from nothing or from the snapshot as saved holds the books   *)
(* that were lost, to the last counter, after every crash, refusal and     *)
(* replay.                                                                 *)
THEOREM RecoveryIsExactHolds == Spec => []RecoveryIsExact
<1>1. RecoveryInv => RecoveryIsExact
  <2> SUFFICES ASSUME RecoveryInv, mode = "recovering", intact, Range(engine.ids) = Range(Configured)
               PROVE  BooksOf(engine) = BooksOf(past[cursor])
    BY DEF RecoveryIsExact, Recovered
  <2> DEFINE e == engine
             f == past[cursor]
  <2>1. EngineOk(e) /\ PastIs(past) /\ RecoveredIs(past, engine, cursor)
    BY DEF RecoveryInv
  <2>2. EngineOk(f) /\ SameBooks(e, f)
    BY <2>1 DEF RecoveredIs, PastIs
  <2> HIDE DEF e, f
  <2>3. BooksOf(e) \subseteq BooksOf(f)
    BY <2>1, <2>2, SameBooksOf
  <2>4. SameBooks(f, e)
    BY <2>2, SameBooksBack
  <2>5. BooksOf(f) \subseteq BooksOf(e)
    BY <2>1, <2>2, <2>4, SameBooksOf
  <2>6. BooksOf(e) = BooksOf(f)
    BY <2>3, <2>5
  <2> QED BY <2>6 DEF e, f
<1> QED
  BY <1>1, RecoveryInvHolds, PTL

(* An accepted record proves the engine to be the one that was lost but    *)
(* for event numbers, even where the snapshot had been changed.            *)
THEOREM ReplayVouchesHolds == Spec => []ReplayVouches
<1>1. RecoveryInv => ReplayVouches
  <2> SUFFICES ASSUME RecoveryInv, mode = "recovering", accepted, vouched
               PROVE  Unnumbered(engine) = Unnumbered(past[cursor])
    BY DEF ReplayVouches, Recovered
  <2> DEFINE e == engine
             f == past[cursor]
  <2>1. EngineOk(e) /\ PastIs(past) /\ VouchedIs(past, engine, cursor)
    BY DEF RecoveryInv
  <2>2. EngineOk(f) /\ Checksum(e) = Checksum(f)
    BY <2>1 DEF VouchedIs, PastIs
  <2> HIDE DEF e, f
  <2>3. Unnumbered(e) \subseteq Unnumbered(f)
    BY <2>1, <2>2, SameUnnumbered
  <2>4. Checksum(f) = Checksum(e)
    BY <2>2
  <2>5. Unnumbered(f) \subseteq Unnumbered(e)
    BY <2>1, <2>2, <2>4, SameUnnumbered
  <2>6. Unnumbered(e) = Unnumbered(f)
    BY <2>3, <2>5
  <2> QED BY <2>6 DEF e, f
<1> QED
  BY <1>1, RecoveryInvHolds, PTL

(* A restore that is refused leaves the engine as it was: validation       *)
(* refuses before any book is touched, and refuses all that the restore    *)
(* of the books could.                                                     *)
THEOREM RestoreIsAllOrNothingHolds == Spec => RestoreIsAllOrNothing
<1> DEFINE AllOrNothing == call' = "restore" /\ ~accepted' => engine' = engine
<1>1. RecoveryInv /\ [Next]_vars => [AllOrNothing]_vars
  <2> SUFFICES ASSUME RecoveryInv, Next, call' = "restore", ~accepted' PROVE engine' = engine
    OBVIOUS
  <2>1. mode = "live" => call = "none"
    BY DEF RecoveryInv
  <2>2. CASE \E c \in UNION Range(Script) : DispatchAndRecord(c)
    BY <2>1, <2>2 DEF DispatchAndRecord, replay
  <2>3. CASE Persist \/ TakeSnapshot
    BY <2>3 DEF Persist, TakeSnapshot, memory
  <2>4. CASE \E ids \in Lists : \E lasts \in 0..Len(ids) : Crash(ids, lasts) \/ Construct(ids, lasts)
    BY <2>4 DEF Crash, Construct, StartOver
  <2>5. CASE \E im \in {saved.image} \cup Changed(saved.image) : RestoreSaved(im)
    BY <2>5, RestoreStep
  <2>6. CASE \E r \in journal : ReplayRecord(r)
    BY <2>6 DEF ReplayRecord
  <2>7. CASE ReplayTorn \/ Resume
    BY <2>7 DEF ReplayTorn, Resume
  <2> QED BY <2>2, <2>3, <2>4, <2>5, <2>6, <2>7 DEF Next
<1> QED
  BY <1>1, RecoveryInvHolds, PTL DEF Spec, RestoreIsAllOrNothing

(* What serialize wrote, restore accepts: validation never refuses the     *)
(* saved snapshot of an engine with the same instruments.                  *)
SavedIsRestorable ==
  engine.valid /\ engine.ids = Configured => Restore(engine, saved.image).status = "Accepted"

(* The saved snapshot, unchanged, is accepted by every engine with the     *)
(* instruments of the live one, whatever the engine has been through.      *)
THEOREM SavedIsRestorableHolds == Spec => []SavedIsRestorable
<1>1. RecoveryInv => SavedIsRestorable
  <2> SUFFICES ASSUME RecoveryInv, engine.valid, engine.ids = Configured
               PROVE  Restore(engine, saved.image).status = "Accepted"
    BY DEF SavedIsRestorable
  <2>1. EngineOk(engine) /\ PastIs(past) /\ SavedIs(past, saved)
    BY DEF RecoveryInv
  <2> DEFINE p == past[saved.at]
             im == saved.image
  <2>2. EngineOk(p) /\ p.ids = engine.ids /\ im = Image(p)
    BY <2>1 DEF PastIs, SavedIs
  <2> HIDE DEF p, im
  <2>3. Restore(engine, im).status = "Accepted"
    BY <2>1, <2>2, ImageIsRestored
  <2> QED BY <2>3 DEF im
<1> QED
  BY <1>1, RecoveryInvHolds, PTL

=============================================================================
