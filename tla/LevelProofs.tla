---------------------------- MODULE LevelProofs ----------------------------
(***************************************************************************)
(* Dense and sparse sides keep their structures, answer alike and store    *)
(* what they admit, after any calls, for every grid of prices, size of a   *)
(* word, number of slots, capacity of the price map, hash function and     *)
(* width of quantities.                                                    *)
(***************************************************************************)
EXTENDS LevelStores, QueueLemmas

-----------------------------------------------------------------------------
(* Arithmetic.                                                             *)

(* Dividing with a remainder, and back.                                    *)
LEMMA Divided ==
  ASSUME NEW x \in Int, NEW d \in Nat \ {0}
  PROVE  /\ x \div d \in Int /\ x % d \in 0..(d - 1)
         /\ x = (x \div d) * d + (x % d)
  OBVIOUS

(* Multiples of d are at least d apart. *)
LEMMA Rising ==
  ASSUME NEW d \in Nat \ {0}, NEW i \in Int, NEW j \in Int, i < j
  PROVE  i * d + d <= j * d
<1>1. j - i >= 1 /\ j - i \in Nat
  OBVIOUS
<1>2. ASSUME NEW k \in Nat, k >= 1 PROVE k * d >= d
  BY <1>2
<1>3. (j - i) * d >= d
  BY <1>1, <1>2
<1>4. (j - i) * d = j * d - i * d
  OBVIOUS
<1> QED
  BY <1>3, <1>4

(* Quotient and remainder are determined by what they add up to. *)
LEMMA DividedOnce ==
  ASSUME NEW d \in Nat \ {0}, NEW i \in Int, NEW r \in 0..(d - 1), NEW x, x = i * d + r
  PROVE  x \div d = i /\ x % d = r
<1> DEFINE k == x \div d
           s == x % d
<1>1. x \in Int
  OBVIOUS
<1>2. k \in Int /\ s \in 0..(d - 1) /\ x = k * d + s
  BY <1>1, Divided
<1> HIDE DEF k, s
<1>3. ~(i < k) /\ ~(k < i)
  <2>1. i < k => i * d + d <= k * d
    BY <1>2, Rising
  <2>2. k < i => k * d + d <= i * d
    BY <1>2, Rising
  <2>3. i * d \in Int /\ k * d \in Int
    BY <1>2
  <2> DEFINE a == i * d
             b == k * d
  <2>4. a \in Int /\ b \in Int /\ a + r = b + s /\ (i < k => a + d <= b) /\ (k < i => b + d <= a)
    BY <1>2, <2>1, <2>2, <2>3
  <2> HIDE DEF a, b
  <2> QED BY <1>2, <2>4
<1>4. i = k
  BY <1>2, <1>3
<1> QED
  BY <1>2, <1>4 DEF k, s

-----------------------------------------------------------------------------
(* The grid.                                                               *)

(* The grid: its levels are numbered from 0, and the last one is the       *)
(* highest price.                                                          *)
LEMMA GridIs ==
  /\ LevelCount \in Nat \ {0} /\ Index = 0..(LevelCount - 1)
  /\ TickSize \in Nat \ {0} /\ MinPrice \in Int /\ MaxPrice \in Int
  /\ MaxPrice = MinPrice + (LevelCount - 1) * TickSize
<1> DEFINE R == MaxPrice - MinPrice
           k == R \div TickSize
<1>1. R \in Nat /\ R % TickSize = 0 /\ TickSize \in Nat \ {0} /\ MinPrice \in Int /\ MaxPrice \in Int
  BY GridAssumption
<1>2. k \in Int /\ R = k * TickSize
  BY <1>1, Divided
<1>3. LevelCount = k + 1
  BY <1>1, GridAssumption DEF LevelCount
<1>4. k >= 0
  <2>1. k < 0 => k * TickSize + TickSize <= 0 * TickSize
    BY <1>1, <1>2, Rising
  <2> QED BY <1>1, <1>2, <2>1
<1> HIDE DEF k
<1> QED
  BY <1>1, <1>2, <1>3, <1>4 DEF Index

(* An index is that of its price.                                          *)
LEMMA PriceOfIndex ==
  ASSUME NEW i \in Index
  PROVE  /\ PriceAt(i) \in Int /\ PriceAt(i) \in Price /\ InRange(PriceAt(i))
         /\ IndexOf(PriceAt(i)) = i
<1> DEFINE d == TickSize
           n == LevelCount - 1
           p == PriceAt(i)
<1>1. /\ n \in Nat /\ i \in 0..n /\ d \in Nat \ {0} /\ MinPrice \in Int
      /\ MaxPrice = MinPrice + n * d
  BY GridIs
<1>2. p = MinPrice + i * d /\ p \in Int
  BY <1>1 DEF PriceAt
<1>3. (p - MinPrice) \div d = i /\ (p - MinPrice) % d = 0
  <2> DEFINE x == p - MinPrice
  <2>1. x = i * d + 0
    BY <1>1, <1>2
  <2> HIDE DEF x
  <2>2. 0 \in 0..(d - 1) /\ i \in Int
    BY <1>1
  <2>3. x \div d = i /\ x % d = 0
    BY <1>1, <2>1, <2>2, DividedOnce
  <2> QED BY <2>3 DEF x
<1>4. i * d >= 0 /\ i * d <= n * d
  <2>1. i < n => i * d + d <= n * d
    BY <1>1, Rising
  <2>2. 0 < i => 0 * d + d <= i * d
    BY <1>1, Rising
  <2>3. i * d \in Int /\ n * d \in Int
    BY <1>1
  <2> QED BY <1>1, <2>1, <2>2, <2>3
<1>5. MinPrice <= p /\ p <= MaxPrice
  <2> DEFINE a == i * d
             b == n * d
  <2>1. a \in Int /\ b \in Int /\ a >= 0 /\ a <= b /\ p = MinPrice + a /\ MaxPrice = MinPrice + b
    BY <1>1, <1>2, <1>4
  <2> HIDE DEF a, b
  <2> QED BY <2>1, <1>1
<1>6. p \in Price
  BY GridIs DEF Price
<1> QED
  BY <1>1, <1>2, <1>3, <1>5, <1>6 DEF InRange, IndexOf

(* A price of the grid is that of its index.                               *)
LEMMA IndexOfPrice ==
  ASSUME NEW p \in Int, InRange(p)
  PROVE  IndexOf(p) \in Index /\ PriceAt(IndexOf(p)) = p /\ p \in Price
<1> DEFINE d == TickSize
           n == LevelCount - 1
           x == p - MinPrice
           i == x \div d
<1>1. /\ n \in Nat /\ d \in Nat \ {0} /\ MinPrice \in Int /\ MaxPrice = MinPrice + n * d
      /\ Index = 0..n
  BY GridIs
<1>2. x \in Nat /\ x % d = 0 /\ x <= n * d
  <2>1. MinPrice <= p /\ p <= MaxPrice /\ x % d = 0
    BY DEF InRange
  <2> DEFINE b == n * d
  <2>2. b \in Int /\ MaxPrice = MinPrice + b
    BY <1>1
  <2> HIDE DEF b
  <2>3. x \in Nat /\ x <= b
    BY <2>1, <2>2, <1>1
  <2> QED BY <2>1, <2>3 DEF b
<1>3. i \in Int /\ x = i * d
  <2>1. x \in Int /\ d \in Nat \ {0}
    BY <1>1, <1>2
  <2>2. i \in Int /\ x = i * d + (x % d)
    BY <2>1, Divided
  <2> DEFINE a == i * d
  <2>3. a \in Int /\ x % d = 0 /\ x = a + (x % d)
    BY <1>1, <1>2, <2>2
  <2> HIDE DEF a
  <2>4. x = a
    BY <2>3
  <2> QED BY <2>2, <2>4 DEF a
<1>4. i >= 0 /\ i <= n
  <2>1. i < 0 => i * d + d <= 0 * d
    BY <1>1, <1>3, Rising
  <2>2. n < i => n * d + d <= i * d
    BY <1>1, <1>3, Rising
  <2> DEFINE a == i * d
             b == n * d
  <2>3. a \in Int /\ b \in Int /\ 0 * d = 0 /\ i \in Int /\ n \in Int /\ d \in Int /\ d > 0
    BY <1>1, <1>3
  <2>4. (i < 0 => a + d <= 0) /\ (n < i => b + d <= a) /\ a >= 0 /\ a <= b
    BY <1>2, <1>3, <2>1, <2>2, <2>3
  <2> HIDE DEF i, a, b, n
  <2> QED BY <2>3, <2>4
<1>5. IndexOf(p) = i
  BY DEF IndexOf
<1> HIDE DEF i
<1>6. i \in Index
  BY <1>1, <1>3, <1>4
<1>7. PriceAt(i) = p
  BY <1>1, <1>3 DEF PriceAt
<1>8. p \in Price
  BY <1>6, <1>7, PriceOfIndex
<1> QED
  BY <1>5, <1>6, <1>7, <1>8

(* The prices of the grid are those in range, and each has an index. *)
LEMMA PriceIs ==
  /\ Price \subseteq Int /\ NoPrice \notin Int
  /\ \A p \in Price : InRange(p) /\ IndexOf(p) \in Index /\ PriceAt(IndexOf(p)) = p
  /\ \A p \in Int : InRange(p) => p \in Price
<1>1. \A p \in Price : \E i \in Index : p = PriceAt(i)
  BY GridIs DEF Price
<1>2. \A p \in Price : p \in Int /\ InRange(p)
  BY <1>1, PriceOfIndex
<1> QED
  BY <1>2, IndexOfPrice, GridAssumption

(* Prices rise with their indices.                                         *)
LEMMA PricesRise ==
  ASSUME NEW i \in Index, NEW j \in Index
  PROVE  i < j <=> PriceAt(i) < PriceAt(j)
<1> DEFINE d == TickSize
           a == i * d
           b == j * d
<1>1. i \in Int /\ j \in Int /\ d \in Nat \ {0} /\ MinPrice \in Int
  BY GridIs
<1>2. a \in Int /\ b \in Int /\ PriceAt(i) = MinPrice + a /\ PriceAt(j) = MinPrice + b
  BY <1>1 DEF PriceAt
<1>3. (i < j => a + d <= b) /\ (j < i => b + d <= a) /\ (i = j => a = b)
  BY <1>1, Rising
<1> HIDE DEF a, b
<1> QED
  BY <1>1, <1>2, <1>3

-----------------------------------------------------------------------------
(* The bitmap's words.                                                     *)

(* A word has bits. *)
LEMMA WordBitsIs == WordBits \in Nat \ {0}
  BY InputAssumption

(* An index is a word and a bit.                                           *)
LEMMA WordAndBit ==
  ASSUME NEW i \in Nat
  PROVE  Word(i) \in Nat /\ Bit(i) \in 0..(WordBits - 1) /\ i = Word(i) * WordBits + Bit(i)
<1> DEFINE d == WordBits
           k == i \div d
           r == i % d
           a == k * d
<1>1. d \in Nat \ {0} /\ i \in Int
  BY WordBitsIs
<1>2. k \in Int /\ r \in 0..(d - 1) /\ i = a + r
  BY <1>1, Divided
<1>3. a \in Int
  BY <1>1, <1>2
<1>4. k < 0 => a + d <= 0
  <2>1. k < 0 => k * d + d <= 0 * d
    BY <1>1, <1>2, Rising
  <2> QED BY <1>1, <2>1
<1> HIDE DEF k, r, a
<1>5. k >= 0
  BY <1>1, <1>2, <1>3, <1>4
<1> QED
  BY <1>2, <1>5 DEF k, r, a, Word, Bit

(* And a word and a bit are an index.                                      *)
LEMMA IndexOfBit ==
  ASSUME NEW w \in Nat, NEW b \in 0..(WordBits - 1), NEW x, x = w * WordBits + b
  PROVE  x \in Nat /\ Word(x) = w /\ Bit(x) = b
<1>1. WordBits \in Nat \ {0} /\ w \in Int
  BY WordBitsIs
<1>2. x \div WordBits = w /\ x % WordBits = b
  BY <1>1, DividedOnce
<1>3. x \in Nat
  <2> DEFINE a == w * WordBits
  <2>1. a \in Nat /\ b \in Nat
    BY <1>1
  <2> HIDE DEF a
  <2> QED BY <2>1 DEF a
<1> QED
  BY <1>2, <1>3 DEF Word, Bit

(* Indices are in the order of their words, and in one word of their bits. *)
LEMMA IndicesInOrder ==
  ASSUME NEW i \in Nat, NEW j \in Nat
  PROVE  /\ i < j <=> (Word(i) < Word(j) \/ (Word(i) = Word(j) /\ Bit(i) < Bit(j)))
         /\ i = j <=> (Word(i) = Word(j) /\ Bit(i) = Bit(j))
<1> DEFINE d == WordBits
           v == Word(i)
           w == Word(j)
           b == Bit(i)
           c == Bit(j)
           m == v * d
           n == w * d
<1>1. /\ d \in Nat \ {0} /\ v \in Int /\ w \in Int /\ b \in 0..(d - 1) /\ c \in 0..(d - 1)
      /\ i = m + b /\ j = n + c
  BY WordAndBit, WordBitsIs
<1>2. v < w => m + d <= n
  BY <1>1, Rising
<1>3. w < v => n + d <= m
  BY <1>1, Rising
<1>4. m \in Int /\ n \in Int /\ (v = w => m = n)
  BY <1>1
<1> HIDE DEF d, v, w, b, c, m, n
<1>5. /\ i < j <=> (v < w \/ (v = w /\ b < c))
      /\ i = j <=> (v = w /\ b = c)
  BY <1>1, <1>2, <1>3, <1>4
<1> QED
  BY <1>5 DEF v, w, b, c

(* There is a word for every index. *)
LEMMA WordsSuffice ==
  /\ WordCount \in Nat \ {0}
  /\ \A i \in Index : Word(i) \in 0..(WordCount - 1)
<1> DEFINE n == LevelCount - 1
           d == WordBits
           k == Word(n)
           r == Bit(n)
           a == k * d
           b == (k + 1) * d
<1>1. n \in Nat /\ Index = 0..n /\ d \in Nat \ {0} /\ LevelCount = n + 1
  BY GridIs, WordBitsIs
<1>2. k \in Nat /\ r \in 0..(d - 1) /\ n = a + r
  BY <1>1, WordAndBit
<1>3. a \in Int /\ b \in Int /\ b = a + d
  BY <1>1, <1>2
<1>4. LevelCount + d - 1 = b + r
  <2> HIDE DEF a, b, k, r, d, n
  <2> QED BY <1>1, <1>2, <1>3
<1>5. k + 1 \in Int
  BY <1>2
<1>6. (LevelCount + d - 1) \div d = k + 1
  <2> DEFINE x == LevelCount + d - 1
  <2>1. x = (k + 1) * d + r
    BY <1>4
  <2> HIDE DEF x, k, r, n
  <2>2. x \div d = k + 1
    BY <1>1, <1>2, <1>5, <2>1, DividedOnce
  <2> QED BY <2>2 DEF x
<1>7. WordCount = k + 1
  BY <1>6 DEF WordCount
<1>8. \A i \in Index : Word(i) \in 0..k
  <2> TAKE i \in Index
  <2>1. i \in Nat /\ i <= n
    BY <1>1
  <2>2. Word(i) \in Nat /\ Word(n) \in Nat
    BY <2>1, <1>1, WordAndBit
  <2>3. i < n => Word(i) < Word(n) \/ Word(i) = Word(n)
    BY <2>1, <1>1, IndicesInOrder
  <2> HIDE DEF n
  <2>4. i = n => Word(i) = Word(n)
    OBVIOUS
  <2>5. i < n \/ i = n
    BY <2>1, <1>1
  <2> QED BY <2>2, <2>3, <2>4, <2>5 
<1> HIDE DEF k
<1> QED
  BY <1>2, <1>7, <1>8

(* A part of 0..n has a largest and a smallest member.                     *)
LEMMA Extremes ==
  ASSUME NEW n \in Int, NEW T \in SUBSET (0..n), T # {}
  PROVE  /\ Max(T) \in T /\ \A i \in T : Max(T) >= i
         /\ Min(T) \in T /\ \A i \in T : Min(T) <= i
<1>0. T \in SUBSET Nat /\ \A i \in T : i <= n
  OBVIOUS
<1>1. PICK m \in T : \A k \in T : m <= k
  BY <1>0, LeastNat
<1>2. Min(T) \in T /\ \A i \in T : Min(T) <= i
  BY <1>1 DEF Min
<1> DEFINE U == {n - i : i \in T}
<1>3. U \in SUBSET Nat /\ U # {}
  BY <1>0
<1>4. PICK u \in U : \A k \in U : u <= k
  <2> HIDE DEF U
  <2> QED BY <1>3, LeastNat
<1>5. PICK i \in T : u = n - i
  OBVIOUS
<1>6. \A j \in T : i >= j
  <2> TAKE j \in T
  <2>1. n - j \in U
    OBVIOUS
  <2>2. n - i <= n - j
    BY <2>1, <1>4, <1>5
  <2> HIDE DEF U
  <2> QED BY <2>2, <1>0
<1>7. Max(T) \in T /\ \A j \in T : Max(T) >= j
  BY <1>6 DEF Max
<1> QED
  BY <1>2, <1>7

(* i is the best index of I, or none is.                                   *)
IsBest(side, I, i) ==
  \/ (I = {} /\ i = NoIndex)
  \/ i \in I /\ \A j \in I : ~BetterIndex(side, j, i)

(* The bits of the words of W are those of the indices in I.               *)
Marks(words, W, I) ==
  /\ W \in SUBSET (0..(WordCount - 1))
  /\ \A w \in W : /\ words[w] \in SUBSET (0..(WordBits - 1))
                  /\ \A b \in 0..(WordBits - 1) : b \in words[w] <=> w * WordBits + b \in I
  /\ \A i \in I : i \in Nat /\ Word(i) \in W

(* A marked bit is an index of the set, and an index of the set is marked. *)
LEMMA MarkedBits ==
  ASSUME NEW words, NEW W, NEW I, Marks(words, W, I)
  PROVE  /\ \A i \in I : i \in Nat /\ Word(i) \in W /\ Bit(i) \in words[Word(i)]
         /\ \A w \in W, b \in 0..(WordBits - 1) :
              b \in words[w] =>
                w * WordBits + b \in I /\ Word(w * WordBits + b) = w /\ Bit(w * WordBits + b) = b
<1>1. ASSUME NEW i \in I PROVE i \in Nat /\ Word(i) \in W /\ Bit(i) \in words[Word(i)]
  <2>1. i \in Nat /\ Word(i) \in W
    BY DEF Marks
  <2>2. Bit(i) \in 0..(WordBits - 1) /\ i = Word(i) * WordBits + Bit(i)
    BY <2>1, WordAndBit
  <2>3. Bit(i) \in words[Word(i)] <=> Word(i) * WordBits + Bit(i) \in I
    BY <2>1, <2>2 DEF Marks
  <2> QED BY <2>1, <2>2, <2>3
<1>2. ASSUME NEW w \in W, NEW b \in 0..(WordBits - 1), b \in words[w]
      PROVE  w * WordBits + b \in I /\ Word(w * WordBits + b) = w /\ Bit(w * WordBits + b) = b
  <2>1. w \in Nat
    BY WordsSuffice DEF Marks
  <2>2. w * WordBits + b \in I
    BY <1>2 DEF Marks
  <2> QED BY <2>1, <2>2, IndexOfBit
<1> QED
  BY <1>1, <1>2

(* Going to the outermost word and its outermost bit finds the best index. *)
LEMMA OutermostIs ==
  ASSUME NEW side \in Side, NEW words, NEW W, NEW I, Marks(words, W, I)
  PROVE  IsBest(side, I, Outermost(side, words, W))
<1> DEFINE full == {w \in W : words[w] # {}}
           w == IF side = "Buy" THEN Max(full) ELSE Min(full)
           b == IF side = "Buy" THEN Max(words[w]) ELSE Min(words[w])
           x == w * WordBits + b
<1>1. Outermost(side, words, W) = IF full = {} THEN NoIndex ELSE x
  BY DEF Outermost, Side
<1>2. W \in SUBSET (0..(WordCount - 1)) /\ WordCount - 1 \in Int /\ WordBits - 1 \in Int
  BY WordsSuffice, WordBitsIs DEF Marks
<1>3. /\ \A i \in I : i \in Nat /\ Word(i) \in W /\ Bit(i) \in words[Word(i)]
      /\ \A v \in W, c \in 0..(WordBits - 1) :
           c \in words[v] =>
             v * WordBits + c \in I /\ Word(v * WordBits + c) = v /\ Bit(v * WordBits + c) = c
  BY MarkedBits
<1>4. \A v \in W : words[v] \in SUBSET (0..(WordBits - 1))
  BY DEF Marks
<1>5. CASE full = {}
  <2>1. I = {}
    BY <1>3, <1>5
  <2> QED BY <1>1, <1>5, <2>1 DEF IsBest
<1>6. CASE full # {}
  <2>1. full \in SUBSET (0..(WordCount - 1))
    BY <1>2
  <2>2. /\ Max(full) \in full /\ \A i \in full : Max(full) >= i
        /\ Min(full) \in full /\ \A i \in full : Min(full) <= i
    <3> HIDE DEF full
    <3> QED BY <1>2, <1>6, <2>1, Extremes
  <2>3. w \in full /\ \A v \in full : ~BetterIndex(side, v, w)
    <3>1. \A v \in full : v \in Int
      BY <2>1
    <3> HIDE DEF full
    <3> QED BY <2>2, <3>1 DEF BetterIndex
  <2>4. w \in W /\ words[w] # {} /\ words[w] \in SUBSET (0..(WordBits - 1))
    <3> HIDE DEF w
    <3> QED BY <2>3, <1>4
  <2>5. /\ Max(words[w]) \in words[w] /\ \A i \in words[w] : Max(words[w]) >= i
        /\ Min(words[w]) \in words[w] /\ \A i \in words[w] : Min(words[w]) <= i
    <3> HIDE DEF w
    <3> QED BY <1>2, <2>4, Extremes
  <2>6. b \in words[w] /\ \A c \in words[w] : ~BetterIndex(side, c, b)
    <3> HIDE DEF w
    <3>1. \A c \in words[w] : c \in Int
      BY <2>4
    <3> QED BY <2>5, <3>1 DEF BetterIndex
  <2> HIDE DEF b
  <2>7. b \in 0..(WordBits - 1) /\ x \in I /\ Word(x) = w /\ Bit(x) = b
    <3>1. b \in 0..(WordBits - 1)
      BY <2>4, <2>6
    <3> HIDE DEF w
    <3> QED BY <1>3, <2>4, <2>6, <3>1
  <2> HIDE DEF w, x
  <2>8. ASSUME NEW j \in I PROVE ~BetterIndex(side, j, x)
    <3>1. j \in Nat /\ x \in Nat /\ Word(j) \in W /\ Bit(j) \in words[Word(j)]
      BY <1>3, <2>7
    <3>2. Word(j) \in full
      BY <3>1
    <3>3. ~BetterIndex(side, Word(j), w) /\ (Word(j) = w => ~BetterIndex(side, Bit(j), b))
      BY <2>3, <2>6, <3>1, <3>2
    <3>4. /\ j < x <=> (Word(j) < w \/ (Word(j) = w /\ Bit(j) < b))
          /\ x < j <=> (w < Word(j) \/ (w = Word(j) /\ b < Bit(j)))
      BY <3>1, <2>7, IndicesInOrder
    <3>5. Word(j) \in Int /\ w \in Int /\ Bit(j) \in Int /\ b \in Int
      BY <3>1, <2>7, WordAndBit
    <3> HIDE DEF full
    <3> QED BY <3>1, <3>3, <3>4, <3>5 DEF BetterIndex
  <2> QED BY <1>1, <1>6, <2>7, <2>8 DEF IsBest, x
<1> QED
  BY <1>5, <1>6

-----------------------------------------------------------------------------
(* The dense side.                                                         *)

(* An order as both sides hold it. *)
RestingOrder == [qty: 1..MaxQuantity, owner: Owner]
(* The words of the bitmap. *)
Words == 0..(WordCount - 1)
(* The indices whose queues are not empty. *)
Full(q) == {i \in Index : q[i] # <<>>}

(* The type of a dense side. *)
DenseType ==
  [side: Side, queue: [Index -> Seq(RestingOrder)],
   words: [Words -> SUBSET (0..(WordBits - 1))], best: Index \cup {NoIndex}]

(* A dense side is sound: its bitmap marks exactly the levels that have    *)
(* orders, and the cached index is the best of them.                       *)
DenseIs(d) ==
  /\ d \in DenseType
  /\ Marks(d.words, Words, Full(d.queue))
  /\ IsBest(d.side, Full(d.queue), d.best)

(* A dense side is the record of its fields. *)
LEMMA DenseShape ==
  ASSUME NEW d, d \in DenseType
  PROVE  /\ d = [side |-> d.side, queue |-> d.queue, words |-> d.words, best |-> d.best]
         /\ d.side \in Side /\ d.queue \in [Index -> Seq(RestingOrder)]
         /\ d.words \in [Words -> SUBSET (0..(WordBits - 1))] /\ d.best \in Index \cup {NoIndex}
<1>1. d = [side |-> d.side, queue |-> d.queue, words |-> d.words, best |-> d.best]
  BY DEF DenseType
<1>2. /\ d.side \in Side /\ d.queue \in [Index -> Seq(RestingOrder)]
      /\ d.words \in [Words -> SUBSET (0..(WordBits - 1))] /\ d.best \in Index \cup {NoIndex}
  BY DEF DenseType
<1> QED
  BY <1>1, <1>2

(* What replacing one queue of a dense side gives, field by field. *)
LEMMA DenseShaped ==
  ASSUME NEW d, d \in DenseType, NEW i, NEW z
  PROVE  [d EXCEPT !.queue[i] = z]
           = [side |-> d.side, queue |-> [d.queue EXCEPT ![i] = z], words |-> d.words,
              best |-> d.best]
<1> DEFINE queue == d.queue
           words == d.words
           side == d.side
           best == d.best
<1>1. d = [side |-> side, queue |-> queue, words |-> words, best |-> best]
  BY DenseShape
<1> HIDE DEF queue, words, side, best
<1>2. [d EXCEPT !.queue[i] = z]
        = [side |-> side, queue |-> [queue EXCEPT ![i] = z], words |-> words, best |-> best]
  BY <1>1
<1> QED
  BY <1>2 DEF queue, words, side, best

(* e is d with queue z at index i.                                         *)
PutAt(e, d, i, z) == e.side = d.side /\ e.queue = [d.queue EXCEPT ![i] = z]

(* The word and the bit of an index. *)
LEMMA WordOfIndex ==
  ASSUME NEW i \in Index
  PROVE  i \in Nat /\ Word(i) \in Words /\ Word(i) \in Nat /\ Bit(i) \in 0..(WordBits - 1)
<1>1. i \in Nat
  BY GridIs
<1> QED
  BY <1>1, WordAndBit, WordsSuffice DEF Words

(* Setting or clearing one bit, and no other, marks the set with or        *)
(* without its index.                                                      *)
LEMMA MarksOne ==
  ASSUME NEW words, NEW I, Marks(words, Words, I), NEW i \in Index,
         NEW new, NEW J,
         \A w \in Words : w # Word(i) => new[w] = words[w],
         new[Word(i)] \in SUBSET (0..(WordBits - 1)),
         \A b \in 0..(WordBits - 1) : b # Bit(i) => (b \in new[Word(i)] <=> b \in words[Word(i)]),
         Bit(i) \in new[Word(i)] <=> i \in J,
         \A j : j # i => (j \in J <=> j \in I)
  PROVE  Marks(new, Words, J)
<1>1. i \in Nat /\ Word(i) \in Words /\ Word(i) \in Nat /\ Bit(i) \in 0..(WordBits - 1)
  BY WordOfIndex
<1>2. ASSUME NEW w \in Words
      PROVE  /\ new[w] \in SUBSET (0..(WordBits - 1))
             /\ \A b \in 0..(WordBits - 1) : b \in new[w] <=> w * WordBits + b \in J
  <2>1. /\ words[w] \in SUBSET (0..(WordBits - 1))
        /\ \A b \in 0..(WordBits - 1) : b \in words[w] <=> w * WordBits + b \in I
    BY DEF Marks
  <2>2. new[w] \in SUBSET (0..(WordBits - 1))
    BY <2>1
  <2>3. ASSUME NEW b \in 0..(WordBits - 1) PROVE b \in new[w] <=> w * WordBits + b \in J
    <3> DEFINE x == w * WordBits + b
    <3>1. w \in Nat
      BY WordsSuffice DEF Words
    <3>2. x \in Nat /\ Word(x) = w /\ Bit(x) = b
      BY <3>1, IndexOfBit
    <3>3. b \in words[w] <=> x \in I
      BY <2>1
    <3>4. x = i => b \in new[w] <=> x \in J
      BY <3>2
    <3>5. x = i <=> Word(x) = Word(i) /\ Bit(x) = Bit(i)
      BY <1>1, <3>2, IndicesInOrder
    <3> HIDE DEF x
    <3>6. x # i => (x \in J <=> x \in I)
      OBVIOUS
    <3>7. x # i => (b \in new[w] <=> b \in words[w])
      BY <3>2, <3>5
    <3>8. b \in new[w] <=> x \in J
      BY <3>3, <3>4, <3>6, <3>7
    <3> QED BY <3>8 DEF x
  <2> QED BY <2>2, <2>3
<1>3. ASSUME NEW j \in J PROVE j \in Nat /\ Word(j) \in Words
  BY <1>1 DEF Marks
<1>4. Words \in SUBSET (0..(WordCount - 1))
  BY DEF Words
<1> QED
  BY <1>2, <1>3, <1>4 DEF Marks

(* What set_occupied does to the words. *)
LEMMA MarksAdded ==
  ASSUME NEW words \in [Words -> SUBSET (0..(WordBits - 1))], NEW I, Marks(words, Words, I),
         NEW i \in Index
  PROVE  /\ [words EXCEPT ![Word(i)] = @ \cup {Bit(i)}] \in [Words -> SUBSET (0..(WordBits - 1))]
         /\ Marks([words EXCEPT ![Word(i)] = @ \cup {Bit(i)}], Words, I \cup {i})
<1> DEFINE new == [words EXCEPT ![Word(i)] = @ \cup {Bit(i)}]
           J == I \cup {i}
<1>1. i \in Nat /\ Word(i) \in Words /\ Word(i) \in Nat /\ Bit(i) \in 0..(WordBits - 1)
  BY WordOfIndex
<1>2. /\ \A w \in Words : w # Word(i) => new[w] = words[w]
      /\ new[Word(i)] = words[Word(i)] \cup {Bit(i)}
  BY <1>1
<1>3. new \in [Words -> SUBSET (0..(WordBits - 1))]
  BY <1>1
<1>4. new[Word(i)] \in SUBSET (0..(WordBits - 1))
  BY <1>1, <1>3
<1> HIDE DEF new
<1>5. \A b \in 0..(WordBits - 1) : b # Bit(i) => (b \in new[Word(i)] <=> b \in words[Word(i)])
  BY <1>2
<1>6. Bit(i) \in new[Word(i)] <=> i \in J
  BY <1>2
<1>7. \A j : j # i => (j \in J <=> j \in I)
  OBVIOUS
<1>8. \A w \in Words : w # Word(i) => new[w] = words[w]
  BY <1>2
<1> HIDE DEF J
<1>9. Marks(new, Words, J)
  BY <1>4, <1>5, <1>6, <1>7, <1>8, MarksOne
<1> QED
  BY <1>3, <1>9 DEF new, J

(* What clear_occupied does to the words. *)
LEMMA MarksRemoved ==
  ASSUME NEW words \in [Words -> SUBSET (0..(WordBits - 1))], NEW I, Marks(words, Words, I),
         NEW i \in Index
  PROVE  /\ [words EXCEPT ![Word(i)] = @ \ {Bit(i)}] \in [Words -> SUBSET (0..(WordBits - 1))]
         /\ Marks([words EXCEPT ![Word(i)] = @ \ {Bit(i)}], Words, I \ {i})
<1> DEFINE new == [words EXCEPT ![Word(i)] = @ \ {Bit(i)}]
           J == I \ {i}
<1>1. i \in Nat /\ Word(i) \in Words /\ Word(i) \in Nat /\ Bit(i) \in 0..(WordBits - 1)
  BY WordOfIndex
<1>2. /\ \A w \in Words : w # Word(i) => new[w] = words[w]
      /\ new[Word(i)] = words[Word(i)] \ {Bit(i)}
  BY <1>1
<1>3. new \in [Words -> SUBSET (0..(WordBits - 1))]
  BY <1>1
<1>4. new[Word(i)] \in SUBSET (0..(WordBits - 1))
  BY <1>1, <1>3
<1> HIDE DEF new
<1>5. \A b \in 0..(WordBits - 1) : b # Bit(i) => (b \in new[Word(i)] <=> b \in words[Word(i)])
  BY <1>2
<1>6. Bit(i) \in new[Word(i)] <=> i \in J
  BY <1>2
<1>7. \A j : j # i => (j \in J <=> j \in I)
  OBVIOUS
<1>8. \A w \in Words : w # Word(i) => new[w] = words[w]
  BY <1>2
<1> HIDE DEF J
<1>9. Marks(new, Words, J)
  BY <1>4, <1>5, <1>6, <1>7, <1>8, MarksOne
<1> QED
  BY <1>3, <1>9 DEF new, J

(* A side that gains its first order at an index.                          *)
LEMMA DenseFills ==
  ASSUME NEW d, DenseIs(d), NEW i \in Index, d.queue[i] = <<>>,
         NEW z \in Seq(RestingOrder), z # <<>>
  PROVE  /\ DenseIs(SetOccupied([d EXCEPT !.queue[i] = z], i))
         /\ PutAt(SetOccupied([d EXCEPT !.queue[i] = z], i), d, i, z)
<1> DEFINE e == SetOccupied([d EXCEPT !.queue[i] = z], i)
           I == Full(d.queue)
           J == I \cup {i}
           words == [d.words EXCEPT ![Word(i)] = @ \cup {Bit(i)}]
           queue == [d.queue EXCEPT ![i] = z]
           best == IF d.best = NoIndex \/ BetterIndex(d.side, i, d.best) THEN i ELSE d.best
<1>1. /\ d \in DenseType /\ Marks(d.words, Words, I) /\ IsBest(d.side, I, d.best)
  BY DEF DenseIs
<1>2. /\ d.side \in Side /\ d.queue \in [Index -> Seq(RestingOrder)]
      /\ d.words \in [Words -> SUBSET (0..(WordBits - 1))] /\ d.best \in Index \cup {NoIndex}
  BY <1>1 DEF DenseType
<1>3. e = [side |-> d.side, queue |-> queue, words |-> words, best |-> best]
  <2> DEFINE f == [d EXCEPT !.queue[i] = z]
  <2>1. f = [side |-> d.side, queue |-> queue, words |-> d.words, best |-> d.best]
    BY <1>1, DenseShaped
  <2>2. e = [f EXCEPT !.words[Word(i)] = @ \cup {Bit(i)},
                      !.best = IF @ = NoIndex \/ BetterIndex(f.side, i, @) THEN i ELSE @]
    BY DEF SetOccupied
  <2> HIDE DEF e, f, queue
  <2> QED BY <2>1, <2>2
<1>4. words \in [Words -> SUBSET (0..(WordBits - 1))] /\ Marks(words, Words, J)
  <2> HIDE DEF I
  <2> QED BY <1>1, <1>2, MarksAdded
<1>5. queue \in [Index -> Seq(RestingOrder)] /\ Full(queue) = J
  BY <1>2 DEF Full
<1>6. I \subseteq Index /\ Index \subseteq Int /\ NoIndex \notin Index /\ i \in Index
  BY GridIs DEF Full, NoIndex
<1>7. best \in Index \cup {NoIndex}
  BY <1>2
<1>8. IsBest(d.side, J, best)
  <2> DEFINE b == d.best
             side == d.side
  <2> SUFFICES IsBest(side, J, best)
    OBVIOUS
  <2>1. /\ b \in Index \cup {NoIndex} /\ IsBest(side, I, b)
        /\ best = IF b = NoIndex \/ BetterIndex(side, i, b) THEN i ELSE b
    BY <1>1, <1>2
  <2>2. \A j \in J : j \in Int /\ (j \in I \/ j = i)
    BY <1>6
  <2> HIDE DEF I, J, b, side, best
  <2>3. CASE b = NoIndex
    <3>1. I = {} /\ best = i
      BY <2>1, <2>3, <1>6 DEF IsBest
    <3> QED BY <3>1, <1>6 DEF IsBest, BetterIndex, J
  <2>4. CASE b # NoIndex
    <3>1. b \in I /\ b \in Int /\ i \in Int /\ \A j \in I : ~BetterIndex(side, j, b)
      BY <2>1, <2>4, <1>6 DEF IsBest
    <3>2. CASE BetterIndex(side, i, b)
      <4>1. best = i /\ best \in J
        BY <3>2, <2>1 DEF J
      <4>2. \A j \in J : ~BetterIndex(side, j, i)
        BY <3>1, <3>2, <2>2 DEF BetterIndex
      <4> QED BY <4>1, <4>2 DEF IsBest
    <3>3. CASE ~BetterIndex(side, i, b)
      <4>1. best = b /\ best \in J
        BY <3>1, <3>3, <2>1, <2>4 DEF J
      <4>2. \A j \in J : ~BetterIndex(side, j, b)
        BY <3>1, <3>3, <2>2
      <4> QED BY <4>1, <4>2 DEF IsBest
    <3> QED BY <3>2, <3>3
  <2> QED BY <2>3, <2>4
<1>9. e \in DenseType
  <2> HIDE DEF words, queue, best, e
  <2> QED BY <1>2, <1>3, <1>4, <1>5, <1>7 DEF DenseType
<1> HIDE DEF e, words, queue, best, J, I
<1>10. DenseIs(e)
  BY <1>3, <1>4, <1>5, <1>8, <1>9 DEF DenseIs
<1>11. PutAt(e, d, i, z)
  BY <1>3 DEF PutAt, queue
<1> QED
  BY <1>10, <1>11 DEF e

(* A side that loses its last order at an index.                           *)
LEMMA DenseEmpties ==
  ASSUME NEW d, DenseIs(d), NEW i \in Index, d.queue[i] # <<>>
  PROVE  /\ DenseIs(ClearOccupied([d EXCEPT !.queue[i] = <<>>], i))
         /\ PutAt(ClearOccupied([d EXCEPT !.queue[i] = <<>>], i), d, i, <<>>)
<1> DEFINE e == ClearOccupied([d EXCEPT !.queue[i] = <<>>], i)
           I == Full(d.queue)
           J == I \ {i}
           words == [d.words EXCEPT ![Word(i)] = @ \ {Bit(i)}]
           queue == [d.queue EXCEPT ![i] = <<>>]
           best == IF i = d.best THEN Outermost(d.side, words, Words) ELSE d.best
<1>1. /\ d \in DenseType /\ Marks(d.words, Words, I) /\ IsBest(d.side, I, d.best)
  BY DEF DenseIs
<1>2. /\ d.side \in Side /\ d.queue \in [Index -> Seq(RestingOrder)]
      /\ d.words \in [Words -> SUBSET (0..(WordBits - 1))] /\ d.best \in Index \cup {NoIndex}
  BY <1>1 DEF DenseType
<1>4. words \in [Words -> SUBSET (0..(WordBits - 1))] /\ Marks(words, Words, J)
  <2> HIDE DEF I
  <2> QED BY <1>1, <1>2, MarksRemoved
<1>3. e = [side |-> d.side, queue |-> queue, words |-> words, best |-> best]
  <2> DEFINE less == [side |-> d.side, queue |-> queue, words |-> words, best |-> d.best]
             f == [d EXCEPT !.queue[i] = <<>>]
             g == [f EXCEPT !.words[Word(i)] = @ \ {Bit(i)}]
  <2>1. f = [side |-> d.side, queue |-> queue, words |-> d.words, best |-> d.best]
    BY <1>1, DenseShaped
  <2>2. e = IF i = d.best THEN [less EXCEPT !.best = FindBest(less)] ELSE less
    <3>1. e = IF i = f.best THEN [g EXCEPT !.best = FindBest(g)] ELSE g
      BY DEF ClearOccupied
    <3>2. g = less /\ f.best = d.best
      <4>2. f.best = d.best
        BY <2>1
      <4>3. g = [f EXCEPT !.words[Word(i)] = @ \ {Bit(i)}]
        OBVIOUS
      <4>4. g = less
        <5> HIDE DEF f, g, queue
        <5> QED BY <2>1, <4>3
      <4> QED BY <4>2, <4>4
    <3> HIDE DEF e, f, g, less
    <3> QED BY <3>1, <3>2
  <2>3. FindBest(less) = Outermost(d.side, words, Words)
    <3>1. DOMAIN words = Words
      BY <1>4
    <3> HIDE DEF words, queue
    <3> QED BY <3>1 DEF FindBest
  <2> HIDE DEF words, queue, e
  <2> QED BY <2>2, <2>3
<1>5. <<>> \in Seq(RestingOrder)
  OBVIOUS
<1>6. queue \in [Index -> Seq(RestingOrder)] /\ Full(queue) = J
  BY <1>2, <1>5 DEF Full
<1>7. I \subseteq Index /\ Index \subseteq Int /\ NoIndex \notin Index /\ i \in Index /\ i \in I
  BY GridIs DEF Full, NoIndex
<1>8. IsBest(d.side, J, best)
  <2>1. IsBest(d.side, J, Outermost(d.side, words, Words))
    <3> HIDE DEF words, J
    <3> QED BY <1>2, <1>4, OutermostIs
  <2> HIDE DEF I, words
  <2>2. i # d.best => IsBest(d.side, J, d.best)
    BY <1>1, <1>7 DEF IsBest
  <2> QED BY <2>1, <2>2
<1>9. best \in Index \cup {NoIndex}
  <2> HIDE DEF best, I
  <2> QED BY <1>7, <1>8 DEF IsBest
<1>10. e \in DenseType
  <2> HIDE DEF words, queue, best, e
  <2> QED BY <1>2, <1>3, <1>4, <1>6, <1>9 DEF DenseType
<1> HIDE DEF e, words, queue, best, J, I
<1>11. DenseIs(e)
  BY <1>3, <1>4, <1>6, <1>8, <1>10 DEF DenseIs
<1>12. PutAt(e, d, i, <<>>)
  BY <1>3 DEF PutAt, queue
<1> QED
  BY <1>11, <1>12 DEF e

(* A side whose queue at an occupied index changes but does not end.       *)
LEMMA DenseChanges ==
  ASSUME NEW d, DenseIs(d), NEW i \in Index, d.queue[i] # <<>>,
         NEW z \in Seq(RestingOrder), z # <<>>
  PROVE  DenseIs([d EXCEPT !.queue[i] = z]) /\ PutAt([d EXCEPT !.queue[i] = z], d, i, z)
<1> DEFINE e == [d EXCEPT !.queue[i] = z]
           queue == [d.queue EXCEPT ![i] = z]
<1>1. /\ d \in DenseType /\ Marks(d.words, Words, Full(d.queue))
      /\ IsBest(d.side, Full(d.queue), d.best)
  BY DEF DenseIs
<1>2. e = [side |-> d.side, queue |-> queue, words |-> d.words, best |-> d.best]
  BY <1>1, DenseShaped
<1>3. queue \in [Index -> Seq(RestingOrder)] /\ Full(queue) = Full(d.queue)
  BY <1>1 DEF Full, DenseType
<1>4. e \in DenseType
  <2> HIDE DEF queue, e
  <2> QED BY <1>1, <1>2, <1>3 DEF DenseType
<1> HIDE DEF e, queue
<1>5. DenseIs(e)
  BY <1>1, <1>2, <1>3, <1>4 DEF DenseIs
<1>6. PutAt(e, d, i, z)
  BY <1>2 DEF PutAt, queue
<1> QED
  BY <1>5, <1>6 DEF e

(* The indices behind i on a side.                                         *)
Behind(side, I, i) == {j \in I : BetterIndex(side, i, j)}

(* Searching on from an index finds the best of those behind it.           *)
LEMMA DenseNextIs ==
  ASSUME NEW d, DenseIs(d), NEW i \in Index
  PROVE  IsBest(d.side, Behind(d.side, Full(d.queue), i), DenseFindNext(d, i))
<1> DEFINE side == d.side
           I == Full(d.queue)
           next == IF side = "Buy" THEN i - 1 ELSE i + 1
           K == {b \in d.words[Word(next)] : ~BetterIndex(side, b, Bit(next))}
           masked == [d.words EXCEPT ![Word(next)] = K]
           W == {w \in Words : ~BetterIndex(side, w, Word(next))}
           J == Behind(side, I, i)
<1>1. /\ side \in Side /\ d.words \in [Words -> SUBSET (0..(WordBits - 1))]
      /\ Marks(d.words, Words, I)
  BY DenseShape DEF DenseIs
<1>2. Index = 0..(LevelCount - 1) /\ LevelCount \in Nat /\ i \in Int /\ i < LevelCount
  BY GridIs
<1>3. I \subseteq Index
  BY DEF Full
<1>4. DenseFindNext(d, i) = IF next \notin Index THEN NoIndex ELSE Outermost(side, masked, W)
  <2>1. DOMAIN d.words = Words
    BY <1>1
  <2>2. ~(i >= LevelCount)
    BY <1>2
  <2>3. masked = [d.words EXCEPT ![Word(next)] = {b \in @ : ~BetterIndex(d.side, b, Bit(next))}]
    OBVIOUS
  <2> QED BY <2>1, <2>2, <2>3 DEF DenseFindNext
<1>5. CASE next \notin Index
  <2>1. J = {}
    <3> SUFFICES ASSUME NEW j \in J PROVE FALSE
      OBVIOUS
    <3>1. j \in Index /\ BetterIndex(side, i, j)
      BY <1>3 DEF Behind
    <3> QED BY <3>1, <1>1, <1>2, <1>5 DEF BetterIndex, Side
  <2> QED BY <1>4, <1>5, <2>1 DEF IsBest
<1>6. CASE next \in Index
  <2> HIDE DEF I
  <2>1. /\ next \in Nat /\ Word(next) \in Words /\ Bit(next) \in 0..(WordBits - 1)
        /\ Word(next) \in Nat
    BY <1>6, WordOfIndex
  <2>2. \A j \in I : j \in Nat /\ (j \in J <=> ~BetterIndex(side, j, next))
    <3> TAKE j \in I
    <3>1. j \in Int /\ j >= 0
      BY <1>2, <1>3
    <3>2. BetterIndex(side, i, j) <=> ~BetterIndex(side, j, next)
      BY <1>1, <1>2, <3>1 DEF BetterIndex, Side
    <3> QED BY <3>1, <3>2 DEF Behind
  <2>3. J \subseteq I
    BY DEF Behind
  <2>4. \A x \in Nat : ~BetterIndex(side, x, next) <=>
          \/ Word(x) # Word(next) /\ ~BetterIndex(side, Word(x), Word(next))
          \/ Word(x) = Word(next) /\ ~BetterIndex(side, Bit(x), Bit(next))
    <3> TAKE x \in Nat
    <3>1. /\ x < next <=> (Word(x) < Word(next) \/ (Word(x) = Word(next) /\ Bit(x) < Bit(next)))
          /\ next < x <=> (Word(next) < Word(x) \/ (Word(next) = Word(x) /\ Bit(next) < Bit(x)))
      BY <2>1, IndicesInOrder
    <3>2. Word(x) \in Int /\ Bit(x) \in Int /\ Word(next) \in Int /\ Bit(next) \in Int
      BY <2>1, WordAndBit
    <3> HIDE DEF next
    <3> QED BY <3>1, <3>2, <2>1 DEF BetterIndex
  <2> HIDE DEF next, J, side
  <2>5. \A w \in W : w \in Nat /\ w \in Words
    BY WordsSuffice DEF Words
  <2>6. masked[Word(next)] = K /\ \A w \in Words : w # Word(next) => masked[w] = d.words[w]
    BY <1>1, <2>1
  <2> HIDE DEF masked
  <2>7. Marks(masked, W, J)
    <3>1. W \in SUBSET (0..(WordCount - 1))
      BY DEF Words
    <3>2. ASSUME NEW w \in W
          PROVE  /\ masked[w] \in SUBSET (0..(WordBits - 1))
                 /\ \A b \in 0..(WordBits - 1) : b \in masked[w] <=> w * WordBits + b \in J
      <4>1. /\ d.words[w] \in SUBSET (0..(WordBits - 1))
            /\ \A b \in 0..(WordBits - 1) : b \in d.words[w] <=> w * WordBits + b \in I
        BY <1>1, <2>5 DEF Marks
      <4>2. masked[w] \in SUBSET (0..(WordBits - 1))
        BY <2>5, <2>6, <4>1
      <4>3. ASSUME NEW b \in 0..(WordBits - 1)
            PROVE  b \in masked[w] <=> w * WordBits + b \in J
        <5> DEFINE x == w * WordBits + b
        <5>1. x \in Nat /\ Word(x) = w /\ Bit(x) = b
          BY <2>5, IndexOfBit
        <5>2. b \in d.words[w] <=> x \in I
          BY <4>1
        <5> HIDE DEF x
        <5>3. x \in J <=> x \in I /\ ~BetterIndex(side, x, next)
          BY <2>2, <2>3
        <5>4. ~BetterIndex(side, w, Word(next))
          OBVIOUS
        <5>5. b \in masked[w] <=> x \in J
          <6>1. CASE w = Word(next)
            <7>1. b \in masked[w] <=> b \in d.words[w] /\ ~BetterIndex(side, b, Bit(next))
              BY <6>1, <2>6
            <7>2. ~BetterIndex(side, x, next) <=> ~BetterIndex(side, b, Bit(next))
              BY <5>1, <6>1, <2>4
            <7> QED BY <7>1, <7>2, <5>2, <5>3
          <6>2. CASE w # Word(next)
            <7>1. b \in masked[w] <=> b \in d.words[w]
              BY <6>2, <2>5, <2>6
            <7>2. ~BetterIndex(side, x, next)
              BY <5>1, <5>4, <6>2, <2>4
            <7> QED BY <7>1, <7>2, <5>2, <5>3
          <6> QED BY <6>1, <6>2
        <5> QED BY <5>5 DEF x
      <4> QED BY <4>2, <4>3
    <3>3. ASSUME NEW j \in J PROVE j \in Nat /\ Word(j) \in W
      <4>1. j \in Nat /\ j \in I /\ ~BetterIndex(side, j, next)
        BY <2>2, <2>3
      <4>2. Word(j) \in Words
        BY <4>1, <1>1 DEF Marks
      <4>3. ~BetterIndex(side, Word(j), Word(next))
        <5>1. Word(j) # Word(next) => ~BetterIndex(side, Word(j), Word(next))
          BY <4>1, <2>4
        <5>2. Word(j) = Word(next) => ~BetterIndex(side, Word(j), Word(next))
          BY <2>1 DEF BetterIndex
        <5> QED BY <5>1, <5>2
      <4> QED BY <4>1, <4>2, <4>3
    <3> HIDE DEF W
    <3> QED BY <3>1, <3>2, <3>3 DEF Marks
  <2>8. side \in Side
    BY <1>1
  <2> HIDE DEF W
  <2>9. IsBest(side, J, Outermost(side, masked, W))
    BY <2>7, <2>8, OutermostIs
  <2>10. DenseFindNext(d, i) = Outermost(side, masked, W)
    BY <1>4, <1>6
  <2>11. IsBest(side, J, DenseFindNext(d, i))
    BY <2>9, <2>10
  <2> QED BY <2>11 DEF side, J, I
<1> QED
  BY <1>5, <1>6

(* A new side is empty.                                                    *)
LEMMA DenseStarts ==
  ASSUME NEW side \in Side
  PROVE  /\ DenseIs(DenseCleared(side)) /\ DenseCleared(side).side = side
         /\ DenseCleared(side).queue = [i \in Index |-> <<>>]
<1> DEFINE d == DenseCleared(side)
           words == [w \in Words |-> {}]
           queue == [i \in Index |-> <<>>]
<1>1. d = [side |-> side, queue |-> queue, words |-> words, best |-> NoIndex]
  BY DEF DenseCleared, Words
<1>2. <<>> \in Seq(RestingOrder)
  OBVIOUS
<1>3. queue \in [Index -> Seq(RestingOrder)] /\ Full(queue) = {}
  BY <1>2 DEF Full
<1>4. words \in [Words -> SUBSET (0..(WordBits - 1))] /\ Marks(words, Words, {})
  BY DEF Marks, Words
<1>5. IsBest(side, {}, NoIndex)
  BY DEF IsBest
<1> HIDE DEF d, words
<1>6. d \in DenseType
  <2> HIDE DEF queue
  <2> QED BY <1>1, <1>3, <1>4 DEF DenseType
<1>7. DenseIs(d)
  BY <1>1, <1>3, <1>4, <1>5, <1>6 DEF DenseIs
<1> QED
  BY <1>1, <1>7 DEF d

-----------------------------------------------------------------------------
(* The ring of cells.                                                      *)

(* The map has at least two cells for each level (level_map_capacity_for). *)
LEMMA MapCapacityIs == MapCapacity \in Nat \ {0} /\ MapCapacity >= 2 * MaxOrders /\ MaxOrders \in Nat \ {0}
<1>1. MaxOrders \in Nat \ {0}
  BY InputAssumption
<1> DEFINE P == {n \in Int : TRUE}
<1>2. /\ 2^1 \in P /\ 2^2 \in P /\ 2^3 \in P /\ 2^4 \in P /\ 2^5 \in P /\ 2^6 \in P
      /\ 2^7 \in P /\ 2^8 \in P /\ 2^9 \in P /\ 2^10 \in P /\ 2^11 \in P
      /\ 2^12 \in P /\ 2^13 \in P /\ 2^14 \in P /\ 2^15 \in P /\ 2^16 \in P
      /\ 2^17 \in P /\ 2^18 \in P /\ 2^19 \in P /\ 2^20 \in P /\ 2^21 \in P
      /\ 2^22 \in P /\ 2^23 \in P /\ 2^24 \in P /\ 2^25 \in P /\ 2^26 \in P
      /\ 2^27 \in P /\ 2^28 \in P /\ 2^29 \in P /\ 2^30 \in P /\ 2^31 \in P
  OBVIOUS
<1>3. ASSUME NEW k \in 1..31 PROVE 2^k \in P
  <2> HIDE DEF P
  <2>1. \/ k = 1 \/ k = 2 \/ k = 3 \/ k = 4 \/ k = 5 \/ k = 6 \/ k = 7 \/ k = 8
        \/ k = 9 \/ k = 10 \/ k = 11 \/ k = 12 \/ k = 13 \/ k = 14 \/ k = 15
        \/ k = 16 \/ k = 17 \/ k = 18 \/ k = 19 \/ k = 20 \/ k = 21 \/ k = 22
        \/ k = 23 \/ k = 24 \/ k = 25 \/ k = 26 \/ k = 27 \/ k = 28 \/ k = 29
        \/ k = 30 \/ k = 31
    OBVIOUS
  <2> QED BY <1>2, <2>1
<1>4. MapCapacity \in P
  <2>1. \E k \in 1..31 : MapCapacity = 2^k
    BY MapAssumption DEF IsMapCapacityFor
  <2> QED BY <2>1, <1>3
<1>5. 2 * MaxOrders <= MapCapacity
  BY MapAssumption DEF IsMapCapacityFor
<1> QED
  BY <1>1, <1>4, <1>5

(* A remainder may be taken before adding.                                 *)
LEMMA RemainderFirst ==
  ASSUME NEW d \in Nat \ {0}, NEW x \in Nat, NEW y \in Nat
  PROVE  ((x % d) + y) % d = (x + y) % d
<1> DEFINE k == x \div d
           r == x % d
           z == r + y
           j == z \div d
           s == z % d
           a == k * d
           b == j * d
           e == (k + j) * d
<1>1. k \in Int /\ r \in 0..(d - 1) /\ x = a + r
  BY Divided
<1>2. z \in Int
  BY <1>1
<1>3. j \in Int /\ s \in 0..(d - 1) /\ z = b + s
  <2> HIDE DEF z
  <2> QED BY <1>2, Divided
<1>4. a \in Int /\ b \in Int /\ e = a + b /\ k + j \in Int
  BY <1>1, <1>3
<1>5. x + y = e + s
  <2>1. z = r + y
    OBVIOUS
  <2> HIDE DEF a, b, e, k, j, r, s, z
  <2> QED BY <1>1, <1>2, <1>3, <1>4, <2>1
<1>6. (x + y) % d = s
  <2> DEFINE u == x + y
             i == k + j
  <2>1. u = i * d + s /\ i \in Int
    BY <1>4, <1>5
  <2> HIDE DEF u, i, s
  <2>2. u % d = s
    BY <1>3, <2>1, DividedOnce
  <2> QED BY <2>2 DEF u
<1> QED
  BY <1>6

(* Cells are a ring: going on from a cell adds up, and comes to every      *)
(* cell.                                                                   *)
LEMMA Ring ==
  ASSUME NEW c \in Cell
  PROVE  /\ \A n \in Nat : Plus(c, n) \in Cell
         /\ Plus(c, 0) = c
         /\ \A m, n \in Nat : Plus(Plus(c, m), n) = Plus(c, m + n)
         /\ \A n \in Nat : n % MapCapacity \in Cell /\ n % MapCapacity <= n
                           /\ Plus(c, n % MapCapacity) = Plus(c, n)
         /\ \A e \in Cell : \E n \in Cell : e = Plus(c, n)
<1> DEFINE C == MapCapacity
<1>1. C \in Nat \ {0} /\ Cell = 0..(C - 1) /\ c \in Nat /\ c < C
  BY MapCapacityIs DEF Cell
<1> HIDE DEF C
<1>2. \A n \in Nat : (c + n) % C \in Cell /\ Plus(c, n) = (c + n) % C
  <2> TAKE n \in Nat
  <2> DEFINE x == c + n
  <2>1. x \in Int /\ Plus(c, n) = x % C
    BY <1>1 DEF Plus, C
  <2> HIDE DEF x
  <2>2. x % C \in 0..(C - 1)
    BY <1>1, <2>1, Divided
  <2> QED BY <1>1, <2>1, <2>2 DEF x
<1>3. \A x \in Cell : x % C = x
  <2> TAKE x \in Cell
  <2>1. x \in 0..(C - 1)
    BY <1>1
  <2> QED BY <1>1, <2>1
<1>4. Plus(c, 0) = c
  <2>1. Plus(c, 0) = (c + 0) % C /\ c + 0 = c
    BY <1>1, <1>2
  <2>2. c % C = c
    BY <1>3
  <2> QED BY <2>1, <2>2
<1>5. \A m, n \in Nat : Plus(Plus(c, m), n) = Plus(c, m + n)
  <2> TAKE m, n \in Nat
  <2> DEFINE x == c + m
             y == x % C
  <2>1. x \in Nat /\ Plus(c, m) = y /\ m + n \in Nat /\ x + n = c + (m + n)
    BY <1>1, <1>2
  <2>2. Plus(y, n) = (y + n) % C
    BY DEF Plus, C
  <2> HIDE DEF x
  <2>3. (y + n) % C = (x + n) % C
    BY <1>1, <2>1, RemainderFirst
  <2>4. Plus(c, m + n) = (c + (m + n)) % C
    BY <1>2, <2>1
  <2> HIDE DEF y
  <2> QED BY <2>1, <2>2, <2>3, <2>4
<1>6. ASSUME NEW n \in Nat PROVE n % C \in Cell /\ n % C <= n /\ Plus(c, n % C) = Plus(c, n)
  <2> DEFINE k == n \div C
             r == n % C
             a == k * C
             b == 0 * C
  <2>1. k \in Int /\ r \in 0..(C - 1) /\ n = a + r
    BY <1>1, Divided
  <2>2. k < 0 => a + C <= b
    BY <1>1, <2>1, Rising
  <2>3. k > 0 => b + C <= a
    BY <1>1, <2>1, Rising
  <2>4. b = 0 /\ a \in Int /\ (k = 0 => a = 0)
    BY <1>1, <2>1
  <2> HIDE DEF k, r, a, b
  <2>5. r <= n /\ r \in Cell /\ r \in Nat
    BY <1>1, <2>1, <2>2, <2>3, <2>4
  <2>6. ((n % C) + c) % C = (n + c) % C
    BY <1>1, RemainderFirst
  <2>7. Plus(c, r) = (c + r) % C /\ Plus(c, n) = (c + n) % C
    BY <1>2, <2>5
  <2>8. c + r = (n % C) + c /\ c + n = n + c
    BY <1>1, <2>5 DEF r
  <2>9. Plus(c, r) = Plus(c, n)
    BY <2>6, <2>7, <2>8
  <2> QED BY <2>5, <2>9 DEF r
<1>7. ASSUME NEW e \in Cell PROVE \E n \in Cell : e = Plus(c, n)
  <2> DEFINE m == IF e >= c THEN e - c ELSE e - c + C
  <2>1. m \in Cell /\ m \in Nat /\ (c + m = e \/ c + m = e + C)
    BY <1>1
  <2>2. Plus(c, m) = (c + m) % C
    BY <1>2, <2>1
  <2> HIDE DEF m
  <2>3. CASE c + m = e
    BY <2>1, <2>2, <2>3, <1>3
  <2>4. CASE c + m = e + C
    <3> DEFINE x == e + C
    <3>1. x = 1 * C + e /\ e \in 0..(C - 1) /\ 1 \in Int
      BY <1>1
    <3> HIDE DEF x
    <3>2. x % C = e
      BY <1>1, <3>1, DividedOnce
    <3>3. Plus(c, m) = x % C
      BY <2>2, <2>4 DEF x
    <3> QED BY <2>1, <3>2, <3>3
  <2> QED BY <2>1, <2>3, <2>4
<1> QED
  BY <1>2, <1>4, <1>5, <1>6, <1>7 DEF C

-----------------------------------------------------------------------------
(* The price map.                                                          *)

(* An entry of the map. How far it is from home is not bounded here. *)
MapEntry ==
  [state: {"Empty", "Occupied", "Deleted"}, price: Price \cup {NoPrice},
   slot: Slot \cup {NoSlot}, dist: Nat]

(* The cells that hold an entry. *)
Taken(T) == {c \in Cell : T[c].state = "Occupied"}
(* The cells that hold a tombstone. *)
Spent(T) == {c \in Cell : T[c].state = "Deleted"}

(* A search from home h comes to cell c: no cell before it is empty.       *)
Comes(T, h, c, n) ==
  /\ n \in Nat /\ c = Plus(h, n)
  /\ \A m \in 0..(n - 1) : T[Plus(h, m)].state # "Empty"
(* A search from h comes to cell c. *)
Reaches(T, h, c) == \E n \in Nat : Comes(T, h, c, n)

(* The cell a search for price p starts from. *)
HomeOf(hash, p) == hash[p] % MapCapacity

(* It is a cell. *)
LEMMA HomeIs ==
  ASSUME NEW hash \in [Price -> Nat], NEW p \in Price
  PROVE  HomeOf(hash, p) \in Cell
<1> DEFINE x == hash[p]
<1>1. x \in Int
  OBVIOUS
<1> HIDE DEF x
<1>2. x % MapCapacity \in 0..(MapCapacity - 1)
  BY <1>1, MapCapacityIs, Divided
<1> QED
  BY <1>2 DEF HomeOf, Cell, x

(* Map T holds the slots of U, each once, by price, where searches come.   *)
MapIs(T, hash, U, price) ==
  /\ T \in [Cell -> MapEntry]
  /\ \A c \in Taken(T) :
       /\ T[c].slot \in U /\ T[c].price = price[T[c].slot]
       /\ Reaches(T, HomeOf(hash, T[c].price), c)
  /\ \A x \in U : \E c \in Taken(T) : T[c].slot = x
  /\ \A c, e \in Taken(T) : T[c].slot = T[e].slot => c = e

(* A search finds a price that is there.                                   *)
LEMMA Finds ==
  ASSUME NEW s, s.table \in [Cell -> MapEntry], NEW p, Home(s, p) \in Cell,
         NEW c \in Taken(s.table), s.table[c].price = p,
         Reaches(s.table, Home(s, p), c)
  PROVE  FindCell(s, p) \in Taken(s.table) /\ s.table[FindCell(s, p)].price = p
<1> DEFINE h == Home(s, p)
           T == s.table
           at(n) == T[Plus(h, n)]
           stops == {n \in Cell : \/ at(n).state = "Empty"
                                  \/ (at(n).state = "Occupied" /\ at(n).price = p)}
<1>1. FindCell(s, p) = IF stops # {} /\ at(Min(stops)).state = "Occupied"
                       THEN Plus(h, Min(stops)) ELSE NoCell
  BY DEF FindCell
<1>2. PICK k \in Nat : Comes(T, h, c, k)
  BY DEF Reaches
<1> DEFINE n == k % MapCapacity
<1>3. n \in Cell /\ n <= k /\ Plus(h, n) = c /\ n \in Nat
  <2>1. n \in Cell /\ n <= k /\ Plus(h, n) = Plus(h, k)
    BY Ring
  <2> QED BY <1>2, <2>1 DEF Comes, Cell
<1> HIDE DEF n, h
<1>4. n \in stops
  BY <1>3 DEF Taken
<1>5. stops \in SUBSET (0..(MapCapacity - 1)) /\ MapCapacity - 1 \in Int
  BY MapCapacityIs DEF Cell
<1> DEFINE m == Min(stops)
<1>6. m \in stops /\ m <= n /\ m \in Nat
  <2> HIDE DEF stops
  <2>1. Min(stops) \in stops /\ \A i \in stops : Min(stops) <= i
    BY <1>4, <1>5, Extremes
  <2>2. m \in stops /\ m <= n
    BY <1>4, <2>1
  <2> HIDE DEF m
  <2> QED BY <1>5, <2>2
<1> HIDE DEF m
<1>7. at(m).state = "Occupied" /\ at(m).price = p
  <2>1. CASE m = n
    BY <1>3, <2>1 DEF Taken
  <2>2. CASE m < n
    <3>1. m \in 0..(k - 1)
      BY <1>3, <1>6, <2>2
    <3>2. at(m).state # "Empty"
      BY <1>2, <3>1 DEF Comes
    <3> QED BY <1>6, <3>2
  <2> QED BY <1>3, <1>6, <2>1, <2>2
<1>8. FindCell(s, p) = Plus(h, m)
  <2>1. stops # {}
    BY <1>4
  <2> HIDE DEF stops
  <2> QED BY <1>1, <1>7, <2>1 DEF m
<1>9. Plus(h, m) \in Cell
  BY <1>6, Ring DEF h
<1> QED
  BY <1>7, <1>8, <1>9 DEF Taken

(* It finds nothing else.                                                  *)
LEMMA FindsNothing ==
  ASSUME NEW s, NEW p, Home(s, p) \in Cell,
         \A c \in Taken(s.table) : s.table[c].price # p
  PROVE  FindCell(s, p) = NoCell
<1> DEFINE h == Home(s, p)
           T == s.table
           at(n) == T[Plus(h, n)]
           stops == {n \in Cell : \/ at(n).state = "Empty"
                                  \/ (at(n).state = "Occupied" /\ at(n).price = p)}
<1>1. FindCell(s, p) = IF stops # {} /\ at(Min(stops)).state = "Occupied"
                       THEN Plus(h, Min(stops)) ELSE NoCell
  BY DEF FindCell
<1> HIDE DEF h
<1>2. stops \in SUBSET (0..(MapCapacity - 1)) /\ MapCapacity - 1 \in Int
  BY MapCapacityIs DEF Cell
<1>3. ASSUME stops # {} PROVE at(Min(stops)).state # "Occupied"
  <2> DEFINE m == Min(stops)
  <2>1. m \in stops
    <3> HIDE DEF stops
    <3> QED BY <1>2, <1>3, Extremes
  <2> HIDE DEF m
  <2>2. m \in Nat
    BY <1>2, <2>1
  <2>3. Plus(h, m) \in Cell
    BY <2>2, Ring DEF h
  <2>4. at(m).state # "Occupied"
    BY <2>1, <2>3 DEF Taken
  <2> QED BY <2>4 DEF m
<1> HIDE DEF stops
<1> QED
  BY <1>1, <1>3

(* Cells only become full on a search's way.                               *)
LEMMA StillReaches ==
  ASSUME NEW T, NEW V, NEW h \in Cell, NEW c, Reaches(T, h, c),
         \A e \in Cell : T[e].state # "Empty" => V[e].state # "Empty"
  PROVE  Reaches(V, h, c)
<1>1. PICK n \in Nat : Comes(T, h, c, n)
  BY DEF Reaches
<1>2. \A m \in 0..(n - 1) : V[Plus(h, m)].state # "Empty"
  <2> TAKE m \in 0..(n - 1)
  <2>1. Plus(h, m) \in Cell
    BY Ring
  <2>2. T[Plus(h, m)].state # "Empty"
    BY <1>1 DEF Comes
  <2> QED BY <2>1, <2>2
<1>3. Comes(V, h, c, n)
  BY <1>1, <1>2 DEF Comes
<1> QED
  BY <1>3 DEF Reaches

(* A full cell can be passed.                                              *)
LEMMA ReachesNext ==
  ASSUME NEW T, NEW h \in Cell, NEW c, Reaches(T, h, c), T[c].state # "Empty"
  PROVE  Reaches(T, h, Plus(c, 1))
<1>1. PICK n \in Nat : Comes(T, h, c, n)
  BY DEF Reaches
<1>2. n + 1 \in Nat /\ Plus(c, 1) = Plus(h, n + 1)
  BY <1>1, Ring DEF Comes
<1>3. \A m \in 0..((n + 1) - 1) : T[Plus(h, m)].state # "Empty"
  <2> TAKE m \in 0..((n + 1) - 1)
  <2>1. m = n \/ m \in 0..(n - 1)
    OBVIOUS
  <2> QED BY <1>1, <2>1 DEF Comes
<1>4. Comes(T, h, Plus(c, 1), n + 1)
  BY <1>2, <1>3 DEF Comes
<1> QED
  BY <1>2, <1>4 DEF Reaches

(* Entry e goes into cell c, and the slot of what was there is displaced.  *)
Put(T, c, e) == [T EXCEPT ![c] = e]
(* The slot that an entry put into cell c drives out. *)
Displaced(T, c) == IF c \in Taken(T) THEN {T[c].slot} ELSE {}

(* A cell that an entry is put into is taken and no tombstone. *)
LEMMA PutTakes ==
  ASSUME NEW T \in [Cell -> MapEntry], NEW c \in Cell, NEW e, e.state = "Occupied",
         NEW V, V = Put(T, c, e)
  PROVE  Taken(V) = Taken(T) \cup {c} /\ Spent(V) = Spent(T) \ {c}
<1>1. V[c] = e /\ \A b \in Cell : b # c => V[b] = T[b]
  BY DEF Put
<1> QED
  BY <1>1 DEF Taken, Spent

(* Entry e, for slot z that the map does not have yet, goes where a search *)
(* for it comes, and what was there is out of the map.                     *)
LEMMA PutInMap ==
  ASSUME NEW hash \in [Price -> Nat], NEW U, NEW price, \A x \in U : price[x] \in Price,
         NEW z \in U, NEW T, MapIs(T, hash, U \ {z}, price),
         NEW e \in MapEntry, e.state = "Occupied", e.slot = z, e.price = price[z],
         NEW c \in Cell, Reaches(T, HomeOf(hash, price[z]), c),
         NEW V, V = Put(T, c, e)
  PROVE  MapIs(V, hash, U \ Displaced(T, c), price)
<1> DEFINE gone == Displaced(T, c)
<1>0. gone = (IF c \in Taken(T) THEN {T[c].slot} ELSE {}) /\ V = [T EXCEPT ![c] = e]
  BY DEF Displaced, Put
<1> HIDE DEF gone
<1>1. /\ T \in [Cell -> MapEntry]
      /\ \A b \in Taken(T) : /\ T[b].slot \in U \ {z} /\ T[b].price = price[T[b].slot]
                            /\ Reaches(T, HomeOf(hash, T[b].price), b)
      /\ \A x \in U \ {z} : \E b \in Taken(T) : T[b].slot = x
      /\ \A b, f \in Taken(T) : T[b].slot = T[f].slot => b = f
  BY DEF MapIs
<1>2. V \in [Cell -> MapEntry] /\ V[c] = e /\ \A b \in Cell : b # c => V[b] = T[b]
  BY <1>0, <1>1
<1>3. Taken(V) = Taken(T) \cup {c}
  BY <1>1, PutTakes
<1>4. \A b \in Cell : T[b].state # "Empty" => V[b].state # "Empty"
  BY <1>2
<1>5. ASSUME NEW b \in Taken(V)
      PROVE  /\ V[b].slot \in U \ gone /\ V[b].price = price[V[b].slot]
             /\ Reaches(V, HomeOf(hash, V[b].price), b)
  <2>1. CASE b = c
    <3>1. V[b] = e /\ z \notin gone
      BY <1>0, <1>1, <1>2, <2>1
    <3>2. HomeOf(hash, price[z]) \in Cell
      BY HomeIs
    <3>3. Reaches(V, HomeOf(hash, price[z]), c)
      BY <1>4, <3>2, StillReaches
    <3> QED BY <2>1, <3>1, <3>3
  <2>2. CASE b # c
    <3>1. b \in Taken(T) /\ V[b] = T[b]
      BY <1>2, <1>3, <2>2 DEF Taken
    <3>2. T[b].slot \in U \ {z} /\ T[b].price = price[T[b].slot] /\ T[b].slot \notin gone
      BY <1>0, <1>1, <2>2, <3>1
    <3>3. HomeOf(hash, T[b].price) \in Cell
      BY <3>2, HomeIs
    <3>4. Reaches(T, HomeOf(hash, T[b].price), b)
      BY <1>1, <3>1
    <3>5. Reaches(V, HomeOf(hash, T[b].price), b)
      BY <1>4, <3>3, <3>4, StillReaches
    <3> QED BY <3>1, <3>2, <3>5
  <2> QED BY <2>1, <2>2
<1>6. ASSUME NEW x \in U \ gone PROVE \E b \in Taken(V) : V[b].slot = x
  <2>1. CASE x = z
    BY <1>2, <1>3, <2>1
  <2>2. CASE x # z
    <3>1. PICK b \in Taken(T) : T[b].slot = x
      BY <1>1, <2>2
    <3>2. b # c /\ b \in Taken(V) /\ b \in Cell
      BY <1>0, <3>1, <1>3 DEF Taken
    <3> QED BY <1>2, <3>1, <3>2
  <2> QED BY <2>1, <2>2
<1>7. ASSUME NEW b \in Taken(V), NEW f \in Taken(V), V[b].slot = V[f].slot PROVE b = f
  <2>1. \A g \in Taken(V) : g # c => g \in Taken(T) /\ V[g] = T[g] /\ V[g].slot # z
    BY <1>1, <1>2, <1>3 DEF Taken
  <2>2. V[c].slot = z
    BY <1>2
  <2> QED BY <1>1, <1>7, <2>1, <2>2
<1>8. MapIs(V, hash, U \ gone, price)
  BY <1>2, <1>5, <1>6, <1>7 DEF MapIs
<1> QED
  BY <1>8 DEF gone

(* What map_insert's loop works on.                                        *)
Rounds == [table: [Cell -> MapEntry], placed: BOOLEAN, reused: BOOLEAN, incoming: MapEntry]

(* What a round of map_insert changes when the entry goes into cell c, *)
FilledCell(a, c, x, y, z) == [a EXCEPT !.table[c] = x, !.placed = y, !.reused = z]
(* and when it changes places with what is in cell c. *)
SwappedCell(a, c, x, y) == [a EXCEPT !.table[c] = x, !.incoming = y]

(* The first, field by field. *)
LEMMA CellFilled ==
  ASSUME NEW t, NEW p, NEW r, NEW i, NEW c, NEW x, NEW y, NEW z, NEW a,
         a = [table |-> t, placed |-> p, reused |-> r, incoming |-> i]
  PROVE  FilledCell(a, c, x, y, z)
           = [table |-> [t EXCEPT ![c] = x], placed |-> y, reused |-> z, incoming |-> i]
<1> DEFINE v == [t EXCEPT ![c] = x]
           b == [a EXCEPT !.table[c] = x]
           f == [b EXCEPT !.placed = y]
<1>1. b = [table |-> v, placed |-> p, reused |-> r, incoming |-> i]
  OBVIOUS
<1>2. FilledCell(a, c, x, y, z) = [f EXCEPT !.reused = z]
  BY DEF FilledCell
<1> HIDE DEF v, b
<1>3. f = [table |-> v, placed |-> y, reused |-> r, incoming |-> i]
  BY <1>1
<1> HIDE DEF f
<1>4. [f EXCEPT !.reused = z] = [table |-> v, placed |-> y, reused |-> z, incoming |-> i]
  BY <1>3
<1> QED
  BY <1>2, <1>4 DEF v

(* The second, field by field. *)
LEMMA CellSwapped ==
  ASSUME NEW t, NEW p, NEW r, NEW i, NEW c, NEW x, NEW y, NEW a,
         a = [table |-> t, placed |-> p, reused |-> r, incoming |-> i]
  PROVE  SwappedCell(a, c, x, y)
           = [table |-> [t EXCEPT ![c] = x], placed |-> p, reused |-> r, incoming |-> y]
<1> DEFINE v == [t EXCEPT ![c] = x]
           b == [a EXCEPT !.table[c] = x]
<1>1. b = [table |-> v, placed |-> p, reused |-> r, incoming |-> i]
  OBVIOUS
<1>2. SwappedCell(a, c, x, y) = [b EXCEPT !.incoming = y]
  BY DEF SwappedCell
<1> HIDE DEF v, b
<1>3. [b EXCEPT !.incoming = y] = [table |-> v, placed |-> p, reused |-> r, incoming |-> y]
  BY <1>1
<1> QED
  BY <1>2, <1>3 DEF v

(* One round of it.                                                        *)
LEMMA RoundIs ==
  ASSUME NEW a \in Rounds, NEW h \in Cell, NEW n \in Nat,
         NEW c, c = Plus(h, n), NEW b, b = Probe(h, a, n)
  PROVE  /\ b \in Rounds /\ c \in Cell
         /\ a.placed => b = a
         /\ ~a.placed /\ a.table[c].state # "Occupied" =>
              /\ b.placed /\ b.table = [a.table EXCEPT ![c] = a.incoming]
              /\ b.reused <=> a.table[c].state = "Deleted"
         /\ ~a.placed /\ a.table[c].state = "Occupied" =>
              /\ ~b.placed
              /\ \/ /\ b.table = [a.table EXCEPT ![c] = a.incoming]
                    /\ b.incoming.state = a.table[c].state /\ b.incoming.slot = a.table[c].slot
                    /\ b.incoming.price = a.table[c].price
                 \/ /\ b.table = a.table
                    /\ b.incoming.state = a.incoming.state /\ b.incoming.slot = a.incoming.slot
                    /\ b.incoming.price = a.incoming.price
<1> DEFINE here == a.table[c]
           in == a.incoming
           more == [here EXCEPT !.dist = @ + 1]
           far == [in EXCEPT !.dist = @ + 1]
           put == [a.table EXCEPT ![c] = in]
<1>1. c \in Cell
  BY Ring
<1>2. /\ a = [table |-> a.table, placed |-> a.placed, reused |-> a.reused, incoming |-> in]
      /\ a.table \in [Cell -> MapEntry] /\ a.placed \in BOOLEAN /\ a.reused \in BOOLEAN
      /\ in \in MapEntry /\ here \in MapEntry
  BY <1>1 DEF Rounds
<1>3. /\ more \in MapEntry /\ more.state = here.state /\ more.slot = here.slot
      /\ more.price = here.price
  <2> HIDE DEF here
  <2> QED BY <1>2 DEF MapEntry
<1>4. /\ far \in MapEntry /\ far.state = in.state /\ far.slot = in.slot
      /\ far.price = in.price
  <2> HIDE DEF in
  <2> QED BY <1>2 DEF MapEntry
<1>5. put \in [Cell -> MapEntry]
  <2> HIDE DEF in
  <2> QED BY <1>1, <1>2
<1>6. CASE a.placed
  <2>1. b = a
    BY <1>6 DEF Probe
  <2> QED BY <1>1, <1>6, <2>1
<1>7. CASE ~a.placed /\ here.state # "Occupied"
  <2> DEFINE z == here.state = "Deleted"
  <2>1. b = FilledCell(a, c, in, TRUE, z)
    BY <1>7 DEF Probe, FilledCell
  <2>2. z \in BOOLEAN
    OBVIOUS
  <2>3. FilledCell(a, c, in, TRUE, z)
          = [table |-> put, placed |-> TRUE, reused |-> z, incoming |-> in]
    <3> DEFINE t == a.table
               p == a.placed
               r == a.reused
    <3>1. a = [table |-> t, placed |-> p, reused |-> r, incoming |-> in]
      BY <1>2
    <3> HIDE DEF z, in, t, p, r
    <3> DEFINE y == TRUE
    <3> HIDE DEF y
    <3>2. FilledCell(a, c, in, y, z)
          = [table |-> [t EXCEPT ![c] = in], placed |-> y, reused |-> z, incoming |-> in]
      BY <3>1, CellFilled
    <3> QED BY <3>2 DEF t, p, r, y
  <2>4. b.placed /\ b.table = put /\ b.reused = z /\ b \in Rounds
    <3> HIDE DEF z, put, in
    <3>1. b = [table |-> put, placed |-> TRUE, reused |-> z, incoming |-> in]
      BY <2>1, <2>3
    <3>2. b \in Rounds
      BY <1>2, <1>5, <2>2, <3>1 DEF Rounds
    <3>3. b.placed = TRUE /\ b.table = put /\ b.reused = z
      BY <3>1
    <3> QED BY <3>2, <3>3
  <2> QED BY <1>1, <1>7, <2>4
<1>8. CASE ~a.placed /\ here.state = "Occupied" /\ here.dist < in.dist
  <2>1. b = SwappedCell(a, c, in, more)
    BY <1>8 DEF Probe, SwappedCell
  <2>2. SwappedCell(a, c, in, more)
          = [table |-> put, placed |-> a.placed, reused |-> a.reused, incoming |-> more]
    <3> DEFINE t == a.table
               p == a.placed
               r == a.reused
    <3>1. a = [table |-> t, placed |-> p, reused |-> r, incoming |-> in]
      BY <1>2
    <3> HIDE DEF more, in, t, p, r
    <3>2. SwappedCell(a, c, in, more)
          = [table |-> [t EXCEPT ![c] = in], placed |-> p, reused |-> r, incoming |-> more]
      BY <3>1, CellSwapped
    <3> QED BY <3>2 DEF t, p, r
  <2>3. b.placed = a.placed /\ b.table = put /\ b.incoming = more /\ b \in Rounds
    <3> HIDE DEF more, put, in
    <3> QED BY <1>2, <1>3, <1>5, <2>1, <2>2 DEF Rounds
  <2> HIDE DEF more
  <2> QED BY <1>1, <1>3, <1>8, <2>3
<1>9. CASE ~a.placed /\ here.state = "Occupied" /\ ~(here.dist < in.dist)
  <2>1. b = [a EXCEPT !.incoming.dist = @ + 1]
    BY <1>9 DEF Probe
  <2>2. [a EXCEPT !.incoming.dist = @ + 1]
          = [table |-> a.table, placed |-> a.placed, reused |-> a.reused, incoming |-> far]
    <3> HIDE DEF in
    <3> QED BY <1>2
  <2>3. b.placed = a.placed /\ b.table = a.table /\ b.incoming = far /\ b \in Rounds
    <3> HIDE DEF far, in
    <3> QED BY <1>2, <1>4, <2>1, <2>2 DEF Rounds
  <2> HIDE DEF far
  <2> QED BY <1>1, <1>4, <1>9, <2>3
<1> QED
  BY <1>6, <1>7, <1>8, <1>9

(* What FoldLeft iterates in Placed.                                       *)
MapProbes(g, start, n, q, h) ==
  g = [T \in SUBSET (1..n) |->
         IF T = {} THEN start ELSE Probe(h, g[T \ {Max(T)}], q[Max(T)])]

(* Every round stays in V, *)
MapProbesIn(V, n, q, h) ==
  \A k \in 1..n, x \in V : Probe(h, x, q[k]) \in V
(* and F has the result of each. *)
MapProbesSteps(F, n, q, h) ==
  \A k \in 1..n : F[k] = Probe(h, F[k - 1], q[k])

(* map_insert's loop, round by round.                                      *)
LEMMA MapProbesRun ==
  ASSUME NEW n \in Nat, NEW q, NEW h, NEW V, NEW start \in V,
         MapProbesIn(V, n, q, h)
  PROVE  \E F : /\ F \in [0..n -> V] /\ F[0] = start
               /\ MapProbesSteps(F, n, q, h)
               /\ F[n] = (CHOOSE g : MapProbes(g, start, n, q, h))[1..n]
<1> DEFINE step == [k \in 1..n |-> [x \in V |-> Probe(h, x, q[k])]]
           iter == CHOOSE g : MapProbes(g, start, n, q, h)
<1>1. IsStep(step, n, V)
  BY DEF IsStep, MapProbesIn
<1>2. \A k \in 1..n, x \in V : step[k][x] = Probe(h, x, q[k])
  OBVIOUS
<1> HIDE DEF step
<1>4. PICK g \in [SUBSET (1..n) -> V] : FoldsUp(g, n, V, start, step)
  BY <1>1, FoldExists, Zenon
<1>5. MapProbes(g, start, n, q, h)
  <2>1. ASSUME NEW T \in SUBSET (1..n)
        PROVE  g[T] = IF T = {} THEN start ELSE Probe(h, g[T \ {Max(T)}], q[Max(T)])
    <3>1. CASE T # {}
      <4>1. Max(T) \in 1..n
        BY <3>1, MaxOfPart
      <4>2. T \ {Max(T)} \in SUBSET (1..n)
        OBVIOUS
      <4>3. g[T \ {Max(T)}] \in V
        BY <4>2
      <4>4. g[T] = step[Max(T)][g[T \ {Max(T)}]]
        BY <1>4, <3>1, <4>3, Zenon DEF FoldsUp
      <4>5. step[Max(T)][g[T \ {Max(T)}]] = Probe(h, g[T \ {Max(T)}], q[Max(T)])
        BY <1>2, <4>1, <4>3, Zenon
      <4> QED BY <3>1, <4>4, <4>5
    <3>2. CASE T = {}
      BY <3>2, <1>4 DEF FoldsUp
    <3> QED BY <3>1, <3>2
  <2> QED BY <2>1 DEF MapProbes
<1>6. MapProbes(iter, start, n, q, h)
  BY <1>5, Zenon
<1>7. \A T \in SUBSET (1..n) :
        iter[T] = IF T = {} THEN start ELSE Probe(h, iter[T \ {Max(T)}], q[Max(T)])
  <2> HIDE DEF iter
  <2> QED BY <1>6 DEF MapProbes
<1> HIDE DEF iter
<1>8. FoldsUp(iter, n, V, start, step)
  <2>1. \A T \in SUBSET (1..n) : T # {} => Max(T) \in 1..n
    BY MaxOfPart
  <2>2. \A T \in SUBSET (1..n) :
          T # {} /\ iter[T \ {Max(T)}] \in V
            => iter[T] = step[Max(T)][iter[T \ {Max(T)}]]
    <3> TAKE T \in SUBSET (1..n)
    <3> HAVE T # {} /\ iter[T \ {Max(T)}] \in V
    <3>1. iter[T] = Probe(h, iter[T \ {Max(T)}], q[Max(T)])
      BY <1>7
    <3>2. Max(T) \in 1..n
      BY <2>1
    <3>3. step[Max(T)][iter[T \ {Max(T)}]] = Probe(h, iter[T \ {Max(T)}], q[Max(T)])
      BY <1>2, <3>2, Zenon
    <3> QED BY <3>1, <3>3
  <2>3. iter[{}] = start
    BY <1>7
  <2> QED BY <2>2, <2>3 DEF FoldsUp
<1>9. PICK F : Steps(F, n, V, start, step) /\ iter[1..n] = F[n]
  BY <1>1, <1>8, FoldPrefixes
<1>10. F \in [0..n -> V] /\ F[0] = start /\ \A k \in 1..n : F[k] = step[k][F[k - 1]]
  BY <1>9 DEF Steps
<1>11. \A k \in 1..n : F[k] = Probe(h, F[k - 1], q[k])
  <2> TAKE k \in 1..n
  <2>1. k - 1 \in 0..n
    OBVIOUS
  <2>2. F[k - 1] \in V
    BY <1>10, <2>1
  <2>3. step[k][F[k - 1]] = Probe(h, F[k - 1], q[k])
    BY <1>2, <2>2, Zenon
  <2> QED BY <2>3, <1>10
<1> QED
  BY <1>9, <1>10, <1>11 DEF iter, MapProbesSteps

(* After k rounds at taken cells: the table holds the slots of U but the   *)
(* incoming entry's, with the same cells taken, and a search for that one  *)
(* would come to the next cell.                                            *)
Travels(a, T, h, k, hash, U, price) ==
  /\ a \in Rounds /\ ~a.placed
  /\ \A c \in Cell : a.table[c].state = T[c].state
  /\ \A m \in 0..(k - 1) : Plus(h, m) \in Taken(T)
  /\ a.incoming.state = "Occupied" /\ a.incoming.slot \in U
  /\ a.incoming.price = price[a.incoming.slot]
  /\ MapIs(a.table, hash, U \ {a.incoming.slot}, price)
  /\ Reaches(a.table, HomeOf(hash, a.incoming.price), Plus(h, k))

(* Every slot of U is in the table, in one more cell.                      *)
Arrived(a, T, hash, U, price) ==
  /\ a \in Rounds /\ a.placed
  /\ MapIs(a.table, hash, U, price)
  /\ \E c \in Cell \ Taken(T) : /\ Taken(a.table) = Taken(T) \cup {c}
                                /\ Spent(a.table) = Spent(T) \ {c}
                                /\ a.reused <=> c \in Spent(T)

(* Which cells are taken or spent depends on their states only. *)
LEMMA SameStates ==
  ASSUME NEW T, NEW V, \A c \in Cell : V[c].state = T[c].state
  PROVE  Taken(V) = Taken(T) /\ Spent(V) = Spent(T)
  BY DEF Taken, Spent

(* A round keeps the type, and does nothing once the entry is placed. *)
LEMMA RoundStays ==
  ASSUME NEW a \in Rounds, NEW h \in Cell, NEW n \in Nat
  PROVE  Probe(h, a, n) \in Rounds /\ (a.placed => Probe(h, a, n) = a)
<1>1. Probe(h, a, n) \in Rounds
  BY RoundIs
<1>2. a.placed => Probe(h, a, n) = a
  BY DEF Probe
<1> QED
  BY <1>1, <1>2

(* A round takes an entry that travels one cell further, or the entry      *)
(* arrives.                                                                *)
LEMMA TravelsOn ==
  ASSUME NEW hash \in [Price -> Nat], NEW U, NEW price, \A x \in U : price[x] \in Price,
         NEW T, NEW h \in Cell, NEW k \in Nat, NEW a, Travels(a, T, h, k, hash, U, price),
         NEW b, b = Probe(h, a, k)
  PROVE  IF Plus(h, k) \in Taken(T) THEN Travels(b, T, h, k + 1, hash, U, price)
         ELSE Arrived(b, T, hash, U, price)
<1> DEFINE c == Plus(h, k)
           z == a.incoming.slot
           V == [a.table EXCEPT ![c] = a.incoming]
           gone == IF c \in Taken(a.table) THEN {a.table[c].slot} ELSE {}
<1>1. a \in Rounds /\ ~a.placed /\ a.incoming \in MapEntry /\ a.table \in [Cell -> MapEntry]
  BY DEF Travels, Rounds
<1>2. /\ b \in Rounds /\ c \in Cell
      /\ a.table[c].state # "Occupied" =>
              /\ b.placed /\ b.table = V
              /\ b.reused <=> a.table[c].state = "Deleted"
      /\ a.table[c].state = "Occupied" =>
              /\ ~b.placed
              /\ \/ /\ b.table = V
                    /\ b.incoming.state = a.table[c].state /\ b.incoming.slot = a.table[c].slot
                    /\ b.incoming.price = a.table[c].price
                 \/ /\ b.table = a.table
                    /\ b.incoming.state = a.incoming.state /\ b.incoming.slot = z
                    /\ b.incoming.price = a.incoming.price
  BY <1>1, RoundIs
<1>3. Taken(a.table) = Taken(T) /\ Spent(a.table) = Spent(T)
  BY SameStates DEF Travels
<1>4. /\ z \in U /\ a.incoming.state = "Occupied" /\ a.incoming.price = price[z]
      /\ MapIs(a.table, hash, U \ {z}, price)
      /\ Reaches(a.table, HomeOf(hash, price[z]), c)
  BY DEF Travels
<1>5. c \in Taken(T) <=> a.table[c].state = "Occupied"
  BY <1>2, <1>3 DEF Taken
<1>6. /\ MapIs(V, hash, U \ gone, price)
      /\ Taken(V) = Taken(T) \cup {c} /\ Spent(V) = Spent(T) \ {c}
  <2> DEFINE e == a.incoming
             t == a.table
  <2>1. e \in MapEntry
    BY <1>1
  <2>2. e.state = "Occupied" /\ e.slot = z /\ e.price = price[z]
    BY <1>4
  <2>3. V = Put(t, c, e)
    BY DEF Put
  <2>4. c \in Cell
    BY <1>2
  <2>5. MapIs(t, hash, U \ {z}, price)
    BY <1>4
  <2>6. Reaches(t, HomeOf(hash, price[z]), c)
    BY <1>4
  <2>7. gone = Displaced(t, c)
    BY DEF Displaced
  <2>8. z \in U
    BY <1>4
  <2> HIDE DEF e, c, z, V, gone, t
  <2>9. MapIs(V, hash, U \ Displaced(t, c), price)
    BY <2>1, <2>2, <2>3, <2>4, <2>5, <2>6, <2>8, PutInMap
  <2>10. Taken(V) = Taken(t) \cup {c} /\ Spent(V) = Spent(t) \ {c}
    <3>1. t \in [Cell -> MapEntry]
      BY <1>1 DEF t
    <3> QED BY <2>2, <2>3, <2>4, <3>1, PutTakes
  <2> QED BY <1>3, <2>7, <2>9, <2>10 DEF t
<1>7. CASE c \notin Taken(T)
  <2>1. gone = {}
    BY <1>3, <1>7
  <2>2. b \in Rounds /\ b.placed /\ b.table = V /\ (b.reused <=> c \in Spent(T))
    BY <1>2, <1>3, <1>5, <1>7 DEF Spent
  <2>3. MapIs(b.table, hash, U, price)
    BY <1>6, <2>1, <2>2
  <2>4. c \in Cell \ Taken(T)
    BY <1>2, <1>7
  <2> HIDE DEF c, V
  <2>5. Taken(b.table) = Taken(T) \cup {c} /\ Spent(b.table) = Spent(T) \ {c}
    BY <1>6, <2>2
  <2>6. Arrived(b, T, hash, U, price)
    BY <2>2, <2>3, <2>4, <2>5 DEF Arrived
  <2> QED BY <1>7, <2>6 DEF c
<1>8. CASE c \in Taken(T)
  <2> DEFINE here == a.table[c]
             y == here.slot
  <2>1. b \in Rounds /\ ~b.placed /\ here.state = "Occupied" /\ c \in Cell /\ c \in Taken(a.table)
    BY <1>2, <1>3, <1>5, <1>8
  <2>2. y \in U \ {z} /\ here.price = price[y] /\ Reaches(a.table, HomeOf(hash, here.price), c)
    BY <1>4, <2>1 DEF MapIs
  <2>3. \A m \in 0..((k + 1) - 1) : Plus(h, m) \in Taken(T)
    <3> TAKE m \in 0..((k + 1) - 1)
    <3>1. m = k \/ m \in 0..(k - 1)
      OBVIOUS
    <3> QED BY <1>8, <3>1 DEF Travels
  <2>4. Plus(h, k + 1) = Plus(c, 1)
    BY Ring
  <2>5. \A e \in Cell : V[e].state = T[e].state
    <3>1. \A e \in Cell : a.table[e].state = T[e].state
      BY DEF Travels
    <3>2. V[c] = a.incoming /\ \A e \in Cell : e # c => V[e] = a.table[e]
      BY <1>1, <2>1
    <3> HIDE DEF V, c
    <3> QED BY <1>4, <2>1, <3>1, <3>2
  <2>6. CASE b.table = a.table /\ b.incoming.slot = z
    <3>1. /\ b.incoming.state = "Occupied" /\ b.incoming.price = price[z]
      <4>1. z # y
        BY <2>2
      <4>2. V # a.table
        <5>1. V[c].slot = z
          BY <1>1, <2>1
        <5> QED BY <5>1, <4>1
      <4> QED BY <1>2, <1>4, <2>1, <2>6, <4>2
    <3>2. Reaches(a.table, HomeOf(hash, price[z]), Plus(c, 1))
      <4>1. HomeOf(hash, price[z]) \in Cell
        BY <1>4, HomeIs
      <4>2. a.table[c].state # "Empty"
        BY <2>1
      <4> HIDE DEF c, z
      <4> QED BY <1>4, <4>1, <4>2, ReachesNext
    <3>3. \A e \in Cell : b.table[e].state = T[e].state
      BY <2>6 DEF Travels
    <3> HIDE DEF c, z
    <3> QED BY <1>4, <1>8, <2>1, <2>3, <2>4, <2>6, <3>1, <3>2, <3>3 DEF Travels, c
  <2>7. CASE /\ b.table = V /\ b.incoming.state = here.state /\ b.incoming.slot = y
             /\ b.incoming.price = here.price
    <3>1. gone = {y}
      BY <2>1
    <3>2. MapIs(b.table, hash, U \ {y}, price)
      BY <1>6, <2>7, <3>1
    <3>3. Reaches(V, HomeOf(hash, here.price), Plus(c, 1))
      <4>1. HomeOf(hash, here.price) \in Cell
        BY <2>2, HomeIs
      <4>2. \A e \in Cell : a.table[e].state # "Empty" => V[e].state # "Empty"
        BY <2>5 DEF Travels
      <4>3. V[c].state # "Empty"
        BY <1>1, <1>4, <2>1
      <4> HIDE DEF c, V, here
      <4>4. Reaches(V, HomeOf(hash, here.price), c)
        BY <2>2, <4>1, <4>2, StillReaches
      <4> QED BY <4>1, <4>3, <4>4, ReachesNext
    <3>4. \A e \in Cell : b.table[e].state = T[e].state
      BY <2>5, <2>7
    <3> HIDE DEF c, V
    <3>5. Reaches(b.table, HomeOf(hash, b.incoming.price), Plus(h, k + 1))
      BY <2>4, <2>7, <3>3
    <3>6. b.incoming.state = "Occupied" /\ b.incoming.slot \in U /\ b.incoming.price = price[b.incoming.slot]
      BY <2>1, <2>2, <2>7
    <3>7. MapIs(b.table, hash, U \ {b.incoming.slot}, price)
      BY <2>7, <3>2
    <3> QED BY <1>8, <2>1, <2>3, <3>4, <3>5, <3>6, <3>7 DEF Travels, c
  <2> QED BY <1>2, <2>1, <2>6, <2>7
<1> QED
  BY <1>7, <1>8

(* A map with room takes one more slot.                                    *)
LEMMA PlacedIs ==
  ASSUME NEW s, s.hash \in [Price -> Nat], NEW U, NEW price, \A x \in U : price[x] \in Price,
         NEW slot \in U, slot \in Slot, MapIs(s.table, s.hash, U \ {slot}, price),
         Taken(s.table) # Cell
  PROVE  Arrived(Placed(s, price[slot], slot), s.table, s.hash, U, price)
<1> DEFINE T == s.table
           hash == s.hash
           p == price[slot]
           h == HomeOf(hash, p)
           n == MapCapacity
           q == [i \in 1..n |-> i - 1]
           in == [state |-> "Occupied", price |-> p, slot |-> slot, dist |-> 0]
           base == [table |-> T, placed |-> FALSE, reused |-> FALSE, incoming |-> in]
           r == Placed(s, p, slot)
<1>1. n \in Nat \ {0} /\ p \in Price /\ h \in Cell /\ T \in [Cell -> MapEntry]
  BY MapCapacityIs, HomeIs DEF MapIs
<1>2. in \in MapEntry
  BY <1>1 DEF MapEntry
<1>3. base \in Rounds
  <2> HIDE DEF in, T
  <2> QED BY <1>1, <1>2 DEF Rounds
<1>4. MapProbesIn(Rounds, n, q, h)
  <2>1. ASSUME NEW k \in 1..n, NEW x \in Rounds PROVE Probe(h, x, q[k]) \in Rounds
    <3>1. q[k] = k - 1 /\ k - 1 \in Nat
      BY <1>1
    <3> HIDE DEF q, h
    <3> QED BY <1>1, <3>1, RoundStays
  <2> HIDE DEF q, h
  <2> QED BY <2>1 DEF MapProbesIn
<1>5. PICK F : /\ F \in [0..n -> Rounds] /\ F[0] = base
               /\ MapProbesSteps(F, n, q, h)
               /\ F[n] = (CHOOSE g : MapProbes(g, base, n, q, h))[1..n]
  <2> HIDE DEF q, h, base
  <2>1. n \in Nat
    BY <1>1
  <2> HIDE DEF n
  <2> QED BY <1>3, <1>4, <2>1, MapProbesRun
<1>6. r = F[n]
  <2>1. DOMAIN q = 1..n
    OBVIOUS
  <2>2. Home(s, p) = h
    BY DEF Home, HomeOf
  <2>3. r = (CHOOSE g : MapProbes(g, base, n, q, h))[1..n]
    <3>1. r = FoldLeft(LAMBDA acc, i : Probe(h, acc, i), base, q)
      BY <2>2 DEF Placed
    <3> HIDE DEF r, h, base, q, n
    <3> QED BY <2>1, <3>1 DEF FoldLeft, MapThenFoldSet, MapProbes
  <2> QED BY <1>5, <2>3
<1>7. \A k \in 1..n : F[k] = Probe(h, F[k - 1], k - 1)
  <2> TAKE k \in 1..n
  <2>1. q[k] = k - 1
    OBVIOUS
  <2> HIDE DEF q
  <2> QED BY <1>5, <2>1 DEF MapProbesSteps
<1>8. Travels(F[0], T, h, 0, hash, U, price)
  <2>1. Reaches(T, h, Plus(h, 0))
    <3>1. Comes(T, h, Plus(h, 0), 0)
      BY DEF Comes
    <3> QED BY <3>1 DEF Reaches
  <2>2. /\ F[0].placed = FALSE /\ F[0].table = T /\ F[0].incoming = in /\ F[0] \in Rounds
    BY <1>3, <1>5
  <2>3. in.state = "Occupied" /\ in.slot = slot /\ in.price = p
    OBVIOUS
  <2>4. ~F[0].placed /\ (0..(0 - 1)) = {}
    BY <2>2
  <2> HIDE DEF in, T, h, hash, p
  <2>5. /\ F[0].incoming.state = "Occupied" /\ F[0].incoming.slot \in U
        /\ F[0].incoming.price = price[F[0].incoming.slot]
    BY <2>2, <2>3 DEF p
  <2>6. MapIs(F[0].table, hash, U \ {F[0].incoming.slot}, price)
    BY <2>2, <2>3 DEF T, hash
  <2>7. Reaches(F[0].table, HomeOf(hash, F[0].incoming.price), Plus(h, 0))
    BY <2>1, <2>2, <2>3 DEF h
  <2> QED BY <2>2, <2>4, <2>5, <2>6, <2>7 DEF Travels
<1> HIDE DEF T, hash, p, h, q, in, base, r
<1> DEFINE P == {k \in Nat : k <= n => \/ Travels(F[k], T, h, k, hash, U, price)
                                       \/ Arrived(F[k], T, hash, U, price)}
<1>9. 0 \in P
  BY <1>8
<1>10. ASSUME NEW k \in P PROVE k + 1 \in P
  <2>1. CASE k + 1 <= n
    <3>1. k \in Nat /\ k <= n /\ k + 1 \in 1..n /\ (k + 1) - 1 = k
      BY <1>1, <2>1
    <3>2. F[k + 1] = Probe(h, F[k], k)
      BY <1>7, <3>1
    <3>3. CASE Travels(F[k], T, h, k, hash, U, price)
      <4>1. hash \in [Price -> Nat]
        BY DEF hash
      <4>2. IF Plus(h, k) \in Taken(T) THEN Travels(F[k + 1], T, h, k + 1, hash, U, price)
            ELSE Arrived(F[k + 1], T, hash, U, price)
        BY <1>1, <3>1, <3>2, <3>3, <4>1, TravelsOn
      <4> QED BY <3>1, <4>2
    <3>4. CASE Arrived(F[k], T, hash, U, price)
      <4>1. F[k] \in Rounds /\ F[k].placed
        BY <3>4 DEF Arrived
      <4>2. F[k + 1] = F[k]
        BY <1>1, <3>1, <3>2, <4>1, RoundStays
      <4> QED BY <3>1, <3>4, <4>2
    <3> QED BY <3>1, <3>3, <3>4
  <2>2. CASE ~(k + 1 <= n)
    BY <2>2
  <2> QED BY <2>1, <2>2
<1>11. P = Nat
  <2>1. P \in SUBSET Nat
    OBVIOUS
  <2> HIDE DEF P
  <2> QED BY <1>9, <1>10, <2>1, Induction
<1>12. Travels(F[n], T, h, n, hash, U, price) \/ Arrived(F[n], T, hash, U, price)
  <2>1. n \in P /\ n <= n
    BY <1>1, <1>11
  <2> QED BY <2>1
<1>13. ~Travels(F[n], T, h, n, hash, U, price)
  <2> SUFFICES ASSUME Travels(F[n], T, h, n, hash, U, price) PROVE FALSE
    OBVIOUS
  <2>1. \A c \in Cell : c \in Taken(T)
    <3> TAKE c \in Cell
    <3>1. PICK m \in Cell : c = Plus(h, m)
      BY <1>1, Ring
    <3>2. m \in 0..(n - 1)
      BY DEF Cell
    <3> QED BY <3>1, <3>2 DEF Travels
  <2>2. Taken(T) \subseteq Cell
    BY DEF Taken
  <2> QED BY <2>1, <2>2 DEF T
<1>14. Arrived(r, T, hash, U, price)
  BY <1>6, <1>12, <1>13
<1> QED
  BY <1>14 DEF r, T, hash, p

-----------------------------------------------------------------------------
(* Slots in price order.                                                   *)

(* r is q with x inserted at place i. *)
InsertAtShape(r, q, i, x) ==
  /\ Len(r) = Len(q) + 1
  /\ \A j \in 1..(Len(q) + 1) : r[j] = IF j < i THEN q[j] ELSE IF j = i THEN x ELSE q[j - 1]

(* InsertAt does that. *)
LEMMA InsertAtProperties ==
  ASSUME NEW S, NEW q \in Seq(S), NEW i \in 1..(Len(q) + 1), NEW x \in S
  PROVE  InsertAt(q, i, x) \in Seq(S) /\ InsertAtShape(InsertAt(q, i, x), q, i, x)
<1> DEFINE n == Len(q)
           a == SubSeq(q, 1, i - 1)
           b == SubSeq(q, i, n)
           c == a \o <<x>>
           r == c \o b
<1>0. n \in Nat /\ i \in 1..(n + 1)
  BY LenProperties
<1>1. a \in Seq(S) /\ Len(a) = i - 1 /\ \A j \in 1..(i - 1) : a[j] = q[j]
  BY <1>0, SubSeqProperties
<1>2. /\ b \in Seq(S) /\ Len(b) = n - i + 1
      /\ \A j \in 1..(n - i + 1) : b[j] = q[i + j - 1]
  BY <1>0, SubSeqProperties
<1>3. InsertAt(q, i, x) = r
  BY DEF InsertAt
<1> HIDE DEF a, b
<1>4. <<x>> \in Seq(S) /\ Len(<<x>>) = 1 /\ <<x>>[1] = x
  OBVIOUS
<1>5. c \in Seq(S) /\ Len(c) = i /\ \A j \in 1..i : c[j] = IF j < i THEN q[j] ELSE x
  <2> DEFINE y == <<x>>
  <2>0. y \in Seq(S) /\ Len(y) = 1 /\ y[1] = x
    BY <1>4
  <2> HIDE DEF y
  <2>1. /\ a \o y \in Seq(S) /\ Len(a \o y) = Len(a) + Len(y)
        /\ \A j \in 1..(Len(a) + Len(y)) :
             (a \o y)[j] = IF j <= Len(a) THEN a[j] ELSE y[j - Len(a)]
    BY <1>1, <2>0, ConcatProperties, Zenon
  <2>2. Len(a) + Len(y) = i
    BY <1>0, <1>1, <2>0
  <2>3. \A j \in 1..i : (a \o y)[j] = IF j < i THEN q[j] ELSE x
    <3> TAKE j \in 1..i
    <3>1. CASE j < i
      BY <1>0, <1>1, <2>1, <2>2, <3>1
    <3>2. CASE j = i
      <4>1. j - Len(a) = 1 /\ ~(j <= Len(a))
        BY <1>0, <1>1, <3>2
      <4> QED BY <2>0, <2>1, <2>2, <3>2, <4>1
    <3>3. j < i \/ j = i
      BY <1>0
    <3> QED BY <3>1, <3>2, <3>3
  <2> QED BY <2>1, <2>2, <2>3 DEF y
<1> HIDE DEF c
<1>6. /\ r \in Seq(S) /\ Len(r) = n + 1
      /\ \A j \in 1..(n + 1) : r[j] = IF j <= i THEN c[j] ELSE b[j - i]
  <2>1. /\ c \o b \in Seq(S) /\ Len(c \o b) = Len(c) + Len(b)
        /\ \A j \in 1..(Len(c) + Len(b)) :
             (c \o b)[j] = IF j <= Len(c) THEN c[j] ELSE b[j - Len(c)]
    BY <1>2, <1>5, ConcatProperties, Zenon
  <2>2. Len(c) + Len(b) = n + 1 /\ Len(c) = i
    BY <1>0, <1>2, <1>5
  <2> QED BY <2>1, <2>2
<1>7. \A j \in 1..(n + 1) : r[j] = IF j < i THEN q[j] ELSE IF j = i THEN x ELSE q[j - 1]
  <2> TAKE j \in 1..(n + 1)
  <2>1. CASE j <= i
    <3>1. j \in 1..i
      BY <1>0, <2>1
    <3> QED BY <1>0, <1>5, <1>6, <2>1, <3>1
  <2>2. CASE j > i
    <3>1. j - i \in 1..(n - i + 1) /\ i + (j - i) - 1 = j - 1 /\ ~(j <= i) /\ ~(j < i) /\ j # i
      BY <1>0, <2>2
    <3>2. b[j - i] = q[i + (j - i) - 1]
      BY <1>2, <3>1
    <3> QED BY <1>6, <3>1, <3>2
  <2>3. j <= i \/ j > i
    BY <1>0
  <2> QED BY <2>1, <2>2, <2>3
<1> QED
  BY <1>3, <1>6, <1>7 DEF InsertAtShape

(* What FoldLeft iterates in LowerBound.                                   *)
Halves(g, start, n, q, s, p) ==
  g = [T \in SUBSET (1..n) |->
         IF T = {} THEN start ELSE Halve(s, p, g[T \ {Max(T)}])]

(* Every round stays in V, *)
HalvesIn(V, n, q, s, p) ==
  \A k \in 1..n, x \in V : Halve(s, p, x) \in V
(* and F has the result of each. *)
HalvesSteps(F, n, q, s, p) ==
  \A k \in 1..n : F[k] = Halve(s, p, F[k - 1])

(* lower_bound_price's loop, round by round.                               *)
LEMMA HalvesRun ==
  ASSUME NEW n \in Nat, NEW q, NEW s, NEW p, NEW V, NEW start \in V,
         HalvesIn(V, n, q, s, p)
  PROVE  \E F : /\ F \in [0..n -> V] /\ F[0] = start
               /\ HalvesSteps(F, n, q, s, p)
               /\ F[n] = (CHOOSE g : Halves(g, start, n, q, s, p))[1..n]
<1> DEFINE step == [k \in 1..n |-> [x \in V |-> Halve(s, p, x)]]
           iter == CHOOSE g : Halves(g, start, n, q, s, p)
<1>1. IsStep(step, n, V)
  BY DEF IsStep, HalvesIn
<1>2. \A k \in 1..n, x \in V : step[k][x] = Halve(s, p, x)
  OBVIOUS
<1> HIDE DEF step
<1>4. PICK g \in [SUBSET (1..n) -> V] : FoldsUp(g, n, V, start, step)
  BY <1>1, FoldExists, Zenon
<1>5. Halves(g, start, n, q, s, p)
  <2>1. ASSUME NEW T \in SUBSET (1..n)
        PROVE  g[T] = IF T = {} THEN start ELSE Halve(s, p, g[T \ {Max(T)}])
    <3>1. CASE T # {}
      <4>1. Max(T) \in 1..n
        BY <3>1, MaxOfPart
      <4>2. T \ {Max(T)} \in SUBSET (1..n)
        OBVIOUS
      <4>3. g[T \ {Max(T)}] \in V
        BY <4>2
      <4>4. g[T] = step[Max(T)][g[T \ {Max(T)}]]
        BY <1>4, <3>1, <4>3, Zenon DEF FoldsUp
      <4>5. step[Max(T)][g[T \ {Max(T)}]] = Halve(s, p, g[T \ {Max(T)}])
        BY <1>2, <4>1, <4>3, Zenon
      <4> QED BY <3>1, <4>4, <4>5
    <3>2. CASE T = {}
      BY <3>2, <1>4 DEF FoldsUp
    <3> QED BY <3>1, <3>2
  <2> QED BY <2>1 DEF Halves
<1>6. Halves(iter, start, n, q, s, p)
  BY <1>5, Zenon
<1>7. \A T \in SUBSET (1..n) :
        iter[T] = IF T = {} THEN start ELSE Halve(s, p, iter[T \ {Max(T)}])
  <2> HIDE DEF iter
  <2> QED BY <1>6 DEF Halves
<1> HIDE DEF iter
<1>8. FoldsUp(iter, n, V, start, step)
  <2>1. \A T \in SUBSET (1..n) : T # {} => Max(T) \in 1..n
    BY MaxOfPart
  <2>2. \A T \in SUBSET (1..n) :
          T # {} /\ iter[T \ {Max(T)}] \in V
            => iter[T] = step[Max(T)][iter[T \ {Max(T)}]]
    <3> TAKE T \in SUBSET (1..n)
    <3> HAVE T # {} /\ iter[T \ {Max(T)}] \in V
    <3>1. iter[T] = Halve(s, p, iter[T \ {Max(T)}])
      BY <1>7
    <3>2. Max(T) \in 1..n
      BY <2>1
    <3>3. step[Max(T)][iter[T \ {Max(T)}]] = Halve(s, p, iter[T \ {Max(T)}])
      BY <1>2, <3>2, Zenon
    <3> QED BY <3>1, <3>3
  <2>3. iter[{}] = start
    BY <1>7
  <2> QED BY <2>2, <2>3 DEF FoldsUp
<1>9. PICK F : Steps(F, n, V, start, step) /\ iter[1..n] = F[n]
  BY <1>1, <1>8, FoldPrefixes
<1>10. F \in [0..n -> V] /\ F[0] = start /\ \A k \in 1..n : F[k] = step[k][F[k - 1]]
  BY <1>9 DEF Steps
<1>11. \A k \in 1..n : F[k] = Halve(s, p, F[k - 1])
  <2> TAKE k \in 1..n
  <2>1. k - 1 \in 0..n
    OBVIOUS
  <2>2. F[k - 1] \in V
    BY <1>10, <2>1
  <2>3. step[k][F[k - 1]] = Halve(s, p, F[k - 1])
    BY <1>2, <2>2, Zenon
  <2> QED BY <2>3, <1>10
<1> QED
  BY <1>9, <1>10, <1>11 DEF iter, HalvesSteps

(* sorted lists slots by rising price.                                     *)
Rises(price, sorted) ==
  /\ sorted \in Seq(Slot)
  /\ \A n \in 1..Len(sorted) : price[sorted[n]] \in Int
  /\ \A m, n \in 1..Len(sorted) : m < n => price[sorted[m]] < price[sorted[n]]

(* What is left to search: what lies before is less than p, what lies      *)
(* behind is not.                                                          *)
Narrows(r, price, sorted, p) ==
  /\ r \in [first: Nat, count: Nat]
  /\ r.first + r.count <= Len(sorted)
  /\ \A n \in 1..r.first : price[sorted[n]] < p
  /\ \A n \in (r.first + r.count + 1)..Len(sorted) : ~(price[sorted[n]] < p)

(* A round keeps what it knows and leaves less to search. *)
LEMMA HalveNarrows ==
  ASSUME NEW s, Rises(s.price, s.sorted), NEW p \in Int, NEW r,
         Narrows(r, s.price, s.sorted, p)
  PROVE  /\ Narrows(Halve(s, p, r), s.price, s.sorted, p)
         /\ Halve(s, p, r).count = 0 \/ Halve(s, p, r).count <= r.count - 1
<1> DEFINE price == s.price
           sorted == s.sorted
           N == Len(sorted)
           half == r.count \div 2
           m == r.first + half
           x == price[sorted[m + 1]]
           b == Halve(s, p, r)
<1>1. /\ r \in [first: Nat, count: Nat] /\ r.first \in Nat /\ r.count \in Nat /\ N \in Nat
      /\ r = [first |-> r.first, count |-> r.count]
      /\ r.first + r.count <= N
  BY LenProperties DEF Narrows, Rises
<1>2. b = IF r.count = 0 THEN r
          ELSE IF x < p THEN [first |-> m + 1, count |-> r.count - (half + 1)]
          ELSE [r EXCEPT !.count = half]
  BY DEF Halve
<1>3. CASE r.count = 0
  BY <1>2, <1>3
<1>4. CASE r.count # 0
  <2>1. half \in Nat /\ half < r.count /\ m \in Nat /\ m + 1 \in 1..N
    BY <1>1, <1>4
  <2> HIDE DEF half
  <2>2. \A n \in 1..N : price[sorted[n]] \in Int
    BY DEF Rises
  <2>3. \A k, n \in 1..N : k < n => price[sorted[k]] < price[sorted[n]]
    BY DEF Rises
  <2>4. x \in Int
    BY <2>1, <2>2
  <2>5. CASE x < p
    <3>1. b.first = m + 1 /\ b.count = r.count - (half + 1) /\ b \in [first: Nat, count: Nat]
      BY <1>1, <1>2, <1>4, <2>1, <2>5
    <3>2. b.first + b.count = r.first + r.count /\ b.count <= r.count - 1
      BY <1>1, <2>1, <3>1
    <3>3. \A n \in 1..b.first : price[sorted[n]] < p
      <4> TAKE n \in 1..b.first
      <4>1. n \in 1..N /\ n <= m + 1
        BY <2>1, <3>1
      <4>2. n = m + 1 \/ n < m + 1
        BY <2>1, <4>1
      <4>3. n < m + 1 => price[sorted[n]] < x
        BY <2>1, <2>3, <4>1
      <4>4. price[sorted[n]] \in Int
        BY <2>2, <4>1
      <4> HIDE DEF x, price, sorted, N
      <4>5. n = m + 1 => price[sorted[n]] = x
        BY DEF x
      <4> QED BY <2>4, <2>5, <4>2, <4>3, <4>4, <4>5
    <3>4. \A n \in (b.first + b.count + 1)..N : ~(price[sorted[n]] < p)
      BY <3>2 DEF Narrows
    <3>5. b.first + b.count <= N
      BY <1>1, <3>1, <3>2
    <3> HIDE DEF b, x, m
    <3>6. Narrows(b, price, sorted, p)
      BY <3>1, <3>3, <3>4, <3>5 DEF Narrows
    <3>7. b.count <= r.count - 1
      BY <3>2
    <3> QED BY <3>6, <3>7 DEF b
  <2>6. CASE ~(x < p)
    <3>1. b.first = r.first /\ b.count = half /\ b \in [first: Nat, count: Nat]
      <4>1. b = [r EXCEPT !.count = half]
        BY <1>2, <1>4, <2>6
      <4> HIDE DEF b
      <4> QED BY <1>1, <2>1, <4>1
    <3>2. b.count <= r.count - 1 /\ b.first + b.count <= N
      BY <1>1, <2>1, <3>1
    <3>3. \A n \in 1..b.first : price[sorted[n]] < p
      BY <3>1 DEF Narrows
    <3>4. \A n \in (b.first + b.count + 1)..N : ~(price[sorted[n]] < p)
      <4> TAKE n \in (b.first + b.count + 1)..N
      <4>1. n \in 1..N /\ n >= m + 1
        BY <1>1, <2>1, <3>1
      <4>2. n = m + 1 \/ m + 1 < n
        BY <2>1, <4>1
      <4>3. m + 1 < n => x < price[sorted[n]]
        BY <2>1, <2>3, <4>1
      <4>4. price[sorted[n]] \in Int
        BY <2>2, <4>1
      <4> HIDE DEF x, price, sorted, N
      <4>5. n = m + 1 => price[sorted[n]] = x
        BY DEF x
      <4> QED BY <2>4, <2>6, <4>2, <4>3, <4>4, <4>5
    <3>5. b.first + b.count <= N
      BY <1>1, <3>1, <3>2
    <3> HIDE DEF b, x, m
    <3>6. Narrows(b, price, sorted, p)
      BY <3>1, <3>3, <3>4, <3>5 DEF Narrows
    <3>7. b.count <= r.count - 1
      BY <3>2
    <3> QED BY <3>6, <3>7 DEF b
  <2> QED BY <2>5, <2>6
<1> QED
  BY <1>3, <1>4

(* lower_bound_price finds where p belongs.                                *)
LEMMA LowerBoundIs ==
  ASSUME NEW s, Rises(s.price, s.sorted), NEW p \in Int
  PROVE  /\ LowerBound(s, p) \in 0..Len(s.sorted)
         /\ \A n \in 1..LowerBound(s, p) : s.price[s.sorted[n]] < p
         /\ \A n \in (LowerBound(s, p) + 1)..Len(s.sorted) : ~(s.price[s.sorted[n]] < p)
<1> DEFINE q == s.sorted
           n == Len(q)
           base == [first |-> 0, count |-> n]
           V == {r \in [first: Nat, count: Nat] : Narrows(r, s.price, q, p)}
<1>1. n \in Nat /\ DOMAIN q = 1..n
  BY LenProperties DEF Rises
<1>2. base \in V
  BY <1>1 DEF Narrows
<1>3. \A r \in V : Halve(s, p, r) \in V /\
        (Halve(s, p, r).count = 0 \/ Halve(s, p, r).count <= r.count - 1)
  BY HalveNarrows DEF Narrows
<1>4. HalvesIn(V, n, q, s, p)
  <2> HIDE DEF V, n, q
  <2> QED BY <1>3 DEF HalvesIn
<1>5. PICK F : /\ F \in [0..n -> V] /\ F[0] = base
               /\ HalvesSteps(F, n, q, s, p)
               /\ F[n] = (CHOOSE g : Halves(g, base, n, q, s, p))[1..n]
  <2> HIDE DEF V, n, q, base
  <2> QED BY <1>1, <1>2, <1>4, HalvesRun
<1>6. LowerBound(s, p) = F[n].first
  <2>1. LowerBound(s, p) = (CHOOSE g : Halves(g, base, n, q, s, p))[1..n].first
    <3>1. LowerBound(s, p) = FoldLeft(LAMBDA r, k : Halve(s, p, r), base, q).first
      BY DEF LowerBound, Count
    <3> HIDE DEF base, q, n
    <3> QED BY <1>1, <3>1 DEF FoldLeft, MapThenFoldSet, Halves
  <2> HIDE DEF V, base, q, n
  <2> QED BY <1>5, <2>1
<1>7. \A k \in 1..n : F[k] = Halve(s, p, F[k - 1]) /\ F[k - 1] \in V
  <2> TAKE k \in 1..n
  <2>1. k - 1 \in 0..n
    BY <1>1
  <2> HIDE DEF V, q, n
  <2> QED BY <1>5, <2>1 DEF HalvesSteps
<1>8. F[n] \in V /\ F[0] = base
  BY <1>1, <1>5
<1> DEFINE P == {k \in Nat : k <= n => F[k].count <= n - k}
<1>9. 0 \in P
  BY <1>1, <1>8
<1>10. ASSUME NEW k \in P PROVE k + 1 \in P
  <2>1. CASE k + 1 <= n
    <3>1. k \in Nat /\ k + 1 \in 1..n /\ (k + 1) - 1 = k /\ F[k].count <= n - k
      BY <1>1, <2>1
    <3>2. F[k + 1] = Halve(s, p, F[k]) /\ F[k] \in V
      BY <1>7, <3>1
    <3>3. F[k + 1].count = 0 \/ F[k + 1].count <= F[k].count - 1
      <4> HIDE DEF V
      <4> QED BY <1>3, <3>2
    <3>4. F[k + 1].count \in Nat /\ F[k].count \in Nat
      <4>1. F[k + 1] \in V
        BY <1>3, <3>2
      <4> QED BY <3>2, <4>1
    <3> HIDE DEF V
    <3>5. F[k + 1].count <= n - (k + 1)
      <4> DEFINE c == F[k].count
                 e == F[k + 1].count
      <4>1. c \in Nat /\ e \in Nat /\ c <= n - k /\ (e = 0 \/ e <= c - 1)
        BY <3>1, <3>3, <3>4
      <4> HIDE DEF c, e, n
      <4>2. e <= n - (k + 1)
        BY <1>1, <2>1, <3>1, <4>1
      <4> QED BY <4>2 DEF e
    <3> QED BY <3>1, <3>5
  <2>2. CASE ~(k + 1 <= n)
    BY <2>2
  <2> QED BY <2>1, <2>2
<1>11. P = Nat
  <2>1. P \in SUBSET Nat
    OBVIOUS
  <2> HIDE DEF P
  <2> QED BY <1>9, <1>10, <2>1, Induction
<1>12. F[n].count = 0
  <2>1. n \in P /\ n <= n
    BY <1>1, <1>11
  <2>2. F[n].count <= n - n /\ F[n].count \in Nat
    <3>1. F[n].count \in Nat
      BY <1>8
    <3> QED BY <2>1, <3>1
  <2> QED BY <1>1, <2>2
<1> DEFINE f == F[n].first
<1>13. /\ f \in Nat /\ f <= n /\ \A i \in 1..f : s.price[q[i]] < p
       /\ \A i \in (f + 1)..n : ~(s.price[q[i]] < p)
  <2>1. Narrows(F[n], s.price, q, p) /\ f \in Nat
    BY <1>8
  <2>2. f + F[n].count = f /\ f + F[n].count + 1 = f + 1
    BY <1>12, <2>1
  <2> HIDE DEF V
  <2> QED BY <2>1, <2>2 DEF Narrows
<1> HIDE DEF f, V, P
<1> QED
  BY <1>1, <1>6, <1>13 DEF f

(* A rising list has each slot once, so no more than there are.            *)
LEMMA RisingOnce ==
  ASSUME NEW price, NEW q, Rises(price, q)
  PROVE  /\ Len(q) \in 0..MaxOrders
         /\ \A m, n \in 1..Len(q) : q[m] = q[n] => m = n
<1> DEFINE N == Len(q)
<1>1. /\ N \in Nat /\ q \in [1..N -> Slot]
      /\ \A n \in 1..N : price[q[n]] \in Int
      /\ \A m, n \in 1..N : m < n => price[q[m]] < price[q[n]]
  BY LenProperties DEF Rises
<1>2. \A m, n \in 1..N : q[m] = q[n] => m = n
  <2> SUFFICES ASSUME NEW m \in 1..N, NEW n \in 1..N, q[m] = q[n] PROVE m = n
    OBVIOUS
  <2> HIDE DEF N
  <2>1. m < n \/ n < m \/ m = n
    BY <1>1
  <2>2. ~(price[q[m]] < price[q[n]]) /\ ~(price[q[n]] < price[q[m]])
    BY <1>1
  <2> QED BY <1>1, <2>1, <2>2
<1>3. q \in Injection(1..N, Slot)
  BY <1>1, <1>2 DEF Injection, IsInjective
<1>4. IsFiniteSet(Slot) /\ Cardinality(Slot) = MaxOrders
  <2>1. MaxOrders \in Nat \ {0}
    BY MapCapacityIs
  <2> QED BY <2>1, FS_Interval DEF Slot
<1>5. IsFiniteSet(1..N) /\ Cardinality(1..N) = N
  <2> HIDE DEF N
  <2> QED BY <1>1, FS_Interval
<1>6. Cardinality(1..N) <= Cardinality(Slot)
  BY <1>3, <1>4, FS_Injection
<1> QED
  BY <1>1, <1>2, <1>4, <1>5, <1>6, MapCapacityIs

(* The positions Repositioned writes.                                      *)
Repos(position, q, changed) ==
  [x \in Slot |-> IF x \in {q[n] : n \in (DOMAIN q) \cap changed}
                  THEN CHOOSE n \in 0..Len(q) - 1 : q[n + 1] = x ELSE position[x]]

(* new has the place of every slot of the list from place i on, and leaves *)
(* the others.                                                             *)
Repositions(new, position, q, i) ==
  /\ new \in [Slot -> 0..MaxOrders]
  /\ \A j \in 1..Len(q) : new[q[j]] = IF j < i THEN position[q[j]] ELSE j - 1
  /\ \A x \in Slot : (\A j \in 1..Len(q) : q[j] # x) => new[x] = position[x]

(* Repositioned writes that. *)
LEMMA ReposIs ==
  ASSUME NEW position \in [Slot -> 0..MaxOrders], NEW price, NEW q, Rises(price, q),
         NEW i \in Nat
  PROVE  Repositions(Repos(position, q, i..MaxOrders), position, q, i)
<1> DEFINE N == Len(q)
           moved == {q[n] : n \in (DOMAIN q) \cap (i..MaxOrders)}
           at(x) == CHOOSE n \in 0..N - 1 : q[n + 1] = x
           new == Repos(position, q, i..MaxOrders)
<1>1. /\ N \in Nat /\ N <= MaxOrders /\ MaxOrders \in Nat /\ q \in [1..N -> Slot] /\ DOMAIN q = 1..N
      /\ \A m, n \in 1..N : q[m] = q[n] => m = n
  BY RisingOnce, LenProperties, MapCapacityIs DEF Rises
<1>2. \A x \in Slot : new[x] = IF x \in moved THEN at(x) ELSE position[x]
  BY DEF Repos
<1> HIDE DEF N, new
<1>3. ASSUME NEW j \in 1..N PROVE at(q[j]) = j - 1
  <2>1. j - 1 \in 0..N - 1 /\ q[(j - 1) + 1] = q[j]
    BY <1>1
  <2>2. at(q[j]) \in 0..N - 1 /\ q[at(q[j]) + 1] = q[j]
    BY <2>1, Zenon
  <2> DEFINE k == at(q[j])
  <2>3. k \in 0..N - 1 /\ q[k + 1] = q[j]
    BY <2>2
  <2> HIDE DEF k
  <2>4. k + 1 \in 1..N /\ k \in Int
    BY <1>1, <2>3
  <2>5. k + 1 = j
    BY <1>1, <2>3, <2>4
  <2>6. k = j - 1
    BY <2>4, <2>5
  <2> QED BY <2>6 DEF k
<1>4. ASSUME NEW j \in 1..N PROVE new[q[j]] = IF j < i THEN position[q[j]] ELSE j - 1
  <2>1. q[j] \in Slot
    BY <1>1
  <2>2. q[j] \in moved <=> j \in i..MaxOrders
    BY <1>1
  <2>3. j \in i..MaxOrders <=> ~(j < i)
    BY <1>1
  <2>4. new[q[j]] = IF q[j] \in moved THEN at(q[j]) ELSE position[q[j]]
    BY <1>2, <2>1
  <2> HIDE DEF moved, at
  <2> QED BY <1>3, <2>2, <2>3, <2>4
<1>5. ASSUME NEW x \in Slot, \A j \in 1..N : q[j] # x PROVE new[x] = position[x]
  <2>1. x \notin moved
    BY <1>1, <1>5
  <2> QED BY <1>2, <2>1
<1>6. new \in [Slot -> 0..MaxOrders]
  <2>1. ASSUME NEW x \in Slot PROVE new[x] \in 0..MaxOrders
    <3>1. CASE \E j \in 1..N : q[j] = x
      <4>1. PICK j \in 1..N : q[j] = x
        BY <3>1
      <4>2. new[x] = position[x] \/ new[x] = j - 1
        BY <1>4, <4>1
      <4> QED BY <1>1, <4>2
    <3>2. CASE ~\E j \in 1..N : q[j] = x
      BY <1>5, <3>2
    <3> QED BY <3>1, <3>2
  <2>2. new = [x \in Slot |-> new[x]]
    BY DEF new, Repos
  <2> QED BY <2>1, <2>2
<1> QED
  BY <1>4, <1>5, <1>6 DEF N, new, Repositions

(* The slots of U are listed by rising price, and each knows its place.    *)
Listed(price, q, position, U) ==
  /\ Rises(price, q)
  /\ position \in [Slot -> 0..MaxOrders]
  /\ U \subseteq Slot
  /\ \A x \in U : \E n \in 1..Len(q) : q[n] = x
  /\ \A n \in 1..Len(q) : q[n] \in U /\ position[q[n]] = n - 1
  /\ \A x \in Slot \ U : position[x] = NoSlot

(* The place for price p in a list: behind the lower ones.                 *)
Belongs(price, q, p, i) ==
  /\ i \in 0..Len(q)
  /\ \A n \in 1..i : price[q[n]] < p
  /\ \A n \in (i + 1)..Len(q) : ~(price[q[n]] < p)

(* A new slot x, priced new[x], put where it belongs.                      *)
Priced(new, price, U, x) ==
  /\ new[x] \in Int
  /\ \A y \in U : new[y] = price[y] /\ price[y] # new[x]

(* A list that rises still does with a new price put where it belongs, *)
LEMMA InsertRises ==
  ASSUME NEW price, NEW q, NEW position, NEW U, Listed(price, q, position, U),
         NEW x \in Slot \ U, NEW new, Priced(new, price, U, x),
         NEW i, Belongs(price, q, new[x], i),
         NEW r \in Seq(Slot), InsertAtShape(r, q, i + 1, x)
  PROVE  Rises(new, r)
<1> DEFINE N == Len(q)
           p == new[x]
<1>1. /\ N \in Nat /\ i \in 0..N /\ p \in Int
      /\ \A n \in 1..N : q[n] \in U /\ price[q[n]] \in Int /\ new[q[n]] = price[q[n]]
                         /\ price[q[n]] # p
      /\ \A m, n \in 1..N : m < n => price[q[m]] < price[q[n]]
      /\ \A n \in 1..i : price[q[n]] < p
      /\ \A n \in (i + 1)..N : ~(price[q[n]] < p)
  BY LenProperties DEF Listed, Rises, Priced, Belongs
<1>2. /\ Len(r) = N + 1
      /\ \A j \in 1..(N + 1) : r[j] = IF j < i + 1 THEN q[j] ELSE IF j = i + 1 THEN x ELSE q[j - 1]
  BY DEF InsertAtShape
<1> HIDE DEF N, p
<1> DEFINE v(j) == new[r[j]]
<1>3. \A j \in 1..(N + 1) :
        /\ j < i + 1 => v(j) = price[q[j]] /\ j \in 1..N /\ j \in 1..i
        /\ j = i + 1 => v(j) = p
        /\ j > i + 1 => v(j) = price[q[j - 1]] /\ j - 1 \in 1..N /\ j - 1 \in (i + 1)..N
  <2> TAKE j \in 1..(N + 1)
  <2>1. j < i + 1 => v(j) = price[q[j]] /\ j \in 1..N /\ j \in 1..i
    BY <1>1, <1>2
  <2>2. j = i + 1 => v(j) = p
    BY <1>1, <1>2 DEF p
  <2>3. j > i + 1 => v(j) = price[q[j - 1]] /\ j - 1 \in 1..N /\ j - 1 \in (i + 1)..N
    <3> HAVE j > i + 1
    <3>1. j - 1 \in 1..N /\ j - 1 \in (i + 1)..N /\ ~(j < i + 1) /\ j # i + 1
      BY <1>1
    <3>2. r[j] = q[j - 1]
      BY <1>2, <3>1
    <3> QED BY <1>1, <3>1, <3>2
  <2> QED BY <2>1, <2>2, <2>3
<1>4. \A j \in 1..(N + 1) : v(j) \in Int
  <2> TAKE j \in 1..(N + 1)
  <2>1. j < i + 1 \/ j = i + 1 \/ j > i + 1
    BY <1>1
  <2> HIDE DEF v
  <2> QED BY <1>1, <1>3, <2>1
<1>5. \A j, k \in 1..(N + 1) : j < k => v(j) < v(k)
  <2> SUFFICES ASSUME NEW j \in 1..(N + 1), NEW k \in 1..(N + 1), j < k PROVE v(j) < v(k)
    OBVIOUS
  <2> HIDE DEF v
  <2>1. CASE k < i + 1
    <3>1. j < i + 1
      BY <1>1, <2>1
    <3> QED BY <1>1, <1>3, <2>1, <3>1
  <2>2. CASE k = i + 1
    <3>1. j < i + 1
      BY <1>1, <2>2
    <3> QED BY <1>1, <1>3, <2>2, <3>1
  <2>3. CASE k > i + 1
    <3>1. /\ v(k) = price[q[k - 1]] /\ k - 1 \in 1..N /\ k - 1 \in (i + 1)..N
      BY <1>3, <2>3
    <3>2. price[q[k - 1]] \in Int /\ price[q[k - 1]] # p /\ ~(price[q[k - 1]] < p)
      BY <1>1, <3>1
    <3>3. p < v(k)
      BY <1>1, <3>1, <3>2
    <3>4. CASE j < i + 1
      <4>1. v(j) = price[q[j]] /\ j \in 1..i /\ j \in 1..N
        BY <1>3, <3>4
      <4>2. v(j) < p /\ v(j) \in Int
        BY <1>1, <4>1
      <4>3. v(k) \in Int
        BY <1>4
      <4> QED BY <1>1, <3>3, <4>2, <4>3
    <3>5. CASE j = i + 1
      BY <1>3, <3>3, <3>5
    <3>6. CASE j > i + 1
      <4>1. v(j) = price[q[j - 1]] /\ j - 1 \in 1..N /\ j - 1 < k - 1
        BY <1>3, <3>6
      <4> QED BY <1>1, <3>1, <4>1
    <3>7. j < i + 1 \/ j = i + 1 \/ j > i + 1
      BY <1>1
    <3> QED BY <3>4, <3>5, <3>6, <3>7
  <2>4. k < i + 1 \/ k = i + 1 \/ k > i + 1
    BY <1>1
  <2> QED BY <2>1, <2>2, <2>3, <2>4
<1> QED
  BY <1>2, <1>4, <1>5 DEF Rises

(* and each slot still knows its place: insert_sorted. *)
LEMMA InsertListed ==
  ASSUME NEW price, NEW q, NEW position, NEW U, Listed(price, q, position, U),
         NEW x \in Slot \ U, NEW new, Priced(new, price, U, x),
         NEW i, Belongs(price, q, new[x], i),
         NEW r \in Seq(Slot), InsertAtShape(r, q, i + 1, x),
         NEW place, Repositions(place, position, r, i + 1)
  PROVE  Listed(new, r, place, U \cup {x})
<1> DEFINE N == Len(q)
<1>1. Rises(new, r)
  BY InsertRises
<1>2. /\ N \in Nat /\ i \in 0..N /\ U \subseteq Slot
      /\ \A y \in U : \E n \in 1..N : q[n] = y
      /\ \A n \in 1..N : q[n] \in U /\ position[q[n]] = n - 1
      /\ \A y \in Slot \ U : position[y] = NoSlot
  BY LenProperties DEF Listed, Rises, Belongs
<1>3. /\ Len(r) = N + 1
      /\ \A j \in 1..(N + 1) : r[j] = IF j < i + 1 THEN q[j] ELSE IF j = i + 1 THEN x ELSE q[j - 1]
  BY DEF InsertAtShape
<1>4. /\ place \in [Slot -> 0..MaxOrders]
      /\ \A j \in 1..(N + 1) : place[r[j]] = IF j < i + 1 THEN position[r[j]] ELSE j - 1
      /\ \A y \in Slot : (\A j \in 1..(N + 1) : r[j] # y) => place[y] = position[y]
  BY <1>3 DEF Repositions
<1> HIDE DEF N
<1>5. \A j \in 1..(N + 1) :
        /\ j < i + 1 => r[j] = q[j] /\ j \in 1..N
        /\ j = i + 1 => r[j] = x
        /\ j > i + 1 => r[j] = q[j - 1] /\ j - 1 \in 1..N
        /\ j < i + 1 \/ j = i + 1 \/ j > i + 1
  BY <1>2, <1>3
<1>6. ASSUME NEW j \in 1..(N + 1) PROVE r[j] \in U \cup {x} /\ place[r[j]] = j - 1
  <2>1. r[j] \in U \cup {x}
    BY <1>2, <1>5
  <2>2. j < i + 1 => place[r[j]] = position[q[j]] /\ position[q[j]] = j - 1
    BY <1>2, <1>4, <1>5
  <2>3. ~(j < i + 1) => place[r[j]] = j - 1
    BY <1>4
  <2> QED BY <2>1, <2>2, <2>3
<1>7. ASSUME NEW y \in U \cup {x} PROVE \E n \in 1..(N + 1) : r[n] = y
  <2>1. CASE y = x
    <3>1. i + 1 \in 1..(N + 1)
      BY <1>2
    <3> QED BY <1>5, <2>1, <3>1
  <2>2. CASE y # x
    <3>1. PICK n \in 1..N : q[n] = y
      BY <1>2, <2>2
    <3>2. CASE n < i + 1
      <4>1. n \in 1..(N + 1)
        BY <1>2
      <4> QED BY <1>5, <3>1, <3>2, <4>1
    <3>3. CASE ~(n < i + 1)
      <4>1. n + 1 \in 1..(N + 1) /\ n + 1 > i + 1 /\ (n + 1) - 1 = n
        BY <1>2, <3>3
      <4>2. r[n + 1] = q[n]
        BY <1>5, <4>1
      <4> QED BY <3>1, <4>1, <4>2
    <3> QED BY <3>2, <3>3
  <2> QED BY <2>1, <2>2
<1>8. ASSUME NEW y \in Slot \ (U \cup {x}) PROVE place[y] = NoSlot
  <2>1. \A j \in 1..(N + 1) : r[j] # y
    BY <1>6
  <2> QED BY <1>2, <1>4, <2>1
<1>9. U \cup {x} \subseteq Slot
  BY <1>2
<1> QED
  BY <1>1, <1>3, <1>4, <1>6, <1>7, <1>8, <1>9 DEF Listed

(* The same when a slot leaves the list: remove_sorted. *)
LEMMA RemoveListed ==
  ASSUME NEW price, NEW q, NEW position, NEW U, Listed(price, q, position, U),
         NEW x \in U, NEW i, i = position[x] + 1,
         NEW r, r = RemoveAt(q, i), NEW moved, Repositions(moved, position, r, i),
         NEW place, place = [moved EXCEPT ![x] = NoSlot],
         NEW new, \A y \in U \ {x} : new[y] = price[y]
  PROVE  Listed(new, r, place, U \ {x})
<1> DEFINE N == Len(q)
<1>1. /\ N \in Nat /\ q \in Seq(Slot) /\ DOMAIN q = 1..N
      /\ \A n \in 1..N : q[n] \in Slot /\ price[q[n]] \in Int
      /\ \A m, n \in 1..N : m < n => price[q[m]] < price[q[n]]
      /\ \A m, n \in 1..N : q[m] = q[n] => m = n
      /\ U \subseteq Slot
      /\ \A y \in U : \E n \in 1..N : q[n] = y
      /\ \A n \in 1..N : q[n] \in U /\ position[q[n]] = n - 1
      /\ \A y \in Slot \ U : position[y] = NoSlot
  BY RisingOnce, LenProperties DEF Listed, Rises
<1>2. i \in 1..N /\ q[i] = x /\ N - 1 \in Nat
  <2>1. PICK n \in 1..N : q[n] = x
    BY <1>1
  <2>2. position[x] = n - 1
    BY <1>1, <2>1
  <2> HIDE DEF N
  <2> QED BY <1>1, <2>1, <2>2
<1>3. /\ r \in Seq(Slot) /\ Len(r) = N - 1 /\ DOMAIN r = 1..(N - 1)
      /\ \A j \in DOMAIN r : r[j] = IF j < i THEN q[j] ELSE q[j + 1]
  <2>1. i \in DOMAIN q
    BY <1>1, <1>2
  <2> DEFINE u == RemoveAt(q, i)
  <2>2. /\ u \in Seq(Slot) /\ Len(u) = Len(q) - 1
        /\ \A j \in DOMAIN u : u[j] = IF j < i THEN q[j] ELSE q[j + 1]
    <3>1. q \in Seq(Slot)
      BY <1>1
    <3> QED BY <2>1, <3>1, RemoveAtProperties
  <2>3. DOMAIN u = 1..Len(u)
    BY <2>2, LenProperties
  <2>4. r = u
    OBVIOUS
  <2> HIDE DEF u
  <2> QED BY <2>2, <2>3, <2>4
<1>4. /\ moved \in [Slot -> 0..MaxOrders]
      /\ \A j \in 1..(N - 1) : moved[r[j]] = IF j < i THEN position[r[j]] ELSE j - 1
      /\ \A y \in Slot : (\A j \in 1..(N - 1) : r[j] # y) => moved[y] = position[y]
  BY <1>3 DEF Repositions
<1> HIDE DEF N
<1>5. \A j \in 1..(N - 1) :
        /\ j < i => r[j] = q[j] /\ j \in 1..N
        /\ ~(j < i) => r[j] = q[j + 1] /\ j + 1 \in 1..N
  <2> TAKE j \in 1..(N - 1)
  <2>1. j \in 1..N /\ j + 1 \in 1..N /\ j \in DOMAIN r
    BY <1>1, <1>2, <1>3
  <2>2. r[j] = IF j < i THEN q[j] ELSE q[j + 1]
    BY <1>3, <2>1
  <2> QED BY <2>1, <2>2
<1>6. \A j \in 1..(N - 1) : r[j] \in U \ {x} /\ place[r[j]] = j - 1
  <2> TAKE j \in 1..(N - 1)
  <2>1. CASE j < i
    <3>1. r[j] = q[j] /\ j \in 1..N /\ j # i
      BY <1>2, <1>5, <2>1
    <3>2. q[j] # q[i]
      BY <1>1, <1>2, <3>1
    <3>3. moved[r[j]] = j - 1
      <4>1. moved[r[j]] = position[r[j]]
        BY <1>4, <2>1
      <4>2. position[q[j]] = j - 1
        BY <1>1, <3>1
      <4> QED BY <3>1, <4>1, <4>2
    <3> QED BY <1>1, <1>2, <1>4, <3>1, <3>2, <3>3
  <2>2. CASE ~(j < i)
    <3>1. r[j] = q[j + 1] /\ j + 1 \in 1..N /\ j + 1 # i
      BY <1>2, <1>5, <2>2
    <3>2. q[j + 1] # q[i]
      BY <1>1, <1>2, <3>1
    <3>3. moved[r[j]] = j - 1
      BY <1>4, <2>2
    <3> QED BY <1>1, <1>2, <1>4, <3>1, <3>2, <3>3
  <2> QED BY <2>1, <2>2
<1>7. \A j, k \in 1..(N - 1) : j < k => new[r[j]] < new[r[k]]
  <2> SUFFICES ASSUME NEW j \in 1..(N - 1), NEW k \in 1..(N - 1), j < k PROVE new[r[j]] < new[r[k]]
    OBVIOUS
  <2> DEFINE a == IF j < i THEN j ELSE j + 1
             b == IF k < i THEN k ELSE k + 1
  <2>1. r[j] = q[a] /\ r[k] = q[b] /\ a \in 1..N /\ b \in 1..N /\ a < b
    BY <1>2, <1>5
  <2>2. new[r[j]] = price[q[a]] /\ new[r[k]] = price[q[b]]
    BY <1>6, <2>1
  <2> HIDE DEF a, b
  <2> QED BY <1>1, <2>1, <2>2
<1>8. \A j \in 1..(N - 1) : new[r[j]] \in Int
  <2> TAKE j \in 1..(N - 1)
  <2> DEFINE a == IF j < i THEN j ELSE j + 1
  <2>1. r[j] = q[a] /\ a \in 1..N
    BY <1>5
  <2> HIDE DEF a
  <2> QED BY <1>1, <1>6, <2>1
<1>9. ASSUME NEW y \in U \ {x} PROVE \E n \in 1..(N - 1) : r[n] = y
  <2>1. PICK n \in 1..N : q[n] = y
    BY <1>1
  <2>2. n # i
    BY <1>2, <2>1
  <2>3. CASE n < i
    <3>1. n \in 1..(N - 1)
      BY <1>1, <1>2, <2>3
    <3> QED BY <1>5, <2>1, <2>3, <3>1
  <2>4. CASE ~(n < i)
    <3>1. n - 1 \in 1..(N - 1) /\ ~(n - 1 < i) /\ (n - 1) + 1 = n
      BY <1>1, <1>2, <2>2, <2>4
    <3>2. r[n - 1] = q[n]
      BY <1>5, <3>1
    <3> QED BY <2>1, <3>1, <3>2
  <2> QED BY <2>3, <2>4
<1>10. ASSUME NEW y \in Slot \ (U \ {x}) PROVE place[y] = NoSlot
  <2>1. CASE y = x
    BY <1>4, <2>1
  <2>2. CASE y # x
    <3>1. \A j \in 1..(N - 1) : r[j] # y
      BY <1>6
    <3> QED BY <1>1, <1>4, <2>2, <3>1
  <2> QED BY <2>1, <2>2
<1>11. place \in [Slot -> 0..MaxOrders]
  <2>1. NoSlot \in 0..MaxOrders
    BY MapCapacityIs DEF NoSlot
  <2> QED BY <1>4, <2>1
<1>12. Rises(new, r)
  BY <1>3, <1>7, <1>8 DEF Rises
<1> QED
  BY <1>1, <1>3, <1>6, <1>9, <1>10, <1>11, <1>12 DEF Listed

(* A rising list without one of its slots rises. *)
LEMMA RemoveRises ==
  ASSUME NEW price, NEW q, Rises(price, q), NEW i \in 1..Len(q)
  PROVE  Rises(price, RemoveAt(q, i)) /\ Len(RemoveAt(q, i)) = Len(q) - 1
<1> DEFINE N == Len(q)
           r == RemoveAt(q, i)
<1>1. /\ N \in Nat /\ q \in Seq(Slot) /\ i \in DOMAIN q /\ i \in 1..N
      /\ \A n \in 1..N : price[q[n]] \in Int
      /\ \A m, n \in 1..N : m < n => price[q[m]] < price[q[n]]
  BY LenProperties DEF Rises
<1>2. /\ r \in Seq(Slot) /\ Len(r) = N - 1
      /\ \A j \in DOMAIN r : r[j] = IF j < i THEN q[j] ELSE q[j + 1]
  BY <1>1, RemoveAtProperties
<1>3. DOMAIN r = 1..(N - 1)
  BY <1>2, LenProperties
<1> HIDE DEF N, r
<1>4. \A j, k \in 1..(N - 1) : j < k => price[r[j]] < price[r[k]]
  <2> SUFFICES ASSUME NEW j \in 1..(N - 1), NEW k \in 1..(N - 1), j < k
               PROVE  price[r[j]] < price[r[k]]
    OBVIOUS
  <2> DEFINE a == IF j < i THEN j ELSE j + 1
             b == IF k < i THEN k ELSE k + 1
  <2>0. j \in DOMAIN r /\ k \in DOMAIN r
    BY <1>3
  <2>2. r[j] = q[a] /\ r[k] = q[b]
    BY <1>2, <2>0
  <2>3. a \in 1..N /\ b \in 1..N /\ a < b
    BY <1>1
  <2>1. r[j] = q[a] /\ r[k] = q[b] /\ a \in 1..N /\ b \in 1..N /\ a < b
    BY <2>2, <2>3
  <2> HIDE DEF a, b
  <2> QED BY <1>1, <2>1
<1>5. \A j \in 1..(N - 1) : price[r[j]] \in Int
  <2> TAKE j \in 1..(N - 1)
  <2> DEFINE a == IF j < i THEN j ELSE j + 1
  <2>1. r[j] = q[a] /\ a \in 1..N
    BY <1>1, <1>2, <1>3
  <2> HIDE DEF a
  <2> QED BY <1>1, <2>1
<1> QED
  BY <1>2, <1>4, <1>5 DEF Rises, N, r

-----------------------------------------------------------------------------
(* Free slots.                                                             *)

(* The stack of free slots has each slot that is not in U once. *)
Stacked(free, U) ==
  /\ free \in Seq(Slot) /\ U \subseteq Slot
  /\ \A m, n \in 1..Len(free) : free[m] = free[n] => m = n
  /\ \A x \in Slot : x \notin U <=> \E n \in 1..Len(free) : free[n] = x

(* The last free slot is handed out, *)
LEMMA StackPops ==
  ASSUME NEW free, NEW U, Stacked(free, U), free # <<>>
  PROVE  Last(free) \in Slot \ U /\ Stacked(Front(free), U \cup {Last(free)})
<1> DEFINE N == Len(free)
           x == free[N]
           r == [j \in 1..(N - 1) |-> free[j]]
<1>1. /\ N \in Nat /\ free \in [1..N -> Slot] /\ U \subseteq Slot
      /\ \A m, n \in 1..N : free[m] = free[n] => m = n
      /\ \A y \in Slot : y \notin U <=> \E n \in 1..N : free[n] = y
  BY LenProperties DEF Stacked
<1>2. N # 0
  BY EmptySeq DEF Stacked
<1>3. Last(free) = x /\ Front(free) = r
  <2>1. Front(free) = SubSeq(free, 1, N - 1)
    BY DEF Front
  <2>2. SubSeq(free, 1, N - 1) = r
    <3>1. free \in Seq(Slot) /\ N - 1 \in Nat
      BY <1>1, <1>2 DEF Stacked
    <3> DEFINE a == SubSeq(free, 1, N - 1)
    <3>2. a \in Seq(Slot) /\ Len(a) = N - 1 /\ \A j \in 1..(N - 1) : a[j] = free[j]
      <4>1. \A j \in 1..(N - 1) : j \in 1..N
        BY <1>1
      <4> QED BY <1>1, <1>2, <3>1, <4>1, SubSeqProperties
    <3> HIDE DEF a
    <3>3. a \in [1..(N - 1) -> Slot]
      BY <3>2, LenProperties
    <3> QED BY <3>2, <3>3 DEF a
  <2> QED BY <2>1, <2>2 DEF Last
<1>4. x \in Slot \ U
  BY <1>1, <1>2
<1>5. r \in Seq(Slot) /\ Len(r) = N - 1
  <2>1. r \in [1..(N - 1) -> Slot] /\ N - 1 \in Nat
    BY <1>1, <1>2
  <2> HIDE DEF r, N
  <2>2. r \in Seq(Slot)
    BY <2>1
  <2> QED BY <2>1, <2>2, LenProperties
<1> HIDE DEF N
<1>6. \A m, n \in 1..(N - 1) : r[m] = r[n] => m = n
  BY <1>1
<1>7. \A y \in Slot : y \notin U \cup {x} <=> \E n \in 1..(N - 1) : r[n] = y
  <2> TAKE y \in Slot
  <2>1. CASE y = x
    <3>1. \A n \in 1..(N - 1) : n \in 1..N /\ n # N /\ N \in 1..N
      BY <1>1, <1>2
    <3> QED BY <1>1, <2>1, <3>1
  <2>2. CASE y # x
    <3>1. \A n \in 1..N : free[n] = y => n \in 1..(N - 1)
      BY <1>1, <2>2
    <3>2. \A n \in 1..(N - 1) : n \in 1..N /\ r[n] = free[n]
      BY <1>1
    <3> HIDE DEF r, x
    <3> QED BY <1>1, <2>2, <3>1, <3>2
  <2> QED BY <2>1, <2>2
<1>8. U \cup {x} \subseteq Slot
  BY <1>1, <1>4
<1> HIDE DEF r, x
<1>9. Stacked(r, U \cup {x})
  BY <1>5, <1>6, <1>7, <1>8 DEF Stacked
<1> QED
  BY <1>3, <1>4, <1>9

(* and a slot handed back is free again. *)
LEMMA StackPushes ==
  ASSUME NEW free, NEW U, Stacked(free, U), NEW x \in U
  PROVE  Stacked(Append(free, x), U \ {x})
<1> DEFINE N == Len(free)
           r == Append(free, x)
<1>1. /\ N \in Nat /\ free \in Seq(Slot) /\ U \subseteq Slot /\ x \in Slot
      /\ \A m, n \in 1..N : free[m] = free[n] => m = n
      /\ \A y \in Slot : y \notin U <=> \E n \in 1..N : free[n] = y
  BY LenProperties DEF Stacked
<1>2. /\ r \in Seq(Slot) /\ Len(r) = N + 1 /\ r[N + 1] = x
      /\ \A n \in 1..N : r[n] = free[n]
  BY <1>1, AppendProperties
<1> HIDE DEF N, r
<1>3. \A n \in 1..(N + 1) : n = N + 1 \/ n \in 1..N
  BY <1>1
<1>4. N + 1 \in 1..(N + 1) /\ \A n \in 1..N : n \in 1..(N + 1) /\ free[n] # x
  BY <1>1
<1>5. \A m, n \in 1..(N + 1) : r[m] = r[n] => m = n
  BY <1>1, <1>2, <1>3, <1>4
<1>6. \A y \in Slot : y \notin U \ {x} <=> \E n \in 1..(N + 1) : r[n] = y
  <2> TAKE y \in Slot
  <2>1. CASE y = x
    BY <1>2, <1>4, <2>1
  <2>2. CASE y # x
    BY <1>1, <1>2, <1>3, <1>4, <2>2
  <2> QED BY <2>1, <2>2
<1> QED
  BY <1>1, <1>2, <1>5, <1>6 DEF Stacked, r

-----------------------------------------------------------------------------
(* The map beside the slots.                                               *)

(* The map does not depend on the prices of slots that are not in use. *)
LEMMA MapRepriced ==
  ASSUME NEW T, NEW hash, NEW U, NEW price, MapIs(T, hash, U, price),
         NEW new, \A y \in U : new[y] = price[y]
  PROVE  MapIs(T, hash, U, new)
  BY DEF MapIs

(* A tombstone in place of an entry takes its slot out of the map and no   *)
(* other.                                                                  *)
LEMMA MapErases ==
  ASSUME NEW hash \in [Price -> Nat], NEW U, NEW price, \A x \in U : price[x] \in Price,
         NEW T, MapIs(T, hash, U, price),
         NEW c \in Taken(T), NEW x, x = T[c].slot, NEW V, V = Put(T, c, Tombstone)
  PROVE  /\ MapIs(V, hash, U \ {x}, price)
         /\ Taken(V) = Taken(T) \ {c} /\ Spent(V) = Spent(T) \cup {c}
<1>1. /\ T \in [Cell -> MapEntry] /\ c \in Cell
      /\ \A b \in Taken(T) : /\ T[b].slot \in U /\ T[b].price = price[T[b].slot]
                            /\ Reaches(T, HomeOf(hash, T[b].price), b)
      /\ \A y \in U : \E b \in Taken(T) : T[b].slot = y
      /\ \A b, f \in Taken(T) : T[b].slot = T[f].slot => b = f
  BY DEF MapIs, Taken
<1>2. Tombstone \in MapEntry /\ Tombstone.state = "Deleted"
  BY DEF Tombstone, EmptyEntry, MapEntry
<1>3. V \in [Cell -> MapEntry] /\ V[c] = Tombstone /\ \A b \in Cell : b # c => V[b] = T[b]
  BY <1>1, <1>2 DEF Put
<1>4. Taken(V) = Taken(T) \ {c} /\ Spent(V) = Spent(T) \cup {c}
  BY <1>1, <1>2, <1>3 DEF Taken, Spent
<1>5. \A b \in Cell : T[b].state # "Empty" => V[b].state # "Empty"
  BY <1>2, <1>3
<1>6. ASSUME NEW b \in Taken(V)
      PROVE  /\ V[b].slot \in U \ {x} /\ V[b].price = price[V[b].slot]
             /\ Reaches(V, HomeOf(hash, V[b].price), b)
  <2>1. b \in Taken(T) /\ b # c /\ b \in Cell
    BY <1>4 DEF Taken
  <2>2. V[b] = T[b]
    BY <1>3, <2>1
  <2>3. T[b].slot # x
    BY <1>1, <2>1
  <2>4. HomeOf(hash, T[b].price) \in Cell
    BY <1>1, <2>1, HomeIs
  <2>5. Reaches(T, HomeOf(hash, T[b].price), b)
    BY <1>1, <2>1
  <2>6. Reaches(V, HomeOf(hash, T[b].price), b)
    BY <1>5, <2>4, <2>5, StillReaches
  <2> QED BY <1>1, <2>1, <2>2, <2>3, <2>6
<1>7. \A y \in U \ {x} : \E b \in Taken(V) : V[b].slot = y
  <2> TAKE y \in U \ {x}
  <2>1. PICK b \in Taken(T) : T[b].slot = y
    BY <1>1
  <2>2. b # c /\ b \in Cell
    BY <2>1 DEF Taken
  <2> QED BY <1>3, <1>4, <2>1, <2>2
<1>8. \A b, f \in Taken(V) : V[b].slot = V[f].slot => b = f
  <2> SUFFICES ASSUME NEW b \in Taken(V), NEW f \in Taken(V), V[b].slot = V[f].slot PROVE b = f
    OBVIOUS
  <2>1. b \in Taken(T) /\ f \in Taken(T) /\ V[b] = T[b] /\ V[f] = T[f]
    BY <1>3, <1>4 DEF Taken
  <2> QED BY <1>1, <2>1
<1>9. MapIs(V, hash, U \ {x}, price)
  BY <1>3, <1>6, <1>7, <1>8 DEF MapIs
<1> QED
  BY <1>4, <1>9

(* At most half of the map is ever taken.                                  *)
LEMMA MapHasRoom ==
  ASSUME NEW T, NEW hash, NEW U \in SUBSET Slot, NEW price, MapIs(T, hash, U, price)
  PROVE  /\ IsFiniteSet(Taken(T)) /\ IsFiniteSet(Spent(T))
         /\ Cardinality(Taken(T)) \in Nat /\ Cardinality(Taken(T)) < MapCapacity
         /\ Cardinality(Taken(T)) = Cardinality(U)
         /\ Taken(T) # Cell
<1> DEFINE f == [c \in Taken(T) |-> T[c].slot]
<1>1. MapCapacity \in Nat \ {0} /\ MapCapacity >= 2 * MaxOrders /\ MaxOrders \in Nat \ {0}
  BY MapCapacityIs
<1>2. IsFiniteSet(Slot) /\ Cardinality(Slot) = MaxOrders
  BY <1>1, FS_Interval DEF Slot
<1>3. IsFiniteSet(Cell) /\ Cardinality(Cell) = MapCapacity
  BY <1>1, FS_Interval DEF Cell
<1>4. Taken(T) \subseteq Cell /\ Spent(T) \subseteq Cell
  BY DEF Taken, Spent
<1>5. IsFiniteSet(Taken(T)) /\ IsFiniteSet(Spent(T)) /\ IsFiniteSet(U)
  BY <1>2, <1>3, <1>4, FS_Subset
<1>6. f \in Injection(Taken(T), U)
  BY DEF MapIs, Injection, IsInjective
<1>7. f \in Surjection(Taken(T), U)
  <2>1. f \in [Taken(T) -> U] /\ \A x \in U : \E c \in Taken(T) : f[c] = x
    BY DEF MapIs
  <2> QED BY <2>1 DEF Surjection
<1> HIDE DEF f
<1>8. Cardinality(Taken(T)) = Cardinality(U)
  BY <1>5, <1>6, <1>7, FS_Injection
<1>9. Cardinality(U) <= MaxOrders
  BY <1>2, FS_Subset
<1>10. Cardinality(Taken(T)) \in Nat
  BY <1>5, FS_CardinalityType
<1>11. Cardinality(Taken(T)) < MapCapacity
  <2> DEFINE k == Cardinality(Taken(T))
  <2>1. k \in Nat /\ k <= MaxOrders
    BY <1>8, <1>9, <1>10
  <2> HIDE DEF k
  <2>2. k < MapCapacity
    BY <1>1, <2>1
  <2> QED BY <2>2 DEF k
<1>12. Taken(T) # Cell
  <2> SUFFICES ASSUME Taken(T) = Cell PROVE FALSE
    OBVIOUS
  <2>1. Cardinality(Taken(T)) = MapCapacity
    BY <1>3
  <2> QED BY <1>1, <1>11, <2>1
<1> QED
  BY <1>5, <1>8, <1>10, <1>11, <1>12

(* What a search by price returns: the one slot with it, or none.          *)
Distinct(price, U) == \A x, y \in U : price[x] = price[y] => x = y

(* A search by price finds the slot with that price, or none if there is   *)
(* none.                                                                   *)
LEMMA FindSlotIs ==
  ASSUME NEW s, s.hash \in [Price -> Nat], NEW U \in SUBSET Slot, Distinct(s.price, U),
         MapIs(s.table, s.hash, U, s.price), NEW p \in Price
  PROVE  /\ \A x \in U : s.price[x] = p =>
              /\ FindSlot(s, p) = x /\ FindCell(s, p) # NoCell
              /\ FindCell(s, p) \in Taken(s.table) /\ s.table[FindCell(s, p)].slot = x
              /\ s.table[FindCell(s, p)].price = p
         /\ (\A x \in U : s.price[x] # p) => FindSlot(s, p) = NoSlot /\ FindCell(s, p) = NoCell
<1> DEFINE T == s.table
           c == FindCell(s, p)
<1>1. /\ T \in [Cell -> MapEntry]
      /\ \A b \in Taken(T) : /\ T[b].slot \in U /\ T[b].price = s.price[T[b].slot]
                            /\ Reaches(T, HomeOf(s.hash, T[b].price), b)
      /\ \A y \in U : \E b \in Taken(T) : T[b].slot = y
  BY DEF MapIs
<1>2. Home(s, p) = HomeOf(s.hash, p) /\ Home(s, p) \in Cell
  BY HomeIs DEF Home, HomeOf
<1>3. \A b \in Cell : b # NoCell
  BY MapCapacityIs DEF Cell, NoCell
<1>4. FindSlot(s, p) = IF c = NoCell THEN NoSlot ELSE T[c].slot
  BY DEF FindSlot
<1>5. ASSUME NEW x \in U, s.price[x] = p
      PROVE  /\ FindSlot(s, p) = x /\ c # NoCell /\ c \in Taken(T) /\ T[c].slot = x
             /\ T[c].price = p
  <2>1. PICK b \in Taken(T) : T[b].slot = x
    BY <1>1
  <2>2. T[b].price = p /\ Reaches(T, Home(s, p), b)
    BY <1>1, <1>2, <1>5, <2>1
  <2>3. s.table \in [Cell -> MapEntry] /\ b \in Taken(s.table) /\ s.table[b].price = p
        /\ Reaches(s.table, Home(s, p), b)
    BY <1>1, <2>2
  <2>4. c \in Taken(T) /\ T[c].price = p
    BY <1>2, <2>3, Finds
  <2>5. c # NoCell
    BY <1>3, <2>4 DEF Taken
  <2>6. T[c].slot = x
    BY <1>1, <1>5, <2>4 DEF Distinct
  <2> QED BY <1>4, <2>4, <2>5, <2>6
<1>6. ASSUME \A x \in U : s.price[x] # p PROVE FindSlot(s, p) = NoSlot /\ c = NoCell
  <2>1. \A b \in Taken(s.table) : s.table[b].price # p
    BY <1>1, <1>6
  <2>2. c = NoCell
    BY <1>2, <2>1, FindsNothing
  <2> QED BY <1>4, <2>2
<1> QED
  BY <1>5, <1>6

-----------------------------------------------------------------------------
(* The parts of a sparse side.                                             *)

(* A sparse side with these parts. *)
Parts(side, hash, price, queue, position, free, sorted, best, table, size, tombs) ==
  [side |-> side, hash |-> hash, price |-> price, queue |-> queue, position |-> position,
   free |-> free, sorted |-> sorted, best |-> best, table |-> table, size |-> size,
   tombs |-> tombs]

(* s is the record of its parts and has no others. *)
IsParts(s) ==
  s = Parts(s.side, s.hash, s.price, s.queue, s.position, s.free, s.sorted, s.best, s.table,
            s.size, s.tombs)

(* The type of a sparse side. *)
SparseType ==
  [side: Side, hash: [Price -> Nat], price: [Slot -> Price \cup {NoPrice}],
   queue: [Slot -> Seq(RestingOrder)], position: [Slot -> 0..MaxOrders],
   free: Seq(Slot), sorted: Seq(Slot), best: 0..MaxOrders,
   table: [Cell -> MapEntry], size: Int, tombs: Int]

(* The parts of a side put together are those it was put together from. *)
LEMMA PartsAre ==
  ASSUME NEW a, NEW b, NEW c, NEW d, NEW f, NEW g, NEW h, NEW i, NEW j, NEW k, NEW l,
         NEW e, e = Parts(a, b, c, d, f, g, h, i, j, k, l)
  PROVE  /\ e.side = a /\ e.hash = b /\ e.price = c /\ e.queue = d /\ e.position = f
         /\ e.free = g /\ e.sorted = h /\ e.best = i /\ e.table = j /\ e.size = k
         /\ e.tombs = l
  BY DEF Parts

(* The type part by part, which the provers handle better than one set of  *)
(* records.                                                                *)
SparseTyped(s) ==
  /\ IsParts(s)
  /\ s.side \in Side /\ s.hash \in [Price -> Nat]
  /\ s.price \in [Slot -> Price \cup {NoPrice}] /\ s.queue \in [Slot -> Seq(RestingOrder)]
  /\ s.position \in [Slot -> 0..MaxOrders] /\ s.free \in Seq(Slot)
  /\ s.sorted \in Seq(Slot) /\ s.best \in 0..MaxOrders
  /\ s.table \in [Cell -> MapEntry] /\ s.size \in Int /\ s.tombs \in Int

(* A side of the type has each part typed, *)
LEMMA TypeParts == ASSUME NEW s, s \in SparseType PROVE SparseTyped(s)
  BY DEF SparseTyped, SparseType, IsParts, Parts

(* and the other way round. *)
LEMMA PartsTyped == ASSUME NEW s, SparseTyped(s) PROVE s \in SparseType
<1> DEFINE side_ == s.side
           hash_ == s.hash
           price_ == s.price
           queue_ == s.queue
           position_ == s.position
           free_ == s.free
           sorted_ == s.sorted
           best_ == s.best
           table_ == s.table
           size_ == s.size
           tombs_ == s.tombs
<1>1. /\ s = Parts(side_, hash_, price_, queue_, position_, free_, sorted_, best_, table_, size_,
                   tombs_)
      /\ side_ \in Side /\ hash_ \in [Price -> Nat]
      /\ price_ \in [Slot -> Price \cup {NoPrice}] /\ queue_ \in [Slot -> Seq(RestingOrder)]
      /\ position_ \in [Slot -> 0..MaxOrders] /\ free_ \in Seq(Slot)
      /\ sorted_ \in Seq(Slot) /\ best_ \in 0..MaxOrders
      /\ table_ \in [Cell -> MapEntry] /\ size_ \in Int /\ tombs_ \in Int
  BY DEF SparseTyped, IsParts
<1> HIDE DEF side_, hash_, price_, queue_, position_, free_, sorted_, best_, table_, size_, tombs_
<1> QED
  BY <1>1 DEF Parts, SparseType

(* Repositioned changes the list and the positions.                        *)
LEMMA RepositionedParts ==
  ASSUME NEW s, IsParts(s), NEW q, NEW C, NEW e, e = Repositioned(s, q, C)
  PROVE  /\ IsParts(e)
         /\ e.side = s.side
         /\ e.hash = s.hash
         /\ e.price = s.price
         /\ e.queue = s.queue
         /\ e.position = Repos(s.position, q, C)
         /\ e.free = s.free
         /\ e.sorted = q
         /\ e.best = s.best
         /\ e.table = s.table
         /\ e.size = s.size
         /\ e.tombs = s.tombs
<1> DEFINE side_ == s.side
           hash_ == s.hash
           price_ == s.price
           queue_ == s.queue
           position_ == s.position
           free_ == s.free
           sorted_ == s.sorted
           best_ == s.best
           table_ == s.table
           size_ == s.size
           tombs_ == s.tombs
<1>1. s = Parts(side_, hash_, price_, queue_, position_, free_, sorted_, best_, table_, size_, tombs_)
  BY DEF IsParts
<1>2. e = [s EXCEPT !.sorted = q, !.position = Repos(s.position, q, C)]
  BY DEF Repositioned, Repos
<1> DEFINE new_sorted == q
           new_position == Repos(s.position, q, C)
<1>3. /\ new_sorted = q
      /\ new_position = Repos(s.position, q, C)
  OBVIOUS
<1>4. e = [s EXCEPT !.sorted = new_sorted, !.position = new_position]
  BY <1>2
<1> HIDE DEF side_, hash_, price_, queue_, position_, free_, sorted_, best_, table_, size_, tombs_, new_sorted, new_position
<1>5. e = Parts(side_, hash_, price_, queue_, new_position, free_, new_sorted, best_, table_, size_, tombs_)
  BY <1>1, <1>4 DEF Parts
<1>6. /\ IsParts(e)
      /\ e.side = side_
      /\ e.hash = hash_
      /\ e.price = price_
      /\ e.queue = queue_
      /\ e.position = new_position
      /\ e.free = free_
      /\ e.sorted = new_sorted
      /\ e.best = best_
      /\ e.table = table_
      /\ e.size = size_
      /\ e.tombs = tombs_
  <2>1. /\ e.side = side_
      /\ e.hash = hash_
      /\ e.price = price_
      /\ e.queue = queue_
      /\ e.position = new_position
      /\ e.free = free_
      /\ e.sorted = new_sorted
      /\ e.best = best_
      /\ e.table = table_
      /\ e.size = size_
      /\ e.tombs = tombs_
    BY <1>5 DEF Parts
  <2>2. IsParts(e)
    BY <1>5, <2>1, Zenon DEF IsParts
  <2> QED BY <2>1, <2>2
<1> QED
  BY <1>3, <1>6 DEF side_, hash_, price_, queue_, position_, free_, sorted_, best_, table_, size_, tombs_, new_sorted, new_position

(* RefreshBest changes the best.                                           *)
LEMMA RefreshedParts ==
  ASSUME NEW s, IsParts(s), NEW e, e = RefreshBest(s)
  PROVE  /\ IsParts(e)
         /\ e.side = s.side
         /\ e.hash = s.hash
         /\ e.price = s.price
         /\ e.queue = s.queue
         /\ e.position = s.position
         /\ e.free = s.free
         /\ e.sorted = s.sorted
         /\ e.best = (IF Len(s.sorted) = 0 THEN NoSlot ELSE IF s.side = "Buy" THEN Last(s.sorted) ELSE Head(s.sorted))
         /\ e.table = s.table
         /\ e.size = s.size
         /\ e.tombs = s.tombs
<1> DEFINE side_ == s.side
           hash_ == s.hash
           price_ == s.price
           queue_ == s.queue
           position_ == s.position
           free_ == s.free
           sorted_ == s.sorted
           best_ == s.best
           table_ == s.table
           size_ == s.size
           tombs_ == s.tombs
<1>1. s = Parts(side_, hash_, price_, queue_, position_, free_, sorted_, best_, table_, size_, tombs_)
  BY DEF IsParts
<1>2. e = [s EXCEPT !.best = IF Len(s.sorted) = 0 THEN NoSlot ELSE IF s.side = "Buy" THEN Last(s.sorted) ELSE Head(s.sorted)]
  BY DEF RefreshBest, Count
<1> DEFINE new_best == (IF Len(s.sorted) = 0 THEN NoSlot ELSE IF s.side = "Buy" THEN Last(s.sorted) ELSE Head(s.sorted))
<1>3. /\ new_best = (IF Len(s.sorted) = 0 THEN NoSlot ELSE IF s.side = "Buy" THEN Last(s.sorted) ELSE Head(s.sorted))
  OBVIOUS
<1>4. e = [s EXCEPT !.best = new_best]
  BY <1>2
<1> HIDE DEF side_, hash_, price_, queue_, position_, free_, sorted_, best_, table_, size_, tombs_, new_best
<1>5. e = Parts(side_, hash_, price_, queue_, position_, free_, sorted_, new_best, table_, size_, tombs_)
  BY <1>1, <1>4 DEF Parts
<1>6. /\ IsParts(e)
      /\ e.side = side_
      /\ e.hash = hash_
      /\ e.price = price_
      /\ e.queue = queue_
      /\ e.position = position_
      /\ e.free = free_
      /\ e.sorted = sorted_
      /\ e.best = new_best
      /\ e.table = table_
      /\ e.size = size_
      /\ e.tombs = tombs_
  <2>1. /\ e.side = side_
      /\ e.hash = hash_
      /\ e.price = price_
      /\ e.queue = queue_
      /\ e.position = position_
      /\ e.free = free_
      /\ e.sorted = sorted_
      /\ e.best = new_best
      /\ e.table = table_
      /\ e.size = size_
      /\ e.tombs = tombs_
    BY <1>5 DEF Parts
  <2>2. IsParts(e)
    BY <1>5, <2>1, Zenon DEF IsParts
  <2> QED BY <2>1, <2>2
<1> QED
  BY <1>3, <1>6 DEF side_, hash_, price_, queue_, position_, free_, sorted_, best_, table_, size_, tombs_, new_best

(* MapInserted changes the map.                                            *)
LEMMA InsertedParts ==
  ASSUME NEW s, IsParts(s), NEW p, NEW slot, NEW e, e = MapInserted(s, p, slot)
  PROVE  /\ IsParts(e)
         /\ e.side = s.side
         /\ e.hash = s.hash
         /\ e.price = s.price
         /\ e.queue = s.queue
         /\ e.position = s.position
         /\ e.free = s.free
         /\ e.sorted = s.sorted
         /\ e.best = s.best
         /\ e.table = Placed(s, p, slot).table
         /\ e.size = s.size + 1
         /\ e.tombs = (IF Placed(s, p, slot).reused THEN s.tombs - 1 ELSE s.tombs)
<1> DEFINE side_ == s.side
           hash_ == s.hash
           price_ == s.price
           queue_ == s.queue
           position_ == s.position
           free_ == s.free
           sorted_ == s.sorted
           best_ == s.best
           table_ == s.table
           size_ == s.size
           tombs_ == s.tombs
<1>1. s = Parts(side_, hash_, price_, queue_, position_, free_, sorted_, best_, table_, size_, tombs_)
  BY DEF IsParts
<1>2. e = [s EXCEPT !.table = Placed(s, p, slot).table, !.size = s.size + 1,
                   !.tombs = IF Placed(s, p, slot).reused THEN s.tombs - 1 ELSE s.tombs]
  BY DEF MapInserted
<1> DEFINE new_table == Placed(s, p, slot).table
           new_size == s.size + 1
           new_tombs == (IF Placed(s, p, slot).reused THEN s.tombs - 1 ELSE s.tombs)
<1>3. /\ new_table = Placed(s, p, slot).table
      /\ new_size = s.size + 1
      /\ new_tombs = (IF Placed(s, p, slot).reused THEN s.tombs - 1 ELSE s.tombs)
  OBVIOUS
<1>4. e = [s EXCEPT !.table = new_table, !.size = new_size, !.tombs = new_tombs]
  BY <1>2
<1> HIDE DEF side_, hash_, price_, queue_, position_, free_, sorted_, best_, table_, size_, tombs_, new_table, new_size, new_tombs
<1>5. e = Parts(side_, hash_, price_, queue_, position_, free_, sorted_, best_, new_table, new_size, new_tombs)
  BY <1>1, <1>4 DEF Parts
<1>6. /\ IsParts(e)
      /\ e.side = side_
      /\ e.hash = hash_
      /\ e.price = price_
      /\ e.queue = queue_
      /\ e.position = position_
      /\ e.free = free_
      /\ e.sorted = sorted_
      /\ e.best = best_
      /\ e.table = new_table
      /\ e.size = new_size
      /\ e.tombs = new_tombs
  <2>1. /\ e.side = side_
      /\ e.hash = hash_
      /\ e.price = price_
      /\ e.queue = queue_
      /\ e.position = position_
      /\ e.free = free_
      /\ e.sorted = sorted_
      /\ e.best = best_
      /\ e.table = new_table
      /\ e.size = new_size
      /\ e.tombs = new_tombs
    BY <1>5 DEF Parts
  <2>2. IsParts(e)
    BY <1>5, <2>1, Zenon DEF IsParts
  <2> QED BY <2>1, <2>2
<1> QED
  BY <1>3, <1>6 DEF side_, hash_, price_, queue_, position_, free_, sorted_, best_, table_, size_, tombs_, new_table, new_size, new_tombs

(* MapErased leaves a tombstone.                                           *)
LEMMA ErasedParts ==
  ASSUME NEW s, IsParts(s), NEW c \in Taken(s.table), NEW p, s.table[c].price = p, NEW e, e = MapErased(s, c, p)
  PROVE  /\ IsParts(e)
         /\ e.side = s.side
         /\ e.hash = s.hash
         /\ e.price = s.price
         /\ e.queue = s.queue
         /\ e.position = s.position
         /\ e.free = s.free
         /\ e.sorted = s.sorted
         /\ e.best = s.best
         /\ e.table = Put(s.table, c, Tombstone)
         /\ e.size = s.size - 1
         /\ e.tombs = s.tombs + 1
<1> DEFINE side_ == s.side
           hash_ == s.hash
           price_ == s.price
           queue_ == s.queue
           position_ == s.position
           free_ == s.free
           sorted_ == s.sorted
           best_ == s.best
           table_ == s.table
           size_ == s.size
           tombs_ == s.tombs
<1>1. s = Parts(side_, hash_, price_, queue_, position_, free_, sorted_, best_, table_, size_, tombs_)
  BY DEF IsParts
<1>2. e = [s EXCEPT !.table = Put(s.table, c, Tombstone), !.size = s.size - 1,
                   !.tombs = s.tombs + 1]
  BY MapCapacityIs DEF MapErased, Put, Taken, Cell, NoCell
<1> DEFINE new_table == Put(s.table, c, Tombstone)
           new_size == s.size - 1
           new_tombs == s.tombs + 1
<1>3. /\ new_table = Put(s.table, c, Tombstone)
      /\ new_size = s.size - 1
      /\ new_tombs = s.tombs + 1
  OBVIOUS
<1>4. e = [s EXCEPT !.table = new_table, !.size = new_size, !.tombs = new_tombs]
  BY <1>2
<1> HIDE DEF side_, hash_, price_, queue_, position_, free_, sorted_, best_, table_, size_, tombs_, new_table, new_size, new_tombs
<1>5. e = Parts(side_, hash_, price_, queue_, position_, free_, sorted_, best_, new_table, new_size, new_tombs)
  BY <1>1, <1>4 DEF Parts
<1>6. /\ IsParts(e)
      /\ e.side = side_
      /\ e.hash = hash_
      /\ e.price = price_
      /\ e.queue = queue_
      /\ e.position = position_
      /\ e.free = free_
      /\ e.sorted = sorted_
      /\ e.best = best_
      /\ e.table = new_table
      /\ e.size = new_size
      /\ e.tombs = new_tombs
  <2>1. /\ e.side = side_
      /\ e.hash = hash_
      /\ e.price = price_
      /\ e.queue = queue_
      /\ e.position = position_
      /\ e.free = free_
      /\ e.sorted = sorted_
      /\ e.best = best_
      /\ e.table = new_table
      /\ e.size = new_size
      /\ e.tombs = new_tombs
    BY <1>5 DEF Parts
  <2>2. IsParts(e)
    BY <1>5, <2>1, Zenon DEF IsParts
  <2> QED BY <2>1, <2>2
<1> QED
  BY <1>3, <1>6 DEF side_, hash_, price_, queue_, position_, free_, sorted_, best_, table_, size_, tombs_, new_table, new_size, new_tombs

(* Slot x is handed out.                                                   *)
HandedOut(e, s, x, p) ==
  /\ IsParts(e)
  /\ e.side = s.side
  /\ e.hash = s.hash
  /\ e.price = [s.price EXCEPT ![x] = p]
  /\ e.queue = [s.queue EXCEPT ![x] = <<>>]
  /\ e.position = s.position
  /\ e.free = Front(s.free)
  /\ e.sorted = s.sorted
  /\ e.best = s.best
  /\ e.table = s.table
  /\ e.size = s.size
  /\ e.tombs = s.tombs

(* That is the change allocate_slot and create_level make, *)
LEMMA TakenParts ==
  ASSUME NEW s, IsParts(s), NEW x, NEW p
  PROVE  HandedOut([s EXCEPT !.free = Front(@), !.price[x] = p, !.queue[x] = <<>>], s, x, p)
<1> DEFINE e == [s EXCEPT !.free = Front(@), !.price[x] = p, !.queue[x] = <<>>]
           side_ == s.side
           hash_ == s.hash
           price_ == s.price
           queue_ == s.queue
           position_ == s.position
           free_ == s.free
           sorted_ == s.sorted
           best_ == s.best
           table_ == s.table
           size_ == s.size
           tombs_ == s.tombs
<1>1. s = Parts(side_, hash_, price_, queue_, position_, free_, sorted_, best_, table_, size_, tombs_)
  BY DEF IsParts
<1> DEFINE new_free == Front(s.free)
           new_price == [s.price EXCEPT ![x] = p]
           new_queue == [s.queue EXCEPT ![x] = <<>>]
<1>3. /\ new_free = Front(s.free)
      /\ new_price = [s.price EXCEPT ![x] = p]
      /\ new_queue = [s.queue EXCEPT ![x] = <<>>]
  OBVIOUS
<1>4. e = [s EXCEPT !.free = new_free, !.price = new_price, !.queue = new_queue]
  OBVIOUS
<1> HIDE DEF e, side_, hash_, price_, queue_, position_, free_, sorted_, best_, table_, size_, tombs_, new_free, new_price, new_queue
<1>5. e = Parts(side_, hash_, new_price, new_queue, position_, new_free, sorted_, best_, table_, size_, tombs_)
  BY <1>1, <1>4 DEF Parts
<1>6. /\ IsParts(e)
      /\ e.side = side_
      /\ e.hash = hash_
      /\ e.price = new_price
      /\ e.queue = new_queue
      /\ e.position = position_
      /\ e.free = new_free
      /\ e.sorted = sorted_
      /\ e.best = best_
      /\ e.table = table_
      /\ e.size = size_
      /\ e.tombs = tombs_
  <2>1. /\ e.side = side_
      /\ e.hash = hash_
      /\ e.price = new_price
      /\ e.queue = new_queue
      /\ e.position = position_
      /\ e.free = new_free
      /\ e.sorted = sorted_
      /\ e.best = best_
      /\ e.table = table_
      /\ e.size = size_
      /\ e.tombs = tombs_
    BY <1>5 DEF Parts
  <2>2. IsParts(e)
    BY <1>5, <2>1, Zenon DEF IsParts
  <2> QED BY <2>1, <2>2
<1> QED
  BY <1>3, <1>6 DEF e, HandedOut, side_, hash_, price_, queue_, position_, free_, sorted_, best_, table_, size_, tombs_, new_free, new_price, new_queue

(* Slot x is handed back.                                                  *)
HandedBack(e, s, x, p) ==
  /\ IsParts(e)
  /\ e.side = s.side
  /\ e.hash = s.hash
  /\ e.price = [s.price EXCEPT ![x] = p]
  /\ e.queue = [s.queue EXCEPT ![x] = <<>>]
  /\ e.position = s.position
  /\ e.free = Append(s.free, x)
  /\ e.sorted = s.sorted
  /\ e.best = s.best
  /\ e.table = s.table
  /\ e.size = s.size
  /\ e.tombs = s.tombs

(* That is the change remove_occupied_level makes. *)
LEMMA ReturnedParts ==
  ASSUME NEW s, IsParts(s), NEW x, NEW p
  PROVE  HandedBack([s EXCEPT !.price[x] = p, !.queue[x] = <<>>, !.free = Append(@, x)], s, x, p)
<1> DEFINE e == [s EXCEPT !.price[x] = p, !.queue[x] = <<>>, !.free = Append(@, x)]
           side_ == s.side
           hash_ == s.hash
           price_ == s.price
           queue_ == s.queue
           position_ == s.position
           free_ == s.free
           sorted_ == s.sorted
           best_ == s.best
           table_ == s.table
           size_ == s.size
           tombs_ == s.tombs
<1>1. s = Parts(side_, hash_, price_, queue_, position_, free_, sorted_, best_, table_, size_, tombs_)
  BY DEF IsParts
<1> DEFINE new_price == [s.price EXCEPT ![x] = p]
           new_queue == [s.queue EXCEPT ![x] = <<>>]
           new_free == Append(s.free, x)
<1>3. /\ new_price = [s.price EXCEPT ![x] = p]
      /\ new_queue = [s.queue EXCEPT ![x] = <<>>]
      /\ new_free = Append(s.free, x)
  OBVIOUS
<1>4. e = [s EXCEPT !.price = new_price, !.queue = new_queue, !.free = new_free]
  OBVIOUS
<1> HIDE DEF e, side_, hash_, price_, queue_, position_, free_, sorted_, best_, table_, size_, tombs_, new_price, new_queue, new_free
<1>5. e = Parts(side_, hash_, new_price, new_queue, position_, new_free, sorted_, best_, table_, size_, tombs_)
  BY <1>1, <1>4 DEF Parts
<1>6. /\ IsParts(e)
      /\ e.side = side_
      /\ e.hash = hash_
      /\ e.price = new_price
      /\ e.queue = new_queue
      /\ e.position = position_
      /\ e.free = new_free
      /\ e.sorted = sorted_
      /\ e.best = best_
      /\ e.table = table_
      /\ e.size = size_
      /\ e.tombs = tombs_
  <2>1. /\ e.side = side_
      /\ e.hash = hash_
      /\ e.price = new_price
      /\ e.queue = new_queue
      /\ e.position = position_
      /\ e.free = new_free
      /\ e.sorted = sorted_
      /\ e.best = best_
      /\ e.table = table_
      /\ e.size = size_
      /\ e.tombs = tombs_
    BY <1>5 DEF Parts
  <2>2. IsParts(e)
    BY <1>5, <2>1, Zenon DEF IsParts
  <2> QED BY <2>1, <2>2
<1> QED
  BY <1>3, <1>6 DEF e, HandedBack, side_, hash_, price_, queue_, position_, free_, sorted_, best_, table_, size_, tombs_, new_price, new_queue, new_free

(* Slot x forgets its place.                                               *)
Unplaced(e, s, x) ==
  /\ IsParts(e)
  /\ e.side = s.side
  /\ e.hash = s.hash
  /\ e.price = s.price
  /\ e.queue = s.queue
  /\ e.position = [s.position EXCEPT ![x] = NoSlot]
  /\ e.free = s.free
  /\ e.sorted = s.sorted
  /\ e.best = s.best
  /\ e.table = s.table
  /\ e.size = s.size
  /\ e.tombs = s.tombs

(* That is the change remove_sorted makes last. *)
LEMMA UnplacedParts ==
  ASSUME NEW s, IsParts(s), NEW x
  PROVE  Unplaced([s EXCEPT !.position[x] = NoSlot], s, x)
<1> DEFINE e == [s EXCEPT !.position[x] = NoSlot]
           side_ == s.side
           hash_ == s.hash
           price_ == s.price
           queue_ == s.queue
           position_ == s.position
           free_ == s.free
           sorted_ == s.sorted
           best_ == s.best
           table_ == s.table
           size_ == s.size
           tombs_ == s.tombs
<1>1. s = Parts(side_, hash_, price_, queue_, position_, free_, sorted_, best_, table_, size_, tombs_)
  BY DEF IsParts
<1> DEFINE new_position == [s.position EXCEPT ![x] = NoSlot]
<1>3. /\ new_position = [s.position EXCEPT ![x] = NoSlot]
  OBVIOUS
<1>4. e = [s EXCEPT !.position = new_position]
  OBVIOUS
<1> HIDE DEF e, side_, hash_, price_, queue_, position_, free_, sorted_, best_, table_, size_, tombs_, new_position
<1>5. e = Parts(side_, hash_, price_, queue_, new_position, free_, sorted_, best_, table_, size_, tombs_)
  BY <1>1, <1>4 DEF Parts
<1>6. /\ IsParts(e)
      /\ e.side = side_
      /\ e.hash = hash_
      /\ e.price = price_
      /\ e.queue = queue_
      /\ e.position = new_position
      /\ e.free = free_
      /\ e.sorted = sorted_
      /\ e.best = best_
      /\ e.table = table_
      /\ e.size = size_
      /\ e.tombs = tombs_
  <2>1. /\ e.side = side_
      /\ e.hash = hash_
      /\ e.price = price_
      /\ e.queue = queue_
      /\ e.position = new_position
      /\ e.free = free_
      /\ e.sorted = sorted_
      /\ e.best = best_
      /\ e.table = table_
      /\ e.size = size_
      /\ e.tombs = tombs_
    BY <1>5 DEF Parts
  <2>2. IsParts(e)
    BY <1>5, <2>1, Zenon DEF IsParts
  <2> QED BY <2>1, <2>2
<1> QED
  BY <1>3, <1>6 DEF e, Unplaced, side_, hash_, price_, queue_, position_, free_, sorted_, best_, table_, size_, tombs_, new_position

(* The queue of slot x becomes z.                                          *)
Requeued(e, s, x, z) ==
  /\ IsParts(e)
  /\ e.side = s.side
  /\ e.hash = s.hash
  /\ e.price = s.price
  /\ e.queue = [s.queue EXCEPT ![x] = z]
  /\ e.position = s.position
  /\ e.free = s.free
  /\ e.sorted = s.sorted
  /\ e.best = s.best
  /\ e.table = s.table
  /\ e.size = s.size
  /\ e.tombs = s.tombs

(* That is the change of every operation on a queue. *)
LEMMA RequeuedParts ==
  ASSUME NEW s, IsParts(s), NEW x, NEW z
  PROVE  Requeued([s EXCEPT !.queue[x] = z], s, x, z)
<1> DEFINE e == [s EXCEPT !.queue[x] = z]
           side_ == s.side
           hash_ == s.hash
           price_ == s.price
           queue_ == s.queue
           position_ == s.position
           free_ == s.free
           sorted_ == s.sorted
           best_ == s.best
           table_ == s.table
           size_ == s.size
           tombs_ == s.tombs
<1>1. s = Parts(side_, hash_, price_, queue_, position_, free_, sorted_, best_, table_, size_, tombs_)
  BY DEF IsParts
<1> DEFINE new_queue == [s.queue EXCEPT ![x] = z]
<1>3. /\ new_queue = [s.queue EXCEPT ![x] = z]
  OBVIOUS
<1>4. e = [s EXCEPT !.queue = new_queue]
  OBVIOUS
<1> HIDE DEF e, side_, hash_, price_, queue_, position_, free_, sorted_, best_, table_, size_, tombs_, new_queue
<1>5. e = Parts(side_, hash_, price_, new_queue, position_, free_, sorted_, best_, table_, size_, tombs_)
  BY <1>1, <1>4 DEF Parts
<1>6. /\ IsParts(e)
      /\ e.side = side_
      /\ e.hash = hash_
      /\ e.price = price_
      /\ e.queue = new_queue
      /\ e.position = position_
      /\ e.free = free_
      /\ e.sorted = sorted_
      /\ e.best = best_
      /\ e.table = table_
      /\ e.size = size_
      /\ e.tombs = tombs_
  <2>1. /\ e.side = side_
      /\ e.hash = hash_
      /\ e.price = price_
      /\ e.queue = new_queue
      /\ e.position = position_
      /\ e.free = free_
      /\ e.sorted = sorted_
      /\ e.best = best_
      /\ e.table = table_
      /\ e.size = size_
      /\ e.tombs = tombs_
    BY <1>5 DEF Parts
  <2>2. IsParts(e)
    BY <1>5, <2>1, Zenon DEF IsParts
  <2> QED BY <2>1, <2>2
<1> QED
  BY <1>3, <1>6 DEF e, Requeued, side_, hash_, price_, queue_, position_, free_, sorted_, best_, table_, size_, tombs_, new_queue

-----------------------------------------------------------------------------
(* The list of a side.                                                     *)

(* e differs from s in the list, the positions and the best slot only. *)
OnlyLists(e, s) ==
  /\ IsParts(e) /\ e.side = s.side /\ e.hash = s.hash /\ e.price = s.price /\ e.queue = s.queue
  /\ e.free = s.free /\ e.table = s.table /\ e.size = s.size /\ e.tombs = s.tombs

(* best is the slot at the better end of the list (refresh_best). *)
BestIs(side, q, best) ==
  best = IF Len(q) = 0 THEN NoSlot ELSE IF side = "Buy" THEN Last(q) ELSE Head(q)

(* The list does not depend on the prices of slots that are not in it. *)
LEMMA ListedRepriced ==
  ASSUME NEW price, NEW q, NEW position, NEW U, Listed(price, q, position, U),
         NEW new, \A y \in U : new[y] = price[y]
  PROVE  Listed(new, q, position, U)
<1>1. \A n \in 1..Len(q) : q[n] \in U /\ new[q[n]] = price[q[n]]
  BY DEF Listed
<1>2. Rises(price, q)
  BY DEF Listed
<1>3. Rises(new, q)
  BY <1>1, <1>2 DEF Rises
<1> QED
  BY <1>3 DEF Listed

(* insert_sorted, with the search for the place and the renumbering behind *)
(* it, lists a new slot.                                                   *)
LEMMA InsertSortedIs ==
  ASSUME NEW s, IsParts(s), NEW U, NEW price, Listed(price, s.sorted, s.position, U),
         NEW x \in Slot \ U, Priced(s.price, price, U, x)
  PROVE  /\ OnlyLists(InsertSorted(s, x), s)
         /\ Listed(s.price, InsertSorted(s, x).sorted, InsertSorted(s, x).position, U \cup {x})
         /\ BestIs(s.side, InsertSorted(s, x).sorted, InsertSorted(s, x).best)
<1> DEFINE q == s.sorted
           new == s.price
           p == new[x]
           i == LowerBound(s, p)
           n == i + 1
           r == InsertAt(q, n, x)
           C == n..MaxOrders
           moved == Repositioned(s, r, C)
           e == RefreshBest(moved)
<1>1. InsertSorted(s, x) = e
  BY DEF InsertSorted
<1>2. p \in Int /\ \A y \in U : new[y] = price[y] /\ price[y] # p
  BY DEF Priced
<1>3. Rises(new, q)
  <2>1. Listed(price, q, s.position, U)
    OBVIOUS
  <2> HIDE DEF new, q, p
  <2>2. Listed(new, q, s.position, U)
    BY <1>2, <2>1, ListedRepriced
  <2> QED BY <2>2 DEF Listed
<1>4. q \in Seq(Slot) /\ Len(q) \in Nat /\ \A k \in 1..Len(q) : q[k] \in U
  BY LenProperties DEF Listed, Rises
<1>5. /\ i \in 0..Len(q) /\ \A k \in 1..i : new[q[k]] < p
      /\ \A k \in (i + 1)..Len(q) : ~(new[q[k]] < p)
  BY <1>2, <1>3, LowerBoundIs
<1> HIDE DEF i
<1>6. Belongs(price, q, p, i)
  <2>1. \A k \in 1..Len(q) : new[q[k]] = price[q[k]]
    BY <1>2, <1>4
  <2>2. \A k \in 1..i : k \in 1..Len(q)
    BY <1>4, <1>5
  <2>3. \A k \in (i + 1)..Len(q) : k \in 1..Len(q)
    BY <1>4, <1>5
  <2> HIDE DEF new, p, q
  <2>4. \A k \in 1..i : price[q[k]] < p
    BY <1>5, <2>1, <2>2
  <2>5. \A k \in (i + 1)..Len(q) : ~(price[q[k]] < p)
    BY <1>5, <2>1, <2>3
  <2> QED BY <1>5, <2>4, <2>5 DEF Belongs
<1>7. n \in 1..(Len(q) + 1) /\ x \in Slot /\ n \in Nat
  BY <1>4, <1>5
<1>8. r \in Seq(Slot) /\ InsertAtShape(r, q, i + 1, x)
  <2> HIDE DEF q, n
  <2>1. InsertAt(q, n, x) \in Seq(Slot) /\ InsertAtShape(InsertAt(q, n, x), q, n, x)
    BY <1>4, <1>7, InsertAtProperties
  <2> QED BY <2>1 DEF n
<1>9. Rises(new, r)
  <2> HIDE DEF q, r, p
  <2>1. Belongs(price, q, new[x], i)
    BY <1>6 DEF p
  <2>2. Listed(price, q, s.position, U)
    BY DEF q
  <2>3. Priced(new, price, U, x)
    OBVIOUS
  <2> HIDE DEF new
  <2> QED BY <1>8, <2>1, <2>2, <2>3, InsertRises
<1>10. s.position \in [Slot -> 0..MaxOrders]
  BY DEF Listed
<1> DEFINE place == Repos(s.position, r, C)
<1>11. Repositions(place, s.position, r, i + 1)
  <2> HIDE DEF r, n, new
  <2>1. Repositions(Repos(s.position, r, n..MaxOrders), s.position, r, n)
    BY <1>7, <1>9, <1>10, ReposIs
  <2> QED BY <2>1 DEF n
<1>12. Listed(new, r, place, U \cup {x})
  <2> HIDE DEF q, r, p, place
  <2>1. Belongs(price, q, new[x], i)
    BY <1>6 DEF p
  <2>2. Listed(price, q, s.position, U)
    BY DEF q
  <2>3. Priced(new, price, U, x)
    OBVIOUS
  <2> HIDE DEF new
  <2> QED BY <1>8, <1>11, <2>1, <2>2, <2>3, InsertListed
<1> HIDE DEF r, C, place
<1>13. OnlyLists(moved, s) /\ moved.sorted = r /\ moved.position = place
  <2>1. moved = Repositioned(s, r, C)
    OBVIOUS
  <2> HIDE DEF moved
  <2> QED BY <2>1, RepositionedParts DEF OnlyLists, place
<1> HIDE DEF moved
<1>14. /\ OnlyLists(e, moved) /\ e.sorted = moved.sorted /\ e.position = moved.position
       /\ BestIs(moved.side, moved.sorted, e.best)
  <2>1. e = RefreshBest(moved) /\ IsParts(moved)
    BY <1>13 DEF OnlyLists
  <2> HIDE DEF e
  <2> QED BY <2>1, RefreshedParts DEF OnlyLists, BestIs
<1> HIDE DEF e
<1>15. OnlyLists(e, s) /\ moved.side = s.side
  BY <1>13, <1>14 DEF OnlyLists
<1> QED
  BY <1>1, <1>12, <1>13, <1>14, <1>15

(* remove_sorted takes a slot off the list. *)
LEMMA RemoveSortedIs ==
  ASSUME NEW s, IsParts(s), NEW U, Listed(s.price, s.sorted, s.position, U), NEW x \in U
  PROVE  /\ OnlyLists(RemoveSorted(s, x), s)
         /\ Listed(s.price, RemoveSorted(s, x).sorted, RemoveSorted(s, x).position, U \ {x})
<1> DEFINE q == s.sorted
           n == s.position[x] + 1
           r == RemoveAt(q, n)
           C == n..MaxOrders
           moved == Repositioned(s, r, C)
           e == [moved EXCEPT !.position[x] = NoSlot]
           place == Repos(s.position, r, C)
<1>1. /\ Rises(s.price, q) /\ s.position \in [Slot -> 0..MaxOrders] /\ x \in Slot
      /\ Len(q) \in Nat
      /\ \E k \in 1..Len(q) : q[k] = x
      /\ \A k \in 1..Len(q) : s.position[q[k]] = k - 1
  BY LenProperties DEF Listed, Rises
<1>2. n \in 1..Len(q) /\ n \in Nat
  <2>1. PICK k \in 1..Len(q) : q[k] = x
    BY <1>1
  <2>2. s.position[x] = k - 1
    BY <1>1, <2>1
  <2> QED BY <1>1, <2>2
<1>3. RemoveSorted(s, x) = e
  <2>1. ~(n > Count(s))
    BY <1>1, <1>2 DEF Count
  <2> QED BY <2>1 DEF RemoveSorted
<1>4. Rises(s.price, r)
  <2> HIDE DEF n, q
  <2> QED BY <1>1, <1>2, RemoveRises
<1>5. Repositions(place, s.position, r, n)
  <2> HIDE DEF n, r
  <2> QED BY <1>1, <1>2, <1>4, ReposIs
<1> HIDE DEF C, place
<1>6. OnlyLists(moved, s) /\ moved.sorted = r /\ moved.position = place
  <2>1. moved = Repositioned(s, r, C)
    OBVIOUS
  <2> HIDE DEF moved, r
  <2> QED BY <2>1, RepositionedParts DEF OnlyLists, place
<1> HIDE DEF moved
<1>7. /\ OnlyLists(e, moved) /\ e.sorted = moved.sorted
      /\ e.position = [moved.position EXCEPT ![x] = NoSlot]
  <2>1. e = [moved EXCEPT !.position[x] = NoSlot] /\ IsParts(moved)
    BY <1>6 DEF OnlyLists
  <2> HIDE DEF e
  <2>2. /\ IsParts(e) /\ e.side = moved.side /\ e.hash = moved.hash /\ e.price = moved.price
        /\ e.queue = moved.queue /\ e.position = [moved.position EXCEPT ![x] = NoSlot]
        /\ e.free = moved.free /\ e.sorted = moved.sorted /\ e.table = moved.table
        /\ e.size = moved.size /\ e.tombs = moved.tombs
    <3>1. Unplaced([moved EXCEPT !.position[x] = NoSlot], moved, x)
      BY <2>1, UnplacedParts, Zenon
    <3>2. Unplaced(e, moved, x)
      BY <2>1, <3>1, Zenon
    <3> QED BY <3>2, Zenon DEF Unplaced
  <2> QED BY <2>2, Zenon DEF OnlyLists
<1> HIDE DEF e
<1>8. OnlyLists(e, s)
  BY <1>6, <1>7 DEF OnlyLists
<1>9. Listed(s.price, r, e.position, U \ {x})
  <2> DEFINE price == s.price
             position == s.position
             final == e.position
  <2>1. Listed(price, q, position, U)
    OBVIOUS
  <2>2. n = position[x] + 1 /\ r = RemoveAt(q, n) /\ final = [place EXCEPT ![x] = NoSlot]
    BY <1>6, <1>7
  <2>3. Repositions(place, position, r, n)
    BY <1>5
  <2>4. \A y \in U \ {x} : price[y] = price[y]
    OBVIOUS
  <2> HIDE DEF price, position, final, q, n, r
  <2>5. Listed(price, r, final, U \ {x})
    BY <2>1, <2>2, <2>3, <2>4, RemoveListed
  <2> QED BY <2>5 DEF price, final
<1> QED
  BY <1>3, <1>6, <1>7, <1>8, <1>9

-----------------------------------------------------------------------------
(* Creating and removing levels.                                           *)

(* The slots that are levels. *)
Used(s) == {x \in Slot : s.price[x] # NoPrice}

(* The map of a side and its two counters.                                 *)
Mapped(s, U) ==
  /\ s.hash \in [Price -> Nat]
  /\ MapIs(s.table, s.hash, U, s.price)
  /\ s.size = Cardinality(Taken(s.table)) /\ s.tombs = Cardinality(Spent(s.table))

(* The structures of a sparse side agree: list, free stack, map and best   *)
(* slot are all about the same slots. Whether a level may be without       *)
(* orders is left open, because for a moment inside an operation one is.   *)
SparseShape(s) ==
  /\ s \in SparseType
  /\ Listed(s.price, s.sorted, s.position, Used(s))
  /\ Stacked(s.free, Used(s))
  /\ Mapped(s, Used(s))
  /\ BestIs(s.side, s.sorted, s.best)

(* What follows from that about slots and prices. *)
LEMMA ShapeIs ==
  ASSUME NEW s, SparseShape(s)
  PROVE  /\ SparseTyped(s) /\ IsParts(s) /\ Used(s) \in SUBSET Slot
         /\ \A x \in Used(s) : s.price[x] \in Price /\ x \in Slot
         /\ Distinct(s.price, Used(s))
         /\ \A x \in Used(s) : \E n \in 1..Len(s.sorted) : s.sorted[n] = x
<1>1. SparseTyped(s) /\ IsParts(s)
  BY TypeParts DEF SparseShape, SparseTyped
<1>2. \A x \in Used(s) : s.price[x] \in Price /\ x \in Slot
  BY <1>1 DEF SparseTyped, Used
<1>3. /\ \A x \in Used(s) : \E n \in 1..Len(s.sorted) : s.sorted[n] = x
      /\ Rises(s.price, s.sorted)
  BY DEF SparseShape, Listed
<1>4. Distinct(s.price, Used(s))
  <2> SUFFICES ASSUME NEW x \in Used(s), NEW y \in Used(s), s.price[x] = s.price[y]
               PROVE  x = y
    BY DEF Distinct
  <2> DEFINE q == s.sorted
  <2>1. PICK m \in 1..Len(q) : q[m] = x
    BY <1>3
  <2>2. PICK n \in 1..Len(q) : q[n] = y
    BY <1>3
  <2>3. /\ Len(q) \in Nat /\ \A k \in 1..Len(q) : s.price[q[k]] \in Int
        /\ \A k, l \in 1..Len(q) : k < l => s.price[q[k]] < s.price[q[l]]
    BY <1>3, LenProperties DEF Rises
  <2>4. ~(m < n) /\ ~(n < m)
    BY <2>1, <2>2, <2>3
  <2>5. m = n
    BY <2>3, <2>4
  <2> QED BY <2>1, <2>2, <2>5
<1> QED
  BY <1>1, <1>2, <1>3, <1>4 DEF Used

(* The best slot is a slot or NoSlot. *)
LEMMA BestTyped ==
  ASSUME NEW side, NEW q \in Seq(Slot), NEW best, BestIs(side, q, best)
  PROVE  best \in 0..MaxOrders
<1>1. MaxOrders \in Nat /\ Slot \subseteq 0..MaxOrders /\ NoSlot \in 0..MaxOrders
  BY MapCapacityIs DEF Slot, NoSlot
<1>2. Len(q) \in Nat /\ \A n \in 1..Len(q) : q[n] \in Slot
  BY LenProperties
<1>3. Len(q) # 0 => Len(q) \in 1..Len(q) /\ 1 \in 1..Len(q)
  BY <1>2
<1>4. Len(q) # 0 => Last(q) \in Slot /\ Head(q) \in Slot
  <2> SUFFICES ASSUME Len(q) # 0 PROVE Last(q) \in Slot /\ Head(q) \in Slot
    OBVIOUS
  <2>1. Last(q) = q[Len(q)]
    BY DEF Last
  <2>2. Head(q) = q[1]
    BY EmptySeq, HeadTailProperties
  <2> QED BY <1>2, <1>3, <2>1, <2>2
<1> QED
  BY <1>1, <1>4 DEF BestIs

(* A slot enters the map.                                                  *)
LEMMA MapTakes ==
  ASSUME NEW s, IsParts(s), NEW U \in SUBSET Slot, Mapped(s, U),
         NEW x \in Slot \ U, NEW t, IsParts(t), t.table = s.table, t.hash = s.hash,
         t.size = s.size, t.tombs = s.tombs,
         \A y \in U : t.price[y] = s.price[y] /\ s.price[y] \in Price, t.price[x] \in Price
  PROVE  Mapped(MapInserted(t, t.price[x], x), U \cup {x})
<1> DEFINE V == U \cup {x}
           p == t.price[x]
           r == Placed(t, p, x)
           e == MapInserted(t, p, x)
           T == s.table
<1>1. /\ MapIs(T, s.hash, U, s.price) /\ s.hash \in [Price -> Nat]
      /\ s.size = Cardinality(Taken(T)) /\ s.tombs = Cardinality(Spent(T))
  BY DEF Mapped
<1>2. /\ IsFiniteSet(Taken(T)) /\ IsFiniteSet(Spent(T)) /\ Taken(T) # Cell
  BY <1>1, MapHasRoom
<1>3. MapIs(t.table, t.hash, V \ {x}, t.price)
  <2>1. V \ {x} = U
    OBVIOUS
  <2>2. MapIs(T, s.hash, U, t.price)
    BY <1>1, MapRepriced
  <2> QED BY <2>1, <2>2
<1>4. Arrived(r, t.table, t.hash, V, t.price)
  <2> DEFINE price == t.price
  <2>1. /\ t.hash \in [Price -> Nat] /\ \A y \in V : price[y] \in Price
        /\ x \in V /\ x \in Slot /\ Taken(t.table) # Cell
    BY <1>1, <1>2
  <2>2. MapIs(t.table, t.hash, V \ {x}, price)
    BY <1>3
  <2> HIDE DEF V, price
  <2>3. Arrived(Placed(t, price[x], x), t.table, t.hash, V, price)
    BY <2>1, <2>2, PlacedIs
  <2> QED BY <2>3 DEF price
<1>5. PICK c \in Cell \ Taken(T) : /\ Taken(r.table) = Taken(T) \cup {c}
                                   /\ Spent(r.table) = Spent(T) \ {c}
                                   /\ r.reused <=> c \in Spent(T)
  BY <1>4 DEF Arrived
<1>6. MapIs(r.table, t.hash, V, t.price)
  BY <1>4 DEF Arrived
<1> HIDE DEF r
<1>7. /\ e.hash = t.hash /\ e.price = t.price /\ e.table = r.table /\ e.size = s.size + 1
      /\ e.tombs = IF r.reused THEN s.tombs - 1 ELSE s.tombs
  <2>1. e = MapInserted(t, p, x)
    OBVIOUS
  <2> HIDE DEF e, p
  <2> QED BY <2>1, InsertedParts DEF r
<1> HIDE DEF e
<1>8. e.size = Cardinality(Taken(e.table))
  BY <1>1, <1>2, <1>5, <1>7, FS_AddElement
<1>9. e.tombs = Cardinality(Spent(e.table))
  BY <1>1, <1>2, <1>5, <1>7, FS_RemoveElement
<1>10. Mapped(e, V)
  BY <1>1, <1>6, <1>7, <1>8, <1>9 DEF Mapped
<1> QED
  BY <1>10 DEF e

(* A slot leaves it.                                                       *)
LEMMA MapLoses ==
  ASSUME NEW s, IsParts(s), NEW U \in SUBSET Slot, Mapped(s, U),
         \A y \in U : s.price[y] \in Price,
         NEW c \in Taken(s.table), NEW x, s.table[c].slot = x
  PROVE  Mapped(MapErased(s, c, s.price[x]), U \ {x})
<1> DEFINE T == s.table
           p == s.price[x]
           e == MapErased(s, c, p)
           V == Put(T, c, Tombstone)
<1>1. /\ MapIs(T, s.hash, U, s.price) /\ s.hash \in [Price -> Nat]
      /\ s.size = Cardinality(Taken(T)) /\ s.tombs = Cardinality(Spent(T))
  BY DEF Mapped
<1>2. IsFiniteSet(Taken(T)) /\ IsFiniteSet(Spent(T))
  BY <1>1, MapHasRoom
<1>3. T[c].price = p /\ x \in U
  BY <1>1 DEF MapIs
<1>4. MapIs(V, s.hash, U \ {x}, s.price) /\ Taken(V) = Taken(T) \ {c} /\ Spent(V) = Spent(T) \cup {c}
  <2> DEFINE hash == s.hash
             price == s.price
  <2>1. hash \in [Price -> Nat]
    BY <1>1
  <2>3. \A y \in U : price[y] \in Price
    OBVIOUS
  <2>4. MapIs(T, hash, U, price)
    BY <1>1
  <2>5. c \in Taken(T)
    OBVIOUS
  <2>6. x = T[c].slot
    OBVIOUS
  <2>7. V = Put(T, c, Tombstone)
    OBVIOUS
  <2> HIDE DEF hash, price, T, V
  <2>8. MapIs(V, hash, U \ {x}, price)
    BY <2>1, <2>3, <2>4, <2>5, <2>6, <2>7, MapErases
  <2>9. Taken(V) = Taken(T) \ {c} /\ Spent(V) = Spent(T) \cup {c}
    <3>1. T \in [Cell -> MapEntry] /\ Tombstone.state = "Deleted" /\ c \in Cell
      BY <2>4, <2>5 DEF MapIs, Tombstone, EmptyEntry, Taken
    <3>2. V[c].state = "Deleted" /\ \A b \in Cell : b # c => V[b] = T[b]
      BY <2>7, <3>1 DEF Put
    <3> QED BY <2>5, <3>1, <3>2 DEF Taken, Spent
  <2>2. MapIs(V, hash, U \ {x}, price) /\ Taken(V) = Taken(T) \ {c} /\ Spent(V) = Spent(T) \cup {c}
    BY <2>8, <2>9
  <2> QED BY <2>2 DEF hash, price
<1>5. c \notin Spent(T)
  BY DEF Taken, Spent
<1>6. /\ e.hash = s.hash /\ e.price = s.price /\ e.table = V /\ e.size = s.size - 1
      /\ e.tombs = s.tombs + 1
  <2>1. e = MapErased(s, c, p) /\ s.table[c].price = p
    BY <1>3
  <2> HIDE DEF e, p
  <2> QED BY <2>1, ErasedParts
<1> HIDE DEF e, V
<1>7. e.size = Cardinality(Taken(e.table))
  BY <1>1, <1>2, <1>4, <1>6, FS_RemoveElement
<1>8. e.tombs = Cardinality(Spent(e.table))
  BY <1>1, <1>2, <1>4, <1>5, <1>6, FS_AddElement
<1>9. Mapped(e, U \ {x})
  BY <1>1, <1>4, <1>6, <1>7, <1>8 DEF Mapped
<1> QED
  BY <1>9 DEF e

(* And what it follows from. *)
LEMMA ShapeFrom ==
  ASSUME NEW e, IsParts(e), e.side \in Side, e.price \in [Slot -> Price \cup {NoPrice}],
         e.queue \in [Slot -> Seq(RestingOrder)],
         NEW U, U = Used(e), Listed(e.price, e.sorted, e.position, U), Stacked(e.free, U),
         Mapped(e, U), BestIs(e.side, e.sorted, e.best)
  PROVE  SparseShape(e)
<1>1. U \in SUBSET Slot
  BY DEF Used
<1>2. e.hash \in [Price -> Nat] /\ e.table \in [Cell -> MapEntry] /\ MapIs(e.table, e.hash, U, e.price)
  BY DEF Mapped, MapIs
<1>3. e.size \in Int /\ e.tombs \in Int
  <2>1. Cardinality(Taken(e.table)) \in Nat /\ IsFiniteSet(Spent(e.table))
    BY <1>1, <1>2, MapHasRoom
  <2>2. Cardinality(Spent(e.table)) \in Nat
    BY <2>1, FS_CardinalityType
  <2> QED BY <2>1, <2>2 DEF Mapped
<1>4. e.position \in [Slot -> 0..MaxOrders] /\ e.sorted \in Seq(Slot)
  BY DEF Listed, Rises
<1>5. e.free \in Seq(Slot)
  BY DEF Stacked
<1>6. e.best \in 0..MaxOrders
  BY <1>4, BestTyped
<1>7. SparseTyped(e)
  BY <1>2, <1>3, <1>4, <1>5, <1>6, Zenon DEF SparseTyped
<1>8. e \in SparseType
  BY <1>7, PartsTyped
<1> QED
  BY <1>8 DEF SparseShape

(* e is s with slot x priced p, and no orders in it.                       *)
Reslots(e, s, x, p) ==
  /\ SparseShape(e) /\ e.side = s.side /\ e.hash = s.hash
  /\ e.price = [s.price EXCEPT ![x] = p] /\ e.queue = [s.queue EXCEPT ![x] = <<>>]

(* create_level, with a slot free and the price not there, makes the last  *)
(* free slot a level in all structures at once.                            *)
LEMMA CreateLevelIs ==
  ASSUME NEW s, SparseShape(s), s.free # <<>>, NEW p \in Price,
         \A y \in Used(s) : s.price[y] # p
  PROVE  Last(s.free) \in Slot \ Used(s) /\ Reslots(CreateLevel(s, p), s, Last(s.free), p)
<1> DEFINE U == Used(s)
           x == Last(s.free)
           V == U \cup {x}
           t == [s EXCEPT !.free = Front(@), !.price[x] = p, !.queue[x] = <<>>]
           m == MapInserted(t, p, x)
           e == InsertSorted(m, x)
<1>1. CreateLevel(s, p) = e
  BY DEF CreateLevel
<1>2. /\ SparseTyped(s) /\ IsParts(s) /\ U \in SUBSET Slot
      /\ \A y \in U : s.price[y] \in Price
  BY ShapeIs
<1>3. /\ s.side \in Side /\ s.price \in [Slot -> Price \cup {NoPrice}]
      /\ s.queue \in [Slot -> Seq(RestingOrder)]
  BY <1>2 DEF SparseTyped
<1>4. x \in Slot \ U /\ Stacked(Front(s.free), V)
  <2>1. Stacked(s.free, U)
    BY DEF SparseShape
  <2> HIDE DEF U
  <2> QED BY <2>1, StackPops
<1>5. HandedOut(t, s, x, p)
  BY <1>2, TakenParts
<1> HIDE DEF t, x
<1>6. /\ IsParts(t) /\ t.side = s.side /\ t.hash = s.hash /\ t.price = [s.price EXCEPT ![x] = p]
      /\ t.queue = [s.queue EXCEPT ![x] = <<>>] /\ t.position = s.position
      /\ t.free = Front(s.free) /\ t.sorted = s.sorted /\ t.best = s.best /\ t.table = s.table
      /\ t.size = s.size /\ t.tombs = s.tombs
  BY <1>5 DEF HandedOut
<1>7. t.price[x] = p /\ \A y \in U : t.price[y] = s.price[y]
  BY <1>3, <1>4, <1>6 DEF Used
<1>8. Mapped(m, V)
  <2> HIDE DEF U
  <2>1. Mapped(s, U)
    BY DEF SparseShape, U
  <2>2. Mapped(MapInserted(t, t.price[x], x), U \cup {x})
    BY <1>2, <1>4, <1>6, <1>7, <2>1, MapTakes
  <2> QED BY <1>7, <2>2
<1>9. /\ IsParts(m) /\ m.side = s.side /\ m.hash = s.hash /\ m.price = t.price
      /\ m.queue = t.queue /\ m.position = s.position /\ m.free = t.free /\ m.sorted = s.sorted
  <2>1. m = MapInserted(t, p, x)
    OBVIOUS
  <2> HIDE DEF m
  <2>2. /\ IsParts(m) /\ m.side = t.side /\ m.hash = t.hash /\ m.price = t.price
        /\ m.queue = t.queue /\ m.position = t.position /\ m.free = t.free /\ m.sorted = t.sorted
    BY <1>6, <2>1, InsertedParts
  <2> QED BY <1>6, <2>2
<1> HIDE DEF m
<1>10. /\ OnlyLists(e, m) /\ Listed(m.price, e.sorted, e.position, V)
       /\ BestIs(m.side, e.sorted, e.best)
  <2> DEFINE price == s.price
  <2>1. Listed(price, m.sorted, m.position, U)
    BY <1>9 DEF SparseShape
  <2>2. Priced(m.price, price, U, x)
    <3>1. p \in Int
      BY PriceIs
    <3> QED BY <1>7, <1>9, <3>1 DEF Priced
  <2> HIDE DEF price, U
  <2> QED BY <1>4, <1>9, <2>1, <2>2, InsertSortedIs
<1> HIDE DEF e
<1>11. /\ IsParts(e) /\ e.side = s.side /\ e.hash = s.hash /\ e.price = [s.price EXCEPT ![x] = p]
       /\ e.queue = [s.queue EXCEPT ![x] = <<>>] /\ e.free = Front(s.free)
       /\ e.table = m.table /\ e.size = m.size /\ e.tombs = m.tombs
       /\ m.price = e.price /\ m.side = e.side /\ m.hash = e.hash
  BY <1>6, <1>9, <1>10 DEF OnlyLists
<1>12. V = Used(e)
  <2>1. p # NoPrice
    BY PriceIs
  <2> QED BY <1>3, <1>4, <1>11, <2>1 DEF Used
<1>13. e.price \in [Slot -> Price \cup {NoPrice}]
  BY <1>3, <1>4, <1>11
<1>14. e.queue \in [Slot -> Seq(RestingOrder)]
  <2>1. <<>> \in Seq(RestingOrder)
    OBVIOUS
  <2> QED BY <1>3, <1>4, <1>11, <2>1
<1>15. Mapped(e, V)
  BY <1>8, <1>11 DEF Mapped
<1> HIDE DEF V
<1>16. Listed(e.price, e.sorted, e.position, V) /\ BestIs(e.side, e.sorted, e.best)
  BY <1>10, <1>11
<1>17. Stacked(e.free, V)
  BY <1>4, <1>11
<1>18. SparseShape(e)
  BY <1>3, <1>11, <1>12, <1>13, <1>14, <1>15, <1>16, <1>17, ShapeFrom
<1>19. Reslots(e, s, x, p)
  BY <1>11, <1>18 DEF Reslots
<1> QED
  BY <1>1, <1>4, <1>19 DEF x

(* remove_occupied_level takes a level out of all of them. *)
LEMMA RemoveLevelIs ==
  ASSUME NEW s, SparseShape(s), NEW x \in Used(s),
         NEW c \in Taken(s.table), s.table[c].slot = x
  PROVE  Reslots(RemoveLevel(s, x, c), s, x, NoPrice)
<1> DEFINE U == Used(s)
           V == U \ {x}
           t == MapErased(s, c, s.price[x])
           m == RemoveSorted(t, x)
           f == [m EXCEPT !.price[x] = NoPrice, !.queue[x] = <<>>, !.free = Append(@, x)]
           e == RefreshBest(f)
<1>1. RemoveLevel(s, x, c) = e
  BY DEF RemoveLevel
<1>2. /\ SparseTyped(s) /\ IsParts(s) /\ U \in SUBSET Slot /\ x \in Slot
      /\ \A y \in U : s.price[y] \in Price
  BY ShapeIs
<1>3. /\ s.side \in Side /\ s.price \in [Slot -> Price \cup {NoPrice}]
      /\ s.queue \in [Slot -> Seq(RestingOrder)]
  BY <1>2 DEF SparseTyped
<1>4. Mapped(t, V)
  <2>1. Mapped(s, U)
    BY DEF SparseShape
  <2> HIDE DEF U
  <2> QED BY <1>2, <2>1, MapLoses
<1>5. /\ IsParts(t) /\ t.side = s.side /\ t.hash = s.hash /\ t.price = s.price
      /\ t.queue = s.queue /\ t.position = s.position /\ t.free = s.free /\ t.sorted = s.sorted
  <2>1. s.table[c].price = s.price[x]
    BY DEF SparseShape, Mapped, MapIs
  <2>2. t = MapErased(s, c, s.price[x])
    OBVIOUS
  <2> HIDE DEF t
  <2> QED BY <1>2, <2>1, <2>2, ErasedParts
<1> HIDE DEF t
<1>6. OnlyLists(m, t) /\ Listed(t.price, m.sorted, m.position, V)
  <2>1. Listed(t.price, t.sorted, t.position, U) /\ x \in U
    BY <1>5 DEF SparseShape
  <2> HIDE DEF U
  <2> QED BY <1>5, <2>1, RemoveSortedIs
<1> HIDE DEF m
<1>7. HandedBack(f, m, x, NoPrice)
  <2>1. IsParts(m)
    BY <1>6 DEF OnlyLists
  <2> QED BY <2>1, ReturnedParts
<1> HIDE DEF f
<1>8. /\ IsParts(f) /\ f.side = s.side /\ f.hash = s.hash /\ f.price = [s.price EXCEPT ![x] = NoPrice]
      /\ f.queue = [s.queue EXCEPT ![x] = <<>>] /\ f.free = Append(s.free, x)
      /\ f.table = t.table /\ f.size = t.size /\ f.tombs = t.tombs
      /\ f.sorted = m.sorted /\ f.position = m.position
  BY <1>5, <1>6, <1>7, Zenon DEF OnlyLists, HandedBack
<1>9. /\ IsParts(e) /\ e.side = f.side /\ e.hash = f.hash /\ e.price = f.price /\ e.queue = f.queue
      /\ e.position = f.position /\ e.free = f.free /\ e.sorted = f.sorted /\ e.table = f.table
      /\ e.size = f.size /\ e.tombs = f.tombs /\ BestIs(f.side, f.sorted, e.best)
  <2>1. e = RefreshBest(f)
    OBVIOUS
  <2> HIDE DEF e
  <2> QED BY <1>8, <2>1, RefreshedParts DEF BestIs
<1> HIDE DEF e
<1>10. V = Used(e)
  BY <1>2, <1>3, <1>8, <1>9 DEF Used
<1>11. e.price \in [Slot -> Price \cup {NoPrice}]
  BY <1>2, <1>3, <1>8, <1>9
<1>12. e.queue \in [Slot -> Seq(RestingOrder)]
  <2>1. <<>> \in Seq(RestingOrder)
    OBVIOUS
  <2> QED BY <1>2, <1>3, <1>8, <1>9, <2>1
<1>13. \A y \in V : e.price[y] = s.price[y]
  BY <1>2, <1>3, <1>8, <1>9
<1>14. Mapped(e, V)
  <2> HIDE DEF V
  <2>1. MapIs(t.table, t.hash, V, t.price)
    BY <1>4 DEF Mapped
  <2>2. MapIs(t.table, t.hash, V, e.price)
    BY <1>5, <1>13, <2>1, MapRepriced
  <2> QED BY <1>4, <1>5, <1>8, <1>9, <2>2 DEF Mapped
<1>15. Listed(e.price, e.sorted, e.position, V)
  <2> HIDE DEF V
  <2>1. Listed(t.price, e.sorted, e.position, V)
    BY <1>6, <1>8, <1>9
  <2>2. \A y \in V : e.price[y] = t.price[y]
    BY <1>5, <1>13
  <2> QED BY <2>1, <2>2, ListedRepriced
<1>16. Stacked(e.free, V)
  <2>1. Stacked(s.free, U) /\ x \in U
    BY DEF SparseShape
  <2> HIDE DEF U
  <2>2. Stacked(Append(s.free, x), U \ {x})
    BY <2>1, StackPushes
  <2> QED BY <1>8, <1>9, <2>2
<1>17. BestIs(e.side, e.sorted, e.best) /\ e.side \in Side
  BY <1>3, <1>8, <1>9
<1> HIDE DEF V
<1>18. SparseShape(e)
  BY <1>9, <1>10, <1>11, <1>12, <1>14, <1>15, <1>16, <1>17, ShapeFrom
<1>19. Reslots(e, s, x, NoPrice)
  BY <1>8, <1>9, <1>18 DEF Reslots
<1> QED
  BY <1>1, <1>19

-----------------------------------------------------------------------------
(* A sparse side and the queues by index it stands for.                    *)

(* A sparse side is sound: its structures agree, and its levels are the    *)
(* slots with orders.                                                      *)
SparseIs(s) ==
  /\ SparseShape(s)
  /\ \A x \in Slot : s.queue[x] # <<>> <=> x \in Used(s)

(* The slots hold the queues q, by index: each level has the queue of its  *)
(* price, and each queue that is not empty is a level's.                   *)
Holds(s, q) ==
  /\ q \in [Index -> Seq(RestingOrder)]
  /\ \A x \in Used(s) : q[IndexOf(s.price[x])] = s.queue[x]
  /\ \A i \in Full(q) : \E x \in Used(s) : s.price[x] = PriceAt(i)

(* e is s with queue z in slot x.                                          *)
LEMMA RequeuedShape ==
  ASSUME NEW s, SparseShape(s), NEW x \in Slot, NEW z \in Seq(RestingOrder)
  PROVE  /\ SparseShape([s EXCEPT !.queue[x] = z]) /\ Requeued([s EXCEPT !.queue[x] = z], s, x, z)
         /\ Used([s EXCEPT !.queue[x] = z]) = Used(s)
<1> DEFINE e == [s EXCEPT !.queue[x] = z]
<1>1. SparseTyped(s) /\ IsParts(s)
  BY ShapeIs
<1>2. Requeued(e, s, x, z)
  BY <1>1, RequeuedParts
<1> HIDE DEF e
<1>3. /\ IsParts(e) /\ e.side = s.side /\ e.hash = s.hash /\ e.price = s.price
      /\ e.queue = [s.queue EXCEPT ![x] = z] /\ e.position = s.position
      /\ e.free = s.free /\ e.sorted = s.sorted /\ e.best = s.best /\ e.table = s.table
      /\ e.size = s.size /\ e.tombs = s.tombs
  BY <1>2 DEF Requeued
<1>4. Used(e) = Used(s)
  BY <1>3 DEF Used
<1>5. e.side \in Side /\ e.price \in [Slot -> Price \cup {NoPrice}]
  BY <1>1, <1>3 DEF SparseTyped
<1>6. e.queue \in [Slot -> Seq(RestingOrder)]
  BY <1>1, <1>3 DEF SparseTyped
<1>7. Mapped(e, Used(s))
  BY <1>3 DEF SparseShape, Mapped
<1>8. /\ Listed(e.price, e.sorted, e.position, Used(s)) /\ Stacked(e.free, Used(s))
      /\ BestIs(e.side, e.sorted, e.best)
  BY <1>3 DEF SparseShape
<1> DEFINE U == Used(s)
<1> HIDE DEF U
<1>9. U = Used(e) /\ Mapped(e, U) /\ Listed(e.price, e.sorted, e.position, U) /\ Stacked(e.free, U)
  BY <1>4, <1>7, <1>8 DEF U
<1>10. SparseShape(e)
  BY <1>3, <1>5, <1>6, <1>8, <1>9, ShapeFrom
<1> QED
  BY <1>2, <1>4, <1>10 DEF e

(* A level is determined by the index of its price. *)
LEMMA SlotsByIndex ==
  ASSUME NEW s, SparseShape(s), NEW x \in Used(s)
  PROVE  /\ IndexOf(s.price[x]) \in Index /\ PriceAt(IndexOf(s.price[x])) = s.price[x]
         /\ s.price[x] \in Price
         /\ \A y \in Used(s) : IndexOf(s.price[y]) = IndexOf(s.price[x]) => y = x
<1>1. \A y \in Used(s) : s.price[y] \in Price /\ IndexOf(s.price[y]) \in Index
                         /\ PriceAt(IndexOf(s.price[y])) = s.price[y]
  BY ShapeIs, PriceIs
<1>2. Distinct(s.price, Used(s))
  BY ShapeIs
<1>3. \A y \in Used(s) : IndexOf(s.price[y]) = IndexOf(s.price[x]) => y = x
  <2> TAKE y \in Used(s)
  <2> HAVE IndexOf(s.price[y]) = IndexOf(s.price[x])
  <2>1. s.price[y] = s.price[x]
    BY <1>1
  <2> QED BY <1>2, <2>1 DEF Distinct
<1> QED
  BY <1>1, <1>3

(* A queue that changes but does not end changes alike in q. *)
LEMMA HoldsChanged ==
  ASSUME NEW s, SparseIs(s), NEW q, Holds(s, q), NEW x \in Used(s),
         NEW z \in Seq(RestingOrder), z # <<>>,
         NEW e, e = [s EXCEPT !.queue[x] = z]
  PROVE  /\ SparseIs(e) /\ Holds(e, [q EXCEPT ![IndexOf(s.price[x])] = z])
         /\ e.side = s.side /\ e.hash = s.hash
<1> DEFINE i == IndexOf(s.price[x])
           w == [q EXCEPT ![i] = z]
<1>1. x \in Slot /\ SparseShape(s) /\ s.queue \in [Slot -> Seq(RestingOrder)]
  BY ShapeIs DEF SparseIs, SparseTyped
<1>2. SparseShape(e) /\ Requeued(e, s, x, z) /\ Used(e) = Used(s)
  BY <1>1, RequeuedShape
<1>3. e.side = s.side /\ e.hash = s.hash /\ e.price = s.price /\ e.queue = [s.queue EXCEPT ![x] = z]
  BY <1>2 DEF Requeued
<1>4. SparseIs(e)
  BY <1>1, <1>2, <1>3 DEF SparseIs
<1>5. /\ i \in Index /\ PriceAt(i) = s.price[x]
      /\ \A y \in Used(s) : IndexOf(s.price[y]) = i => y = x
      /\ \A y \in Used(s) : y \in Slot
  BY <1>1, SlotsByIndex, ShapeIs
<1> HIDE DEF i
<1>6. /\ q \in [Index -> Seq(RestingOrder)]
      /\ \A y \in Used(s) : q[IndexOf(s.price[y])] = s.queue[y]
      /\ \A j \in Full(q) : \E y \in Used(s) : s.price[y] = PriceAt(j)
      /\ \A y \in Used(s) : IndexOf(s.price[y]) \in Index
  BY <1>1, SlotsByIndex DEF Holds
<1>7. w \in [Index -> Seq(RestingOrder)] /\ \A j \in Index : w[j] = IF j = i THEN z ELSE q[j]
  BY <1>5, <1>6
<1> HIDE DEF w
<1>8. \A y \in Used(e) : w[IndexOf(e.price[y])] = e.queue[y]
  <2> TAKE y \in Used(e)
  <2>1. y \in Used(s) /\ e.price[y] = s.price[y] /\ IndexOf(s.price[y]) \in Index /\ y \in Slot
    BY <1>2, <1>3, <1>5, <1>6
  <2>2. CASE y = x
    BY <1>1, <1>3, <1>7, <2>1, <2>2 DEF i
  <2>3. CASE y # x
    BY <1>1, <1>3, <1>5, <1>6, <1>7, <2>1, <2>3
  <2> QED BY <2>2, <2>3
<1>9. \A j \in Full(w) : \E y \in Used(e) : e.price[y] = PriceAt(j)
  <2> TAKE j \in Full(w)
  <2>1. CASE j = i
    BY <1>2, <1>3, <1>5, <2>1
  <2>2. CASE j # i
    <3>1. j \in Full(q)
      BY <1>7, <2>2 DEF Full
    <3> QED BY <1>2, <1>3, <1>6, <3>1
  <2> QED BY <2>1, <2>2
<1>10. Holds(e, w)
  BY <1>7, <1>8, <1>9 DEF Holds
<1> QED
  BY <1>3, <1>4, <1>10 DEF w, i

(* A level removed when its queue has ended leaves the rest as it was. *)
LEMMA HoldsRemoved ==
  ASSUME NEW s, SparseShape(s), NEW q, Holds(s, q), NEW x \in Used(s), s.queue[x] = <<>>,
         \A y \in Slot : s.queue[y] # <<>> <=> y \in Used(s) \ {x},
         NEW e, Reslots(e, s, x, NoPrice)
  PROVE  SparseIs(e) /\ Holds(e, q) /\ e.side = s.side /\ e.hash = s.hash
<1>1. /\ x \in Slot /\ s.queue \in [Slot -> Seq(RestingOrder)]
      /\ s.price \in [Slot -> Price \cup {NoPrice}]
      /\ \A y \in Used(s) : y \in Slot
  BY ShapeIs DEF SparseTyped
<1>2. /\ SparseShape(e) /\ e.side = s.side /\ e.hash = s.hash
      /\ e.price = [s.price EXCEPT ![x] = NoPrice] /\ e.queue = [s.queue EXCEPT ![x] = <<>>]
  BY DEF Reslots
<1>3. Used(e) = Used(s) \ {x}
  BY <1>1, <1>2 DEF Used
<1>4. SparseIs(e)
  BY <1>1, <1>2, <1>3 DEF SparseIs
<1>5. /\ q \in [Index -> Seq(RestingOrder)]
      /\ \A y \in Used(s) : q[IndexOf(s.price[y])] = s.queue[y]
      /\ \A j \in Full(q) : \E y \in Used(s) : s.price[y] = PriceAt(j)
  BY DEF Holds
<1>6. \A y \in Used(e) : y \in Used(s) /\ e.price[y] = s.price[y] /\ e.queue[y] = s.queue[y]
  BY <1>1, <1>2, <1>3
<1>7. \A j \in Full(q) : \E y \in Used(e) : e.price[y] = PriceAt(j)
  <2> TAKE j \in Full(q)
  <2>1. PICK y \in Used(s) : s.price[y] = PriceAt(j)
    BY <1>5
  <2>2. y # x
    <3>1. j \in Index /\ q[j] # <<>>
      BY DEF Full
    <3>2. IndexOf(s.price[y]) = j
      BY <2>1, <3>1, PriceOfIndex
    <3> QED BY <1>5, <3>1, <3>2
  <2> QED BY <1>3, <1>6, <2>1, <2>2
<1>8. Holds(e, q)
  BY <1>5, <1>6, <1>7 DEF Holds
<1> QED
  BY <1>2, <1>4, <1>8

(* s with queue z in slot x. *)
Requeue(s, x, z) == [s EXCEPT !.queue[x] = z]

(* A level created for an empty queue holds its first order. *)
LEMMA HoldsCreated ==
  ASSUME NEW s, SparseIs(s), NEW q, Holds(s, q), NEW x \in Slot \ Used(s), NEW p \in Price,
         \A y \in Used(s) : s.price[y] # p,
         NEW m, Reslots(m, s, x, p),
         NEW z \in Seq(RestingOrder), z # <<>>,
         NEW e, e = Requeue(m, x, z),
         NEW i, i = IndexOf(p), NEW w, w = Put(q, i, z)
  PROVE  SparseIs(e) /\ Holds(e, w) /\ e.side = s.side /\ e.hash = s.hash
<1>1. /\ SparseShape(s) /\ s.queue \in [Slot -> Seq(RestingOrder)]
      /\ s.price \in [Slot -> Price \cup {NoPrice}]
      /\ \A y \in Used(s) : y \in Slot /\ s.price[y] \in Price /\ IndexOf(s.price[y]) \in Index
                            /\ PriceAt(IndexOf(s.price[y])) = s.price[y]
      /\ \A y \in Slot : s.queue[y] # <<>> <=> y \in Used(s)
  <2>1. SparseShape(s) /\ \A y \in Slot : s.queue[y] # <<>> <=> y \in Used(s)
    BY DEF SparseIs
  <2> QED BY <2>1, ShapeIs, SlotsByIndex DEF SparseTyped
<1>2. /\ SparseShape(m) /\ m.side = s.side /\ m.hash = s.hash
      /\ m.price = [s.price EXCEPT ![x] = p] /\ m.queue = [s.queue EXCEPT ![x] = <<>>]
  BY DEF Reslots
<1>3. SparseShape(e) /\ Requeued(e, m, x, z) /\ Used(e) = Used(m)
  BY <1>2, RequeuedShape DEF Requeue
<1>4. /\ e.side = s.side /\ e.hash = s.hash /\ e.price = [s.price EXCEPT ![x] = p]
      /\ e.queue = [s.queue EXCEPT ![x] = z]
  <2>1. e.side = m.side /\ e.hash = m.hash /\ e.price = m.price /\ e.queue = [m.queue EXCEPT ![x] = z]
    BY <1>3 DEF Requeued
  <2> QED BY <1>1, <1>2, <2>1
<1>5. Used(e) = Used(s) \cup {x}
  <2>1. p # NoPrice
    BY PriceIs
  <2> QED BY <1>1, <1>4, <2>1 DEF Used
<1>6. SparseIs(e)
  <2>1. \A y \in Slot : e.queue[y] # <<>> <=> y \in Used(e)
    <3> TAKE y \in Slot
    <3>1. CASE y = x
      <4>1. x \in Used(e)
        BY <1>5
      <4>2. s.queue \in [Slot -> Seq(RestingOrder)] /\ x \in Slot
        BY <1>1
      <4>3. e.queue[x] = z
        BY <1>4, <4>2
      <4> QED BY <3>1, <4>1, <4>3
    <3>2. CASE y # x
      <4>1. e.queue[y] = s.queue[y]
        BY <1>1, <1>4, <3>2
      <4>2. y \in Used(e) <=> y \in Used(s)
        BY <1>5, <3>2
      <4> QED BY <1>1, <4>1, <4>2
    <3> QED BY <3>1, <3>2
  <2> QED BY <1>3, <2>1 DEF SparseIs
<1>7. i \in Index /\ PriceAt(i) = p
  BY PriceIs
<1>8. \A y \in Used(s) : IndexOf(s.price[y]) # i
  BY <1>1, <1>7
<1>9. /\ q \in [Index -> Seq(RestingOrder)]
      /\ \A y \in Used(s) : q[IndexOf(s.price[y])] = s.queue[y]
      /\ \A j \in Full(q) : \E y \in Used(s) : s.price[y] = PriceAt(j)
  BY DEF Holds
<1>10. w \in [Index -> Seq(RestingOrder)] /\ \A j \in Index : w[j] = IF j = i THEN z ELSE q[j]
  BY <1>7, <1>9 DEF Put
<1>11. /\ e.price[x] = p /\ e.queue[x] = z
       /\ \A y \in Used(s) : e.price[y] = s.price[y] /\ e.queue[y] = s.queue[y]
  BY <1>1, <1>4
<1>12. \A y \in Used(e) : w[IndexOf(e.price[y])] = e.queue[y]
  <2> TAKE y \in Used(e)
  <2>1. CASE y = x
    BY <1>7, <1>10, <1>11, <2>1
  <2>2. CASE y # x
    <3>1. y \in Used(s)
      BY <1>5, <2>2
    <3>2. e.price[y] = s.price[y] /\ e.queue[y] = s.queue[y]
      BY <1>11, <3>1
    <3>3. IndexOf(s.price[y]) \in Index /\ IndexOf(s.price[y]) # i
      BY <1>1, <1>8, <3>1
    <3>4. q[IndexOf(s.price[y])] = s.queue[y]
      BY <1>9, <3>1
    <3>5. w[IndexOf(s.price[y])] = q[IndexOf(s.price[y])]
      BY <1>10, <3>3
    <3> QED BY <3>2, <3>4, <3>5
  <2> QED BY <2>1, <2>2
<1>13. \A j \in Full(w) : \E y \in Used(e) : e.price[y] = PriceAt(j)
  <2> TAKE j \in Full(w)
  <2>1. CASE j = i
    BY <1>5, <1>7, <1>11, <2>1
  <2>2. CASE j # i
    <3>1. j \in Full(q)
      BY <1>10, <2>2 DEF Full
    <3> QED BY <1>5, <1>9, <1>11, <3>1
  <2> QED BY <2>1, <2>2
<1>14. Holds(e, w)
  BY <1>10, <1>12, <1>13 DEF Holds
<1> QED
  BY <1>4, <1>6, <1>14

-----------------------------------------------------------------------------
(* Both sides.                                                             *)

(* The invariant of the two sides: each is sound for its own structures,   *)
(* and the slots of the sparse side hold the queues of the dense one.      *)
Same(d, s) == DenseIs(d) /\ SparseIs(s) /\ s.side = d.side /\ Holds(s, d.queue)

(* Slot x is the one a search for price p finds.                           *)
At(s, p, x) ==
  /\ x \in Used(s) /\ s.price[x] = p
  /\ FindSlot(s, p) = x /\ FindCell(s, p) # NoCell
  /\ FindCell(s, p) \in Taken(s.table) /\ s.table[FindCell(s, p)].slot = x
  /\ s.table[FindCell(s, p)].price = p

(* The sparse side has no level at price p, and both searches say so. *)
Missing(s, p) ==
  /\ \A y \in Used(s) : s.price[y] # p
  /\ FindSlot(s, p) = NoSlot /\ FindCell(s, p) = NoCell

(* A search finds the level at a price, or nothing if there is none. *)
LEMMA ShapeFinds ==
  ASSUME NEW s, SparseShape(s), NEW p \in Price
  PROVE  /\ \A x \in Used(s) : s.price[x] = p => At(s, p, x)
         /\ (\A x \in Used(s) : s.price[x] # p) => Missing(s, p)
<1> DEFINE U == Used(s)
<1>1. s.hash \in [Price -> Nat] /\ U \in SUBSET Slot /\ Distinct(s.price, U)
      /\ MapIs(s.table, s.hash, U, s.price)
  BY ShapeIs DEF SparseShape, Mapped
<1> HIDE DEF U
<1>2. \A x \in U : s.price[x] = p =>
              /\ FindSlot(s, p) = x /\ FindCell(s, p) # NoCell
              /\ FindCell(s, p) \in Taken(s.table) /\ s.table[FindCell(s, p)].slot = x
              /\ s.table[FindCell(s, p)].price = p
  BY <1>1, FindSlotIs
<1>3. (\A x \in U : s.price[x] # p) => FindSlot(s, p) = NoSlot /\ FindCell(s, p) = NoCell
  BY <1>1, FindSlotIs
<1> QED
  BY <1>2, <1>3 DEF U, At, Missing

(* A search finds the level of a price that has orders, and no other.      *)
LEMMA Looks ==
  ASSUME NEW d, NEW s, Same(d, s), NEW p \in Price
  PROVE  /\ IndexOf(p) \in Index /\ PriceAt(IndexOf(p)) = p /\ InRange(p)
         /\ d.queue[IndexOf(p)] \in Seq(RestingOrder)
         /\ d.queue[IndexOf(p)] = <<>> => Missing(s, p)
         /\ d.queue[IndexOf(p)] # <<>> =>
              \E x \in Used(s) : At(s, p, x) /\ s.queue[x] = d.queue[IndexOf(p)]
<1> DEFINE i == IndexOf(p)
<1>1. i \in Index /\ PriceAt(i) = p /\ InRange(p)
  BY PriceIs
<1>2. /\ SparseShape(s) /\ \A y \in Slot : s.queue[y] # <<>> <=> y \in Used(s)
      /\ \A y \in Used(s) : y \in Slot
  <2>1. SparseShape(s) /\ \A y \in Slot : s.queue[y] # <<>> <=> y \in Used(s)
    BY DEF Same, SparseIs
  <2> QED BY <2>1, ShapeIs
<1>3. /\ d.queue \in [Index -> Seq(RestingOrder)]
      /\ \A x \in Used(s) : d.queue[IndexOf(s.price[x])] = s.queue[x]
      /\ \A j \in Full(d.queue) : \E x \in Used(s) : s.price[x] = PriceAt(j)
  BY DEF Same, Holds
<1>4. /\ \A x \in Used(s) : s.price[x] = p => At(s, p, x)
      /\ (\A x \in Used(s) : s.price[x] # p) => Missing(s, p)
  BY <1>2, ShapeFinds
<1>5. ASSUME d.queue[i] = <<>> PROVE Missing(s, p)
  <2>1. ASSUME NEW x \in Used(s), s.price[x] = p PROVE FALSE
    BY <1>2, <1>3, <1>5, <2>1
  <2> QED BY <1>4, <2>1
<1>6. ASSUME d.queue[i] # <<>>
      PROVE  \E x \in Used(s) : At(s, p, x) /\ s.queue[x] = d.queue[i]
  <2>1. i \in Full(d.queue)
    BY <1>1, <1>6 DEF Full
  <2>2. PICK x \in Used(s) : s.price[x] = p
    BY <1>1, <1>3, <2>1
  <2> QED BY <1>3, <1>4, <2>2
<1> QED
  BY <1>1, <1>3, <1>5, <1>6

(* The queue of a level is replaced by another on both sides.              *)
LEMMA BothChange ==
  ASSUME NEW d, NEW s, Same(d, s), NEW p \in Price, NEW x, At(s, p, x),
         NEW i, i = IndexOf(p), d.queue[i] # <<>>,
         NEW z \in Seq(RestingOrder), z # <<>>,
         NEW f, f = [d EXCEPT !.queue[i] = z], NEW e, e = [s EXCEPT !.queue[x] = z]
  PROVE  Same(f, e) /\ PutAt(f, d, i, z) /\ e.hash = s.hash
<1>1. i \in Index /\ PriceAt(i) = p
  BY Looks
<1>2. DenseIs(d) /\ SparseIs(s) /\ s.side = d.side /\ Holds(s, d.queue)
  BY DEF Same
<1>3. x \in Used(s) /\ IndexOf(s.price[x]) = i
  BY DEF At
<1>4. DenseIs(f) /\ PutAt(f, d, i, z)
  BY <1>1, <1>2, DenseChanges
<1> DEFINE q == d.queue
<1>5. Holds(s, q)
  BY <1>2
<1>6. f.queue = [q EXCEPT ![i] = z] /\ f.side = d.side
  BY <1>4 DEF PutAt
<1> HIDE DEF q
<1>7. SparseIs(e) /\ Holds(e, [q EXCEPT ![IndexOf(s.price[x])] = z])
      /\ e.side = s.side /\ e.hash = s.hash
  BY <1>2, <1>3, <1>5, HoldsChanged
<1> QED
  BY <1>2, <1>3, <1>4, <1>6, <1>7 DEF Same

(* A level's last order leaves on both sides.                              *)
LEMMA BothEmpty ==
  ASSUME NEW d, NEW s, Same(d, s), NEW p \in Price, NEW x, At(s, p, x),
         NEW i, i = IndexOf(p), d.queue[i] # <<>>,
         NEW cell, cell = FindCell(s, p),
         NEW f, f = ClearOccupied([d EXCEPT !.queue[i] = <<>>], i),
         NEW e, e = RemoveLevel([s EXCEPT !.queue[x] = <<>>], x, cell)
  PROVE  Same(f, e) /\ PutAt(f, d, i, <<>>) /\ e.hash = s.hash
<1>1. i \in Index /\ PriceAt(i) = p
  BY Looks
<1>2. DenseIs(d) /\ SparseIs(s) /\ s.side = d.side /\ Holds(s, d.queue)
  BY DEF Same
<1>3. x \in Used(s) /\ IndexOf(s.price[x]) = i /\ cell \in Taken(s.table) /\ s.table[cell].slot = x
  BY DEF At
<1>4. DenseIs(f) /\ PutAt(f, d, i, <<>>)
  BY <1>1, <1>2, DenseEmpties
<1>5. SparseShape(s) /\ x \in Slot /\ \A y \in Slot : s.queue[y] # <<>> <=> y \in Used(s)
  <2>1. SparseShape(s) /\ \A y \in Slot : s.queue[y] # <<>> <=> y \in Used(s)
    BY <1>2 DEF SparseIs
  <2> QED BY <1>3, <2>1, ShapeIs
<1> DEFINE t == [s EXCEPT !.queue[x] = <<>>]
<1>6. <<>> \in Seq(RestingOrder)
  OBVIOUS
<1>7. SparseShape(t) /\ Requeued(t, s, x, <<>>) /\ Used(t) = Used(s)
  BY <1>5, <1>6, RequeuedShape
<1>8. e = RemoveLevel(t, x, cell)
  OBVIOUS
<1> HIDE DEF t
<1>9. /\ t.side = s.side /\ t.hash = s.hash /\ t.price = s.price /\ t.table = s.table
      /\ t.queue = [s.queue EXCEPT ![x] = <<>>]
  BY <1>7 DEF Requeued
<1>10. x \in Used(t) /\ cell \in Taken(t.table) /\ t.table[cell].slot = x
  BY <1>3, <1>7, <1>9
<1>11. Reslots(e, t, x, NoPrice)
  BY <1>7, <1>8, <1>10, RemoveLevelIs
<1>12. s.queue \in [Slot -> Seq(RestingOrder)]
  BY <1>5, ShapeIs DEF SparseTyped
<1> DEFINE q == [d.queue EXCEPT ![i] = <<>>]
<1>13. t.queue[x] = <<>> /\ \A y \in Slot : y # x => t.queue[y] = s.queue[y]
  BY <1>5, <1>9, <1>12
<1>14. d.queue \in [Index -> Seq(RestingOrder)]
       /\ (\A y \in Used(s) : d.queue[IndexOf(s.price[y])] = s.queue[y])
       /\ \A j \in Full(d.queue) : \E y \in Used(s) : s.price[y] = PriceAt(j)
  BY <1>2 DEF Holds
<1>15. q \in [Index -> Seq(RestingOrder)] /\ \A j \in Index : q[j] = IF j = i THEN <<>> ELSE d.queue[j]
  BY <1>1, <1>6, <1>14
<1>16. f.queue = q /\ f.side = d.side
  BY <1>4 DEF PutAt
<1> HIDE DEF q
<1>17. Holds(t, q)
  <2>1. \A y \in Used(t) : q[IndexOf(t.price[y])] = t.queue[y]
    <3> TAKE y \in Used(t)
    <3>1. y \in Used(s) /\ y \in Slot /\ t.price[y] = s.price[y]
      BY <1>5, <1>7, <1>9, ShapeIs
    <3>2. CASE y = x
      BY <1>1, <1>3, <1>13, <1>15, <3>1, <3>2
    <3>3. CASE y # x
      <4>1. IndexOf(s.price[y]) \in Index /\ IndexOf(s.price[y]) # i
        BY <1>3, <1>5, <3>1, <3>3, SlotsByIndex
      <4> QED BY <1>13, <1>14, <1>15, <3>1, <3>3, <4>1
    <3> QED BY <3>2, <3>3
  <2>2. \A j \in Full(q) : \E y \in Used(t) : t.price[y] = PriceAt(j)
    <3> TAKE j \in Full(q)
    <3>1. j \in Full(d.queue)
      BY <1>15 DEF Full
    <3> QED BY <1>7, <1>9, <1>14, <3>1
  <2> QED BY <1>15, <2>1, <2>2 DEF Holds
<1>18. \A y \in Slot : t.queue[y] # <<>> <=> y \in Used(t) \ {x}
  BY <1>5, <1>7, <1>13
<1>19. SparseIs(e) /\ Holds(e, q) /\ e.side = t.side /\ e.hash = t.hash
  BY <1>7, <1>10, <1>11, <1>13, <1>17, <1>18, HoldsRemoved
<1> QED
  BY <1>2, <1>4, <1>9, <1>16, <1>19 DEF Same

(* What add_order does to the first order of an empty level. *)
Fill(d, i, z) == SetOccupied([d EXCEPT !.queue[i] = z], i)

(* A price gets its first order on both sides.                             *)
LEMMA BothFill ==
  ASSUME NEW d, NEW s, Same(d, s), NEW p \in Price, Missing(s, p), s.free # <<>>,
         NEW i, i = IndexOf(p), d.queue[i] = <<>>,
         NEW z \in Seq(RestingOrder), z # <<>>,
         NEW m, m = CreateLevel(s, p),
         NEW f, f = Fill(d, i, z), NEW e, e = Requeue(m, FindSlot(m, p), z)
  PROVE  Same(f, e) /\ PutAt(f, d, i, z) /\ e.hash = s.hash /\ m.queue[FindSlot(m, p)] = <<>>
<1>1. i \in Index /\ PriceAt(i) = p
  BY Looks
<1>2. DenseIs(d) /\ SparseIs(s) /\ s.side = d.side /\ Holds(s, d.queue)
  BY DEF Same
<1>3. \A y \in Used(s) : s.price[y] # p
  BY DEF Missing
<1>4. DenseIs(f) /\ PutAt(f, d, i, z)
  BY <1>1, <1>2, DenseFills DEF Fill
<1>5. SparseShape(s)
  BY <1>2 DEF SparseIs
<1> DEFINE x == Last(s.free)
<1>6. x \in Slot \ Used(s) /\ Reslots(m, s, x, p)
  BY <1>3, <1>5, CreateLevelIs
<1> HIDE DEF x
<1>7. /\ SparseShape(m) /\ m.price = [s.price EXCEPT ![x] = p] /\ m.queue = [s.queue EXCEPT ![x] = <<>>]
  BY <1>6 DEF Reslots
<1>8. s.price \in [Slot -> Price \cup {NoPrice}] /\ s.queue \in [Slot -> Seq(RestingOrder)]
  BY <1>5, ShapeIs DEF SparseTyped
<1>9. m.price[x] = p /\ x \in Used(m) /\ m.queue[x] = <<>>
  <2>1. p # NoPrice
    BY PriceIs
  <2>2. m.price[x] = p /\ m.queue[x] = <<>>
    BY <1>6, <1>7, <1>8
  <2> QED BY <1>6, <2>1, <2>2 DEF Used
<1>10. FindSlot(m, p) = x
  <2>1. At(m, p, x)
    BY <1>7, <1>9, ShapeFinds
  <2> QED BY <2>1 DEF At
<1>11. e = Requeue(m, x, z)
  BY <1>10
<1> DEFINE q == d.queue
<1>12. Holds(s, q)
  BY <1>2
<1> DEFINE w == [q EXCEPT ![i] = z]
<1>13. f.queue = w /\ f.side = d.side
  BY <1>4 DEF PutAt
<1> HIDE DEF q
<1>15. w = Put(q, i, z)
  BY DEF Put
<1> HIDE DEF w
<1>14. SparseIs(e) /\ Holds(e, w) /\ e.side = s.side /\ e.hash = s.hash
  <2>0. /\ SparseIs(s) /\ Holds(s, q) /\ x \in Slot /\ x \notin Used(s) /\ p \in Price
        /\ i = IndexOf(p) /\ z \in Seq(RestingOrder) /\ z # <<>> /\ Reslots(m, s, x, p)
    BY <1>2, <1>6, <1>12
  <2>1. SparseIs(e)
    BY <1>2, <1>3, <1>6, <1>11, <1>12, <1>15, HoldsCreated
  <2>2. Holds(e, w)
    BY <1>2, <1>3, <1>6, <1>11, <1>12, <1>15, HoldsCreated
  <2>3. e.side = s.side
    BY ONLY <2>0, <1>3, <1>11, <1>15, HoldsCreated
  <2>4. e.hash = s.hash
    BY ONLY <2>0, <1>3, <1>11, <1>15, HoldsCreated
  <2> QED BY <2>1, <2>2, <2>3, <2>4
<1> QED
  BY <1>2, <1>4, <1>9, <1>10, <1>13, <1>14 DEF Same

-----------------------------------------------------------------------------
(* The operations on both sides.                                           *)

(* Both sides turn into the same sides again, with queue z at price p, and *)
(* the hash function stays.                                                *)
Becomes(f, e, d, s, p, z) == Same(f, e) /\ PutAt(f, d, IndexOf(p), z) /\ e.hash = s.hash

(* NoSlot is no slot. *)
LEMMA NoSlotIs == ASSUME NEW x \in Slot PROVE x # NoSlot
<1> QED BY MapCapacityIs DEF Slot, NoSlot

(* What Same says, in its parts. *)
LEMMA SameIs ==
  ASSUME NEW d, NEW s, Same(d, s)
  PROVE  /\ SparseShape(s) /\ DenseIs(d) /\ d.side \in Side /\ s.side = d.side
         /\ d.queue \in [Index -> Seq(RestingOrder)]
         /\ Used(s) \in SUBSET Slot /\ \A y \in Slot : s.queue[y] # <<>> <=> y \in Used(s)
         /\ s.hash \in [Price -> Nat]
<1>1. SparseShape(s) /\ DenseIs(d) /\ s.side = d.side /\ d.queue \in [Index -> Seq(RestingOrder)]
      /\ \A y \in Slot : s.queue[y] # <<>> <=> y \in Used(s)
  BY DEF Same, SparseIs, Holds
<1>2. d.side \in Side
  BY <1>1, DenseShape DEF DenseIs
<1>3. Used(s) \in SUBSET Slot /\ s.hash \in [Price -> Nat]
  BY <1>1, ShapeIs DEF SparseTyped
<1> QED BY <1>1, <1>2, <1>3

(* A level can be created while a slot is free.                            *)
LEMMA RoomIs ==
  ASSUME NEW s, SparseShape(s), s.free # <<>>, NEW p, Missing(s, p)
  PROVE  Creatable(s, p)
<1> DEFINE U == Used(s)
<1>1. U \in SUBSET Slot /\ MapIs(s.table, s.hash, U, s.price)
      /\ s.size = Cardinality(Taken(s.table))
  BY ShapeIs DEF SparseShape, Mapped
<1> HIDE DEF U
<1>2. Cardinality(Taken(s.table)) < MapCapacity /\ Cardinality(Taken(s.table)) \in Nat
  BY <1>1, MapHasRoom
<1>3. s.size # MapCapacity
  BY <1>1, <1>2, MapCapacityIs
<1> QED BY <1>3 DEF Creatable, CanInsert, Missing

(* Both sides accept an order or refuse it for the same reason, as long as *)
(* the sparse side has a slot free.                                        *)
LEMMA StatusesAgree ==
  ASSUME NEW d, NEW s, Same(d, s), s.free # <<>>, NEW p \in Int, NEW o \in RestingOrder
  PROVE  /\ SparseAddStatus(s, p, o) = DenseAddStatus(d, p, o)
         /\ DenseAddStatus(d, p, o) = "Accepted" => p \in Price
<1>1. o.qty \in Nat /\ o.qty # 0
  BY GridAssumption DEF RestingOrder
<1>2. CASE ~InRange(p)
  <2>1. EntryStatus(p, o) = "InvalidPrice"
    BY <1>1, <1>2 DEF EntryStatus
  <2> QED BY <2>1 DEF SparseAddStatus, DenseAddStatus
<1>3. CASE InRange(p)
  <2>1. EntryStatus(p, o) = "Accepted" /\ p \in Price
    BY <1>1, <1>3, PriceIs DEF EntryStatus
  <2>2. SparseShape(s)
    BY SameIs
  <2>3. CASE d.queue[IndexOf(p)] = <<>>
    <3>1. Missing(s, p)
      BY <2>1, <2>3, Looks
    <3>2. Creatable(s, p) /\ FindSlot(s, p) = NoSlot
      BY <2>2, <3>1, RoomIs DEF Missing
    <3>3. SparseAddStatus(s, p, o) = IF Fits(<<>>, o.qty) THEN "Accepted" ELSE "PriceLevelQuantityOverflow"
      BY <2>1, <3>2 DEF SparseAddStatus
    <3>4. DenseAddStatus(d, p, o) = IF Fits(<<>>, o.qty) THEN "Accepted" ELSE "PriceLevelQuantityOverflow"
      BY <2>1, <2>3 DEF DenseAddStatus
    <3> QED BY <2>1, <3>3, <3>4
  <2>4. CASE d.queue[IndexOf(p)] # <<>>
    <3>1. PICK x \in Used(s) : At(s, p, x) /\ s.queue[x] = d.queue[IndexOf(p)]
      BY <2>1, <2>4, Looks
    <3>2. FindSlot(s, p) = x /\ x # NoSlot
      BY <3>1, NoSlotIs, SameIs DEF At
    <3> DEFINE q == d.queue[IndexOf(p)]
    <3>3. SparseAddStatus(s, p, o) = IF Fits(q, o.qty) THEN "Accepted" ELSE "PriceLevelQuantityOverflow"
      BY <2>1, <3>1, <3>2 DEF SparseAddStatus
    <3>4. DenseAddStatus(d, p, o) = IF Fits(q, o.qty) THEN "Accepted" ELSE "PriceLevelQuantityOverflow"
      BY <2>1 DEF DenseAddStatus
    <3> QED BY <2>1, <3>3, <3>4
  <2> QED BY <2>3, <2>4
<1> QED BY <1>2, <1>3

(* A queue with an order appended is one, and not empty. *)
LEMMA Appends ==
  ASSUME NEW q \in Seq(RestingOrder), NEW o \in RestingOrder
  PROVE  Append(q, o) \in Seq(RestingOrder) /\ Append(q, o) # <<>>
<1>1. Append(q, o) \in Seq(RestingOrder) /\ Len(Append(q, o)) = Len(q) + 1 /\ Len(q) \in Nat
  OBVIOUS
<1> QED BY <1>1

(* add_order: both sides append the order they accept, and change nothing  *)
(* otherwise.                                                              *)
LEMMA AddsAgree ==
  ASSUME NEW d, NEW s, Same(d, s), s.free # <<>>, NEW p \in Int, NEW o \in RestingOrder,
         NEW f, f = DenseAddOrder(d, p, o), NEW e, e = SparseAddOrder(s, p, o)
  PROVE  /\ DenseAddStatus(d, p, o) # "Accepted" => f = d /\ e = s
         /\ DenseAddStatus(d, p, o) = "Accepted" =>
              Becomes(f, e, d, s, p, Append(d.queue[IndexOf(p)], o))
<1>1. SparseAddStatus(s, p, o) = DenseAddStatus(d, p, o)
      /\ (DenseAddStatus(d, p, o) = "Accepted" => p \in Price)
  BY StatusesAgree
<1>2. CASE DenseAddStatus(d, p, o) # "Accepted"
  BY <1>1, <1>2 DEF DenseAddOrder, SparseAddOrder
<1>3. CASE DenseAddStatus(d, p, o) = "Accepted"
  <2> DEFINE i == IndexOf(p)
             q == d.queue[i]
             z == Append(q, o)
  <2>1. p \in Price
    BY <1>1, <1>3
  <2>2. i \in Index /\ q \in Seq(RestingOrder)
    BY <2>1, Looks
  <2>3. z \in Seq(RestingOrder) /\ z # <<>>
    BY <2>2, Appends
  <2>4. f = IF q = <<>> THEN SetOccupied([d EXCEPT !.queue[i] = z], i) ELSE [d EXCEPT !.queue[i] = z]
    BY <1>3 DEF DenseAddOrder
  <2>5. CASE q = <<>>
    <3> DEFINE m == CreateLevel(s, p)
               y == FindSlot(m, p)
    <3>1. Missing(s, p)
      BY <2>1, <2>5, Looks
    <3>2. e = [m EXCEPT !.queue[y] = Append(@, o)]
      BY <1>1, <1>3, <3>1 DEF SparseAddOrder, Missing
    <3>3. f = SetOccupied([d EXCEPT !.queue[i] = z], i)
      BY <2>4, <2>5
    <3> DEFINE e1 == [m EXCEPT !.queue[y] = z]
    <3>7. m = CreateLevel(s, p) /\ e1 = Requeue(m, FindSlot(m, p), z) /\ f = Fill(d, i, z)
      BY <3>3 DEF Requeue, Fill
    <3> HIDE DEF z, e1, m
    <3>8. d.queue[i] = <<>> /\ i = IndexOf(p)
      BY <2>5
    <3> HIDE DEF q, i
    <3>4. Same(f, e1)
      BY <2>1, <2>3, <3>1, <3>7, <3>8, BothFill
    <3>9. PutAt(f, d, i, z)
      BY <2>1, <2>3, <3>1, <3>7, <3>8, BothFill
    <3>10. e1.hash = s.hash /\ m.queue[FindSlot(m, p)] = <<>>
      BY <2>1, <2>3, <3>1, <3>7, <3>8, BothFill
    <3>5. z = Append(m.queue[y], o)
      BY <2>5, <3>10 DEF z, y
    <3>6. e = e1
      BY <3>2, <3>5 DEF e1
    <3> QED BY <1>3, <3>4, <3>6, <3>9, <3>10 DEF z, q, i, Becomes
  <2>6. CASE q # <<>>
    <3>1. PICK x \in Used(s) : At(s, p, x) /\ s.queue[x] = q
      BY <2>1, <2>6, Looks
    <3>2. FindSlot(s, p) = x /\ x # NoSlot
      BY <3>1, NoSlotIs, SameIs DEF At
    <3>3. e = [s EXCEPT !.queue[x] = Append(@, o)]
      BY <1>1, <1>3, <3>2 DEF SparseAddOrder
    <3>4. e = [s EXCEPT !.queue[x] = z]
      BY <3>1, <3>3
    <3>5. f = [d EXCEPT !.queue[i] = z]
      BY <2>4, <2>6
    <3> HIDE DEF z
    <3>6. Same(f, e) /\ PutAt(f, d, i, z) /\ e.hash = s.hash
      BY <2>1, <2>3, <2>6, <3>1, <3>4, <3>5, BothChange
    <3> QED BY <1>3, <3>6 DEF z, Becomes
  <2> QED BY <2>5, <2>6
<1> QED BY <1>2, <1>3

(* A queue with an order removed is one. *)
LEMMA Removes ==
  ASSUME NEW q \in Seq(RestingOrder), NEW n \in DOMAIN q
  PROVE  RemoveAt(q, n) \in Seq(RestingOrder) /\ q # <<>>
<1>1. RemoveAt(q, n) \in Seq(RestingOrder)
  BY RemoveAtProperties, Zenon
<1>2. q # <<>>
  OBVIOUS
<1> QED BY <1>1, <1>2

(* The order that leaves a level takes the level with it when it is alone. *)
DenseTo(d, i, z) == IF z = <<>> THEN ClearOccupied([d EXCEPT !.queue[i] = z], i)
                    ELSE [d EXCEPT !.queue[i] = z]
(* What the sparse side does when the queue of slot x becomes z: the level *)
(* goes with its last order.                                               *)
SparseTo(s, x, z, cell) ==
  IF z = <<>> THEN RemoveLevel([s EXCEPT !.queue[x] = z], x, cell)
  ELSE [s EXCEPT !.queue[x] = z]

(* Both sides do the same when a queue becomes shorter, even when the      *)
(* level ends.                                                             *)
LEMMA ShortenAgree ==
  ASSUME NEW d, NEW s, Same(d, s), NEW p \in Price, NEW i, i = IndexOf(p),
         NEW x, At(s, p, x), d.queue[i] # <<>>, NEW z \in Seq(RestingOrder),
         NEW f, f = DenseTo(d, i, z), NEW e, e = SparseTo(s, x, z, FindCell(s, p))
  PROVE  Becomes(f, e, d, s, p, z)
<1>1. CASE z = <<>>
  <2>1. f = ClearOccupied([d EXCEPT !.queue[i] = <<>>], i)
    BY <1>1 DEF DenseTo
  <2>2. e = RemoveLevel([s EXCEPT !.queue[x] = <<>>], x, FindCell(s, p))
    BY <1>1 DEF SparseTo
  <2>3. Same(f, e) /\ PutAt(f, d, i, <<>>) /\ e.hash = s.hash
    BY <2>1, <2>2, BothEmpty
  <2> QED BY <1>1, <2>3 DEF Becomes
<1>2. CASE z # <<>>
  <2>1. f = [d EXCEPT !.queue[i] = z]
    BY <1>2 DEF DenseTo
  <2>2. e = [s EXCEPT !.queue[x] = z]
    BY <1>2 DEF SparseTo
  <2>3. Same(f, e) /\ PutAt(f, d, i, z) /\ e.hash = s.hash
    BY <1>2, <2>1, <2>2, BothChange
  <2> QED BY <2>3 DEF Becomes
<1> QED BY <1>1, <1>2

(* remove_order of the dense side is such a change, *)
LEMMA DenseShorten ==
  ASSUME NEW d, DenseIs(d), NEW i \in Index, NEW n \in DOMAIN d.queue[i],
         NEW p \in Price, i = IndexOf(p)
  PROVE  DenseRemoveOrder(d, p, n) = DenseTo(d, i, RemoveAt(d.queue[i], n))
<1> DEFINE z == RemoveAt(d.queue[i], n)
           t == [d EXCEPT !.queue[i] = z]
<1>1. t = [d EXCEPT !.queue[i] = RemoveAt(@, n)]
  OBVIOUS
<1>2. d \in DenseType
  BY DEF DenseIs
<1> HIDE DEF z
<1>3. t = [side |-> d.side, queue |-> [d.queue EXCEPT ![i] = z], words |-> d.words,
           best |-> d.best]
  BY <1>2, DenseShaped
<1>4. t.queue[i] = z
  BY <1>2, <1>3, DenseShape
<1> HIDE DEF t
<1>5. DenseRemoveOrder(d, p, n) = IF t.queue[i] = <<>> THEN ClearOccupied(t, i) ELSE t
  BY <1>1 DEF DenseRemoveOrder
<1>6. DenseTo(d, i, z) = IF z = <<>> THEN ClearOccupied(t, i) ELSE t
  BY DEF DenseTo, t
<1> QED BY <1>4, <1>5, <1>6 DEF z

(* and so is that of the sparse side. *)
LEMMA SparseShorten ==
  ASSUME NEW s, SparseShape(s), NEW p, NEW x, At(s, p, x), NEW n
  PROVE  SparseRemoveOrder(s, p, n) = SparseTo(s, x, RemoveAt(s.queue[x], n), FindCell(s, p))
<1> DEFINE z == RemoveAt(s.queue[x], n)
           t == [s EXCEPT !.queue[x] = z]
           cell == FindCell(s, p)
<1>1. t = [s EXCEPT !.queue[x] = RemoveAt(@, n)]
  OBVIOUS
<1>2. cell # NoCell /\ s.table[cell].slot = x
  BY DEF At
<1>3. IsParts(s) /\ s.queue \in [Slot -> Seq(RestingOrder)] /\ x \in Slot
  BY ShapeIs DEF SparseTyped, At
<1> HIDE DEF z, cell
<1>4. t.queue = [s.queue EXCEPT ![x] = z]
  BY <1>3, RequeuedParts DEF Requeued
<1>5. t.queue[x] = z
  BY <1>3, <1>4
<1> HIDE DEF t
<1>6. SparseRemoveOrder(s, p, n) = IF t.queue[x] = <<>> THEN RemoveLevel(t, x, cell) ELSE t
  BY <1>1, <1>2 DEF SparseRemoveOrder, cell
<1>7. SparseTo(s, x, z, cell) = IF z = <<>> THEN RemoveLevel(t, x, cell) ELSE t
  BY DEF SparseTo, t
<1> QED BY <1>5, <1>6, <1>7 DEF z, cell

(* remove_order on both sides. *)
LEMMA RemovesAgree ==
  ASSUME NEW d, NEW s, Same(d, s), NEW p \in Price, NEW n \in DOMAIN d.queue[IndexOf(p)],
         NEW f, f = DenseRemoveOrder(d, p, n), NEW e, e = SparseRemoveOrder(s, p, n)
  PROVE  Becomes(f, e, d, s, p, RemoveAt(d.queue[IndexOf(p)], n))
<1> DEFINE i == IndexOf(p)
           q == d.queue[i]
           z == RemoveAt(q, n)
<1>1. i \in Index /\ q \in Seq(RestingOrder)
  BY Looks
<1>2. z \in Seq(RestingOrder) /\ q # <<>>
  BY <1>1, Removes
<1>3. PICK x \in Used(s) : At(s, p, x) /\ s.queue[x] = q
  BY <1>2, Looks
<1>4. SparseShape(s) /\ DenseIs(d)
  BY SameIs
<1>5. f = DenseTo(d, i, z)
  BY <1>1, <1>4, DenseShorten
<1>6. e = SparseTo(s, x, z, FindCell(s, p))
  BY <1>3, <1>4, SparseShorten
<1>7. i = IndexOf(p) /\ d.queue[i] # <<>>
  BY <1>2
<1> HIDE DEF z, q, i
<1>8. Becomes(f, e, d, s, p, z)
  BY <1>2, <1>3, <1>5, <1>6, <1>7, ShortenAgree
<1> QED BY <1>8 DEF z, q, i

(* An order is reduced on both sides.                                      *)
LEMMA Reduced ==
  ASSUME NEW q \in Seq(RestingOrder), NEW n \in DOMAIN q, NEW m \in 1..MaxQuantity
  PROVE  /\ [q EXCEPT ![n].qty = m] \in Seq(RestingOrder) /\ [q EXCEPT ![n].qty = m] # <<>>
         /\ Len([q EXCEPT ![n].qty = m]) = Len(q)
<1> DEFINE o == [q[n] EXCEPT !.qty = m]
<1>1. q[n] \in RestingOrder /\ n \in 1..Len(q)
  OBVIOUS
<1>2. o \in RestingOrder
  BY <1>1 DEF RestingOrder
<1>3. [q EXCEPT ![n].qty = m] = [q EXCEPT ![n] = o]
  OBVIOUS
<1> HIDE DEF o
<1>4. [q EXCEPT ![n] = o] \in Seq(RestingOrder) /\ Len([q EXCEPT ![n] = o]) = Len(q)
  BY <1>1, <1>2
<1>5. Len(q) # 0
  BY <1>1
<1> QED BY <1>3, <1>4, <1>5

(* reduce_order on both sides. *)
LEMMA ReducesAgree ==
  ASSUME NEW d, NEW s, Same(d, s), NEW p \in Price, NEW n \in DOMAIN d.queue[IndexOf(p)],
         NEW m \in 1..MaxQuantity,
         NEW f, f = DenseReduceOrder(d, p, n, m), NEW e, e = SparseReduceOrder(s, p, n, m)
  PROVE  Becomes(f, e, d, s, p, [d.queue[IndexOf(p)] EXCEPT ![n].qty = m])
<1> DEFINE i == IndexOf(p)
           q == d.queue[i]
           z == [q EXCEPT ![n].qty = m]
<1>1. i \in Index /\ q \in Seq(RestingOrder)
  BY Looks
<1>2. z \in Seq(RestingOrder) /\ z # <<>> /\ q # <<>>
  BY <1>1, Reduced, Removes
<1>3. PICK x \in Used(s) : At(s, p, x) /\ s.queue[x] = q
  BY <1>2, Looks
<1>4. f = [d EXCEPT !.queue[i] = z]
  BY DEF DenseReduceOrder
<1>5. FindSlot(s, p) = x
  BY <1>3 DEF At
<1>6. e = [s EXCEPT !.queue[x][n].qty = m]
  BY <1>5 DEF SparseReduceOrder
<1>7. e = [s EXCEPT !.queue[x] = z]
  BY <1>3, <1>6
<1>8. i = IndexOf(p) /\ d.queue[i] # <<>>
  BY <1>2
<1> HIDE DEF z, q, i
<1>9. f = DenseTo(d, i, z) /\ e = SparseTo(s, x, z, FindCell(s, p))
  BY <1>2, <1>4, <1>7 DEF DenseTo, SparseTo
<1>10. Becomes(f, e, d, s, p, z)
  BY <1>2, <1>3, <1>8, <1>9, ShortenAgree
<1> QED BY <1>10 DEF z, q, i

(* The sides are empty on both sides.                                      *)
LEMMA StartsAgree ==
  ASSUME NEW side \in Side, NEW hash \in [Price -> Nat]
  PROVE  Same(DenseCleared(side), SparseCleared(side, hash))
<1> DEFINE d == DenseCleared(side)
           s == SparseCleared(side, hash)
<1>1. DenseIs(d) /\ d.side = side /\ d.queue = [i \in Index |-> <<>>]
  BY DenseStarts
<1>2. IsParts(s)
  BY DEF SparseCleared, IsParts, Parts
<1>3. /\ s.side = side /\ s.hash = hash /\ s.price = [x \in Slot |-> NoPrice]
      /\ s.queue = [x \in Slot |-> <<>>] /\ s.position = [x \in Slot |-> NoSlot]
      /\ s.free = [n \in 1..MaxOrders |-> MaxOrders - n] /\ s.sorted = <<>>
      /\ s.best = NoSlot /\ s.table = [c \in Cell |-> EmptyEntry] /\ s.size = 0 /\ s.tombs = 0
  BY DEF SparseCleared
<1> HIDE DEF s, d
<1>4. Used(s) = {}
  BY <1>3 DEF Used
<1>5. s.price \in [Slot -> Price \cup {NoPrice}] /\ s.queue \in [Slot -> Seq(RestingOrder)]
  <2>1. <<>> \in Seq(RestingOrder)
    OBVIOUS
  <2> QED BY <1>3, <2>1
<1>6. Listed(s.price, s.sorted, s.position, {})
  <2>1. Rises(s.price, s.sorted)
    BY <1>3 DEF Rises
  <2>2. s.position \in [Slot -> 0..MaxOrders] /\ \A x \in Slot : s.position[x] = NoSlot
    BY <1>3, MapCapacityIs DEF NoSlot
  <2> QED BY <1>3, <2>1, <2>2 DEF Listed
<1>7. Stacked(s.free, {})
  <2>1. s.free \in Seq(Slot) /\ Len(s.free) = MaxOrders
    BY <1>3, MapCapacityIs DEF Slot
  <2>2. \A n \in 1..MaxOrders : s.free[n] = MaxOrders - n
    BY <1>3
  <2>3. \A x \in Slot : \E n \in 1..MaxOrders : s.free[n] = x
    <3> TAKE x \in Slot
    <3>1. MaxOrders - x \in 1..MaxOrders /\ MaxOrders - (MaxOrders - x) = x
      BY MapCapacityIs DEF Slot
    <3> QED BY <2>2, <3>1
  <2>4. \A m, n \in 1..MaxOrders : s.free[m] = s.free[n] => m = n
    BY <2>2, MapCapacityIs
  <2> QED BY <2>1, <2>3, <2>4 DEF Stacked
<1>8. Taken(s.table) = {} /\ Spent(s.table) = {}
  BY <1>3 DEF Taken, Spent, EmptyEntry
<1>9. Mapped(s, {})
  <2>1. s.table \in [Cell -> MapEntry]
    BY <1>3 DEF EmptyEntry, MapEntry
  <2>2. MapIs(s.table, s.hash, {}, s.price)
    BY <1>8, <2>1 DEF MapIs
  <2> QED BY <1>3, <1>8, <2>2, FS_EmptySet DEF Mapped
<1>10. BestIs(s.side, s.sorted, s.best)
  BY <1>3 DEF BestIs
<1>11. SparseShape(s)
  <2> DEFINE U == {}
  <2>1. U = Used(s) /\ Listed(s.price, s.sorted, s.position, U) /\ Stacked(s.free, U) /\ Mapped(s, U)
    BY <1>4, <1>6, <1>7, <1>9
  <2> HIDE DEF U
  <2> QED BY <1>2, <1>3, <1>5, <1>10, <2>1, ShapeFrom
<1>12. SparseIs(s)
  BY <1>3, <1>4, <1>11 DEF SparseIs
<1>13. Holds(s, d.queue)
  <2>1. d.queue \in [Index -> Seq(RestingOrder)] /\ Full(d.queue) = {}
    BY <1>1 DEF Full
  <2> QED BY <1>4, <2>1 DEF Holds
<1> QED
  BY <1>1, <1>3, <1>12, <1>13 DEF Same, d, s

-----------------------------------------------------------------------------
(* Matching on both sides.                                                 *)

(* The slots in use and the indices with orders are the same levels.       *)
LEMMA LevelsAgree ==
  ASSUME NEW d, NEW s, Same(d, s)
  PROVE  /\ \A x \in Used(s) : /\ IndexOf(s.price[x]) \in Full(d.queue)
                               /\ s.price[x] = PriceAt(IndexOf(s.price[x]))
                               /\ At(s, s.price[x], x) /\ s.price[x] \in Price
         /\ \A i \in Full(d.queue) : \E x \in Used(s) : s.price[x] = PriceAt(i)
<1>1. SparseShape(s) /\ \A y \in Slot : s.queue[y] # <<>> <=> y \in Used(s)
  BY SameIs
<1>2. /\ \A x \in Used(s) : d.queue[IndexOf(s.price[x])] = s.queue[x]
      /\ \A j \in Full(d.queue) : \E x \in Used(s) : s.price[x] = PriceAt(j)
  BY DEF Same, Holds
<1>3. ASSUME NEW x \in Used(s)
      PROVE  /\ IndexOf(s.price[x]) \in Full(d.queue)
             /\ s.price[x] = PriceAt(IndexOf(s.price[x]))
             /\ At(s, s.price[x], x) /\ s.price[x] \in Price
  <2>1. s.price[x] \in Price /\ IndexOf(s.price[x]) \in Index /\ x \in Slot
        /\ s.price[x] = PriceAt(IndexOf(s.price[x]))
    BY <1>1, SlotsByIndex, ShapeIs
  <2>2. IndexOf(s.price[x]) \in Full(d.queue)
    BY <1>1, <1>2, <2>1 DEF Full
  <2>3. At(s, s.price[x], x)
    BY <1>1, <2>1, ShapeFinds
  <2> QED BY <2>1, <2>2, <2>3
<1> QED BY <1>2, <1>3

(* Both have the same best level, or none.                                 *)
LEMMA BestsAgree ==
  ASSUME NEW d, NEW s, Same(d, s)
  PROVE  \/ d.best = NoIndex /\ s.best = NoSlot
         \/ /\ d.best \in Full(d.queue) /\ s.best \in Used(s) /\ s.best # NoSlot
            /\ d.best # NoIndex /\ s.price[s.best] = PriceAt(d.best)
<1> DEFINE I == Full(d.queue)
           L == Len(s.sorted)
<1>1. IsBest(d.side, I, d.best) /\ s.side = d.side /\ d.side \in Side /\ I \in SUBSET Index
  BY SameIs DEF DenseIs, Full
<1>2. /\ Listed(s.price, s.sorted, s.position, Used(s)) /\ BestIs(s.side, s.sorted, s.best)
      /\ Used(s) \in SUBSET Slot
  BY SameIs DEF SparseShape
<1>3. /\ s.sorted \in Seq(Slot) /\ L \in Nat
      /\ \A x \in Used(s) : \E n \in 1..L : s.sorted[n] = x
      /\ \A n \in 1..L : s.sorted[n] \in Used(s)
      /\ \A n \in 1..L : s.price[s.sorted[n]] \in Int
      /\ \A m, n \in 1..L : m < n => s.price[s.sorted[m]] < s.price[s.sorted[n]]
  BY <1>2 DEF Listed, Rises
<1>4. /\ \A x \in Used(s) : /\ IndexOf(s.price[x]) \in I
                            /\ s.price[x] = PriceAt(IndexOf(s.price[x]))
      /\ \A i \in I : \E x \in Used(s) : s.price[x] = PriceAt(i)
  BY LevelsAgree
<1>5. CASE L = 0
  <2>1. s.best = NoSlot
    BY <1>2, <1>5 DEF BestIs
  <2>2. Used(s) = {}
    BY <1>3, <1>5
  <2>3. I = {}
    BY <1>4, <2>2
  <2> QED BY <1>1, <2>1, <2>3 DEF IsBest
<1>6. CASE L # 0
  <2> DEFINE b == IF s.side = "Buy" THEN L ELSE 1
             x == s.sorted[b]
  <2>1. b \in 1..L /\ s.best = x
    BY <1>2, <1>3, <1>6 DEF BestIs, Last
  <2>2. x \in Used(s) /\ s.best # NoSlot
    BY <1>2, <1>3, <2>1, NoSlotIs
  <2>3. \A y \in Used(s) : IF s.side = "Buy" THEN s.price[y] <= s.price[x] ELSE s.price[x] <= s.price[y]
    <3> TAKE y \in Used(s)
    <3>1. PICK n \in 1..L : s.sorted[n] = y
      BY <1>3
    <3>2. s.price[x] \in Int /\ s.price[y] \in Int
      BY <1>3, <2>1, <3>1
    <3>3. CASE n = b
      BY <3>1, <3>2, <3>3
    <3>4. CASE n # b
      <4>1. n \in 1..L /\ b \in 1..L
        BY <2>1, <3>1
      <4> HIDE DEF x, b
      <4>2. n < b => s.price[s.sorted[n]] < s.price[s.sorted[b]]
        BY <1>3, <4>1
      <4>3. b < n => s.price[s.sorted[b]] < s.price[s.sorted[n]]
        BY <1>3, <4>1
      <4>4. (s.side = "Buy" => n < b) /\ (s.side # "Buy" => b < n)
        BY <1>3, <3>4, <4>1 DEF b
      <4>5. x = s.sorted[b]
        BY DEF x
      <4> QED BY <3>1, <3>2, <4>2, <4>3, <4>4, <4>5
    <3> QED BY <3>3, <3>4
  <2> HIDE DEF x, b
  <2> DEFINE j == IndexOf(s.price[x])
  <2>4. j \in I /\ s.price[x] = PriceAt(j) /\ j \in Index
    BY <1>1, <1>4, <2>2
  <2> HIDE DEF j
  <2>5. d.best \in I /\ \A i \in I : ~BetterIndex(d.side, i, d.best)
    BY <1>1, <2>4 DEF IsBest
  <2>6. PICK y \in Used(s) : s.price[y] = PriceAt(d.best)
    BY <1>4, <2>5
  <2>7. IF s.side = "Buy" THEN PriceAt(d.best) <= PriceAt(j) ELSE PriceAt(j) <= PriceAt(d.best)
    BY <2>3, <2>4, <2>6
  <2>8. d.best \in Index /\ d.best \in Int /\ j \in Int /\ PriceAt(d.best) \in Int /\ PriceAt(j) \in Int
    BY <1>1, <2>4, <2>5, PriceOfIndex DEF Index
  <2>9. (j < d.best <=> PriceAt(j) < PriceAt(d.best)) /\ (d.best < j <=> PriceAt(d.best) < PriceAt(j))
    BY <2>4, <2>8, PricesRise
  <2>10. ~BetterIndex(d.side, j, d.best)
    BY <2>4, <2>5
  <2>11. j = d.best
    BY <1>1, <2>7, <2>8, <2>9, <2>10 DEF BetterIndex, Side
  <2>12. d.best # NoIndex
    BY <2>8, GridIs DEF Index, NoIndex
  <2> QED BY <2>1, <2>2, <2>4, <2>5, <2>11, <2>12
<1> QED BY <1>5, <1>6

(* What the loop of match finds.                                           *)
LEMMA FrontsAgree ==
  ASSUME NEW d, NEW s, Same(d, s)
  PROVE  /\ DenseBest(d) = SparseBest(s)
         /\ DenseBest(d) # <<>> =>
              /\ d.best \in Index /\ d.queue[d.best] \in Seq(RestingOrder) /\ d.queue[d.best] # <<>>
              /\ At(s, PriceAt(d.best), s.best) /\ s.queue[s.best] = d.queue[d.best]
              /\ DenseBest(d) = <<[price |-> PriceAt(d.best), queue |-> d.queue[d.best]]>>
              /\ PriceAt(d.best) \in Price /\ IndexOf(PriceAt(d.best)) = d.best
<1>1. CASE d.best = NoIndex /\ s.best = NoSlot
  BY <1>1 DEF DenseBest, SparseBest
<1>2. CASE ~(d.best = NoIndex /\ s.best = NoSlot)
  <2>1. /\ d.best \in Full(d.queue) /\ s.best \in Used(s) /\ s.best # NoSlot
        /\ d.best # NoIndex /\ s.price[s.best] = PriceAt(d.best)
    BY <1>2, BestsAgree
  <2>2. d.best \in Index /\ d.queue[d.best] # <<>> /\ d.queue[d.best] \in Seq(RestingOrder)
    BY <2>1, SameIs DEF Full
  <2>3. IndexOf(PriceAt(d.best)) = d.best /\ PriceAt(d.best) \in Price
    BY <2>2, PriceOfIndex
  <2>4. s.queue[s.best] = d.queue[d.best]
    BY <2>1, <2>3 DEF Same, Holds
  <2>5. At(s, PriceAt(d.best), s.best)
    BY <2>1, LevelsAgree
  <2>6. DenseBest(d) = <<[price |-> PriceAt(d.best), queue |-> d.queue[d.best]]>>
        /\ SparseBest(s) = <<[price |-> PriceAt(d.best), queue |-> d.queue[d.best]]>>
    BY <2>1, <2>4 DEF DenseBest, SparseBest
  <2> QED BY <2>2, <2>3, <2>4, <2>5, <2>6
<1> QED BY <1>1, <1>2

(* Popping the front is removing the first. *)
LEMMA TailRemoves ==
  ASSUME NEW q \in Seq(RestingOrder), q # <<>>
  PROVE  RemoveAt(q, 1) = Tail(q) /\ 1 \in DOMAIN q /\ RemoveAt(q, 1) \in Seq(RestingOrder)
<1> DEFINE r == RemoveAt(q, 1)
           t == Tail(q)
<1>1. 1 \in DOMAIN q /\ Len(q) \in Nat /\ Len(q) # 0
  OBVIOUS
<1>2. r \in Seq(RestingOrder) /\ Len(r) = Len(q) - 1
      /\ \A j \in DOMAIN r : r[j] = IF j < 1 THEN q[j] ELSE q[j + 1]
  BY <1>1, RemoveAtProperties, Zenon
<1>3. t \in Seq(RestingOrder) /\ Len(t) = Len(q) - 1 /\ \A j \in 1..Len(t) : t[j] = q[j + 1]
  OBVIOUS
<1> HIDE DEF r, t
<1>4. \A j \in 1..Len(r) : r[j] = t[j]
  BY <1>2, <1>3
<1>5. r = t
  BY <1>2, <1>3, <1>4
<1> QED BY <1>1, <1>2, <1>5 DEF r, t

(* Taking the front order off the best level, on both sides. *)
LEMMA PopsAgree ==
  ASSUME NEW d, NEW s, Same(d, s), DenseBest(d) # <<>>,
         NEW f, f = DensePop(d), NEW e, e = SparsePop(s)
  PROVE  Becomes(f, e, d, s, PriceAt(d.best), RemoveAt(d.queue[d.best], 1))
<1> DEFINE p == PriceAt(d.best)
           q == d.queue[d.best]
           z == RemoveAt(q, 1)
           x == s.best
<1>1. /\ d.best \in Index /\ q \in Seq(RestingOrder) /\ q # <<>> /\ p \in Price /\ d.best = IndexOf(p)
      /\ At(s, p, x) /\ s.queue[x] = q
  BY FrontsAgree
<1>2. z = Tail(q) /\ 1 \in DOMAIN q /\ z \in Seq(RestingOrder)
  BY <1>1, TailRemoves
<1>3. DenseIs(d) /\ SparseShape(s)
  BY SameIs
<1>4. f = DenseTo(d, d.best, z)
  <2>1. f = DenseRemoveOrder(d, p, 1)
    BY DEF DensePop
  <2> QED BY <1>1, <1>2, <1>3, <2>1, DenseShorten
<1>5. e = SparseTo(s, x, z, FindCell(s, p))
  <2> DEFINE t == [s EXCEPT !.queue[x] = z]
  <2>1. t = [s EXCEPT !.queue[s.best] = Tail(@)]
    BY <1>1, <1>2
  <2>2. s.price[x] = p /\ x \in Slot /\ IsParts(s) /\ s.queue \in [Slot -> Seq(RestingOrder)]
    BY <1>1, <1>3, ShapeIs DEF At, SparseTyped
  <2> HIDE DEF z, p, x
  <2>3. t.queue = [s.queue EXCEPT ![x] = z]
    BY <2>2, RequeuedParts DEF Requeued
  <2>4. t.queue[x] = z
    BY <2>2, <2>3
  <2> HIDE DEF t
  <2>5. e = IF t.queue[x] # <<>> THEN t ELSE RemoveLevel(t, x, FindCell(s, s.price[x]))
    BY <2>1 DEF SparsePop, x
  <2>6. SparseTo(s, x, z, FindCell(s, p)) = IF z = <<>> THEN RemoveLevel(t, x, FindCell(s, p)) ELSE t
    BY DEF SparseTo, t
  <2> QED BY <2>2, <2>4, <2>5, <2>6
<1> DEFINE i == d.best
<1>6. d.queue[i] # <<>> /\ i = IndexOf(p)
  BY <1>1
<1> HIDE DEF p, q, z, x, i
<1>7. f = DenseTo(d, i, z)
  BY <1>4 DEF i
<1>8. Becomes(f, e, d, s, p, z)
  BY <1>1, <1>2, <1>5, <1>6, <1>7, ShortenAgree
<1> QED BY <1>8 DEF p, q, z

(* The front order is left with o.                                         *)
LEMMA RefrontsAgree ==
  ASSUME NEW d, NEW s, Same(d, s), DenseBest(d) # <<>>, NEW o \in RestingOrder,
         NEW f, f = DenseRefront(d, o), NEW e, e = SparseRefront(s, o)
  PROVE  Becomes(f, e, d, s, PriceAt(d.best), [d.queue[d.best] EXCEPT ![1] = o])
<1> DEFINE p == PriceAt(d.best)
           q == d.queue[d.best]
           z == [q EXCEPT ![1] = o]
           x == s.best
           i == d.best
<1>1. /\ i \in Index /\ q \in Seq(RestingOrder) /\ q # <<>> /\ p \in Price /\ i = IndexOf(p)
      /\ At(s, p, x) /\ s.queue[x] = q
  BY FrontsAgree
<1>2. z \in Seq(RestingOrder) /\ Len(z) = Len(q) /\ Len(q) # 0
  <2> HIDE DEF q
  <2> QED BY <1>1
<1>3. z # <<>>
  BY <1>2
<1>4. f = [d EXCEPT !.queue[i] = z]
  BY DEF DenseRefront
<1>5. e = [s EXCEPT !.queue[x] = z]
  BY <1>1 DEF SparseRefront
<1>6. d.queue[i] # <<>>
  BY <1>1
<1> HIDE DEF p, q, z, x, i
<1>7. f = DenseTo(d, i, z) /\ e = SparseTo(s, x, z, FindCell(s, p))
  BY <1>3, <1>4, <1>5 DEF DenseTo, SparseTo
<1>8. Becomes(f, e, d, s, p, z)
  BY <1>1, <1>2, <1>6, <1>7, ShortenAgree
<1> QED BY <1>8 DEF p, q, z, i

-----------------------------------------------------------------------------
(* How many orders and levels there are.                                   *)

(* The number of orders at each index. *)
Lens(q) == [i \in Index |-> Len(q[i])]
(* The number of orders of a side. *)
OrderCount(q) == SetSum(Lens(q), Index)
(* The queues of a side, by index. *)
Queues == [Index -> Seq(RestingOrder)]

(* Those numbers are natural, and there are finitely many. *)
LEMMA LensAre ==
  ASSUME NEW q \in Queues
  PROVE  /\ \A i \in Index : Lens(q)[i] \in Nat /\ Lens(q)[i] = Len(q[i])
         /\ Whole(Lens(q), Index) /\ IsFiniteSet(Index)
<1>1. \A i \in Index : Lens(q)[i] = Len(q[i]) /\ q[i] \in Seq(RestingOrder)
  BY DEF Lens, Queues
<1>2. \A i \in Index : Lens(q)[i] \in Nat
  BY <1>1
<1>3. IsFiniteSet(0..(LevelCount - 1))
  BY GridIs, FS_Interval
<1> QED BY <1>1, <1>2, <1>3 DEF Whole, Index

(* So is their sum. *)
LEMMA CountIs == ASSUME NEW q \in Queues PROVE OrderCount(q) \in Nat
<1> QED BY LensAre, SetSumMember DEF OrderCount

(* What it changes by when one queue does. *)
LEMMA CountChanges ==
  ASSUME NEW q \in Queues, NEW i \in Index, NEW z \in Seq(RestingOrder),
         NEW w, w = Put(q, i, z)
  PROVE  w \in Queues /\ OrderCount(w) = OrderCount(q) + Len(z) - Len(q[i])
<1>1. w \in Queues /\ w[i] = z /\ \A j \in Index : j # i => w[j] = q[j]
  BY DEF Put, Queues
<1> DEFINE g == Lens(q)
           h == Lens(w)
<1>2. /\ Whole(g, Index) /\ Whole(h, Index) /\ IsFiniteSet(Index)
      /\ \A j \in Index : g[j] = Len(q[j]) /\ h[j] = Len(w[j])
  BY <1>1, LensAre
<1> HIDE DEF g, h
<1>3. \A j \in Index : j # i => h[j] = g[j]
  BY <1>1, <1>2
<1>4. SetSum(h, Index) = SetSum(g, Index) + h[i] - g[i]
  BY <1>2, <1>3, SetSumUpdate
<1>5. h[i] = Len(z) /\ g[i] = Len(q[i])
  BY <1>1, <1>2
<1> QED BY <1>1, <1>4, <1>5 DEF OrderCount, g, h

(* There are no more occupied levels than orders: so the sparse side's     *)
(* slots suffice.                                                          *)
LEMMA CountCovers ==
  ASSUME NEW q \in Queues
  PROVE  IsFiniteSet(Full(q)) /\ Cardinality(Full(q)) \in Nat /\ Cardinality(Full(q)) <= OrderCount(q)
<1> DEFINE g == Lens(q)
           I == Full(q)
<1>1. Whole(g, Index) /\ IsFiniteSet(Index) /\ \A j \in Index : g[j] \in Nat /\ g[j] = Len(q[j])
  BY LensAre
<1>2. I \in SUBSET Index /\ \A j \in Index : j \in I <=> q[j] # <<>>
  BY DEF Full
<1>3. \A j \in I : g[j] >= 1
  <2> TAKE j \in I
  <2>1. q[j] \in Seq(RestingOrder) /\ q[j] # <<>>
    BY <1>2 DEF Queues
  <2>2. Len(q[j]) \in Nat /\ Len(q[j]) # 0
    BY <2>1
  <2> QED BY <1>1, <1>2, <2>2
<1> HIDE DEF g, I
<1>4. PICK F : SetSums(F, Index, g) /\ SetSum(g, Index) = F[Index]
  BY <1>1, SetSumIsSum
<1>5. /\ F \in [SUBSET Index -> Int] /\ F[{}] = 0
      /\ \A T \in SUBSET Index : \A x \in T : F[T] = F[T \ {x}] + g[x]
  BY <1>4 DEF SetSums
<1> DEFINE P == {T \in SUBSET Index : Cardinality(T \cap I) <= F[T]}
<1>6. ASSUME NEW T \in SUBSET Index, \A x \in T : T \ {x} \in P PROVE T \in P
  <2>1. CASE T = {}
    <3>1. T \cap I = {}
      BY <2>1
    <3>2. Cardinality(T \cap I) = 0
      BY <3>1, FS_EmptySet
    <3> QED BY <1>5, <2>1, <3>2
  <2>2. CASE T # {}
    <3>1. PICK x \in T : TRUE
      BY <2>2
    <3> DEFINE V == T \ {x}
               A == V \cap I
    <3>2. V \in SUBSET Index /\ Cardinality(A) <= F[V]
      BY <1>6, <3>1
    <3>3. F[T] = F[V] + g[x] /\ F[V] \in Int /\ g[x] \in Nat /\ F[T] \in Int
      BY <1>1, <1>5, <3>1, <3>2
    <3>4. IsFiniteSet(A) /\ Cardinality(A) \in Nat
      BY <1>1, <1>2, <3>2, FS_Subset, FS_CardinalityType
    <3>5. CASE x \in I
      <4>1. T \cap I = A \cup {x} /\ x \notin A
        BY <3>1, <3>5
      <4>2. Cardinality(T \cap I) = Cardinality(A) + 1
        BY <3>4, <4>1, FS_AddElement
      <4>3. g[x] >= 1
        BY <1>3, <3>5
      <4> QED BY <3>2, <3>3, <3>4, <4>2, <4>3
    <3>6. CASE x \notin I
      <4>1. Cardinality(T \cap I) = Cardinality(A)
        <5>1. T \cap I = A
          BY <3>1, <3>6
        <5> QED BY <5>1
      <4>2. Cardinality(T \cap I) <= F[T]
        <5> HIDE DEF A, V
        <5> QED BY <3>2, <3>3, <3>4, <4>1
      <4> QED BY <4>2
    <3> QED BY <3>5, <3>6
  <2> QED BY <2>1, <2>2
<1>7. \A T \in SUBSET Index : T \in P
  <2> HIDE DEF P
  <2>1. P \in SUBSET SUBSET Index
    BY DEF P
  <2> QED BY <1>1, <1>6, <2>1, SubsetInduction
<1>8. Cardinality(Index \cap I) <= F[Index]
  BY <1>7
<1>9. Index \cap I = I /\ IsFiniteSet(I)
  BY <1>1, <1>2, FS_Subset
<1>10. Cardinality(I) \in Nat
  BY <1>9, FS_CardinalityType
<1> QED BY <1>4, <1>8, <1>9, <1>10 DEF OrderCount, g, I

(* Empty queues have no orders. *)
LEMMA CountStarts ==
  ASSUME NEW q \in Queues, \A i \in Index : q[i] = <<>>
  PROVE  OrderCount(q) = 0
<1> DEFINE g == Lens(q)
<1>1. Whole(g, Index) /\ IsFiniteSet(Index) /\ \A j \in Index : g[j] = 0
  BY LensAre
<1> HIDE DEF g
<1>4. PICK F : SetSums(F, Index, g) /\ SetSum(g, Index) = F[Index]
  BY <1>1, SetSumIsSum
<1>5. /\ F \in [SUBSET Index -> Int] /\ F[{}] = 0
      /\ \A T \in SUBSET Index : \A x \in T : F[T] = F[T \ {x}] + g[x]
  BY <1>4 DEF SetSums
<1> DEFINE P == {T \in SUBSET Index : F[T] = 0}
<1>6. ASSUME NEW T \in SUBSET Index, \A x \in T : T \ {x} \in P PROVE T \in P
  <2>1. CASE T = {}
    BY <1>5, <2>1
  <2>2. CASE T # {}
    <3>1. PICK x \in T : TRUE
      BY <2>2
    <3>2. T \ {x} \in SUBSET Index /\ F[T \ {x}] = 0 /\ g[x] = 0
      BY <1>1, <1>6, <3>1
    <3>3. F[T] = F[T \ {x}] + g[x]
      BY <1>5, <3>1
    <3> QED BY <3>2, <3>3
  <2> QED BY <2>1, <2>2
<1>7. \A T \in SUBSET Index : T \in P
  <2> HIDE DEF P
  <2>1. P \in SUBSET SUBSET Index
    BY DEF P
  <2> QED BY <1>1, <1>6, <2>1, SubsetInduction
<1> QED BY <1>4, <1>7 DEF OrderCount, g

(* The slots in use are no more than the orders, and all are listed.       *)
LEMMA SlotsCounted ==
  ASSUME NEW d, NEW s, Same(d, s)
  PROVE  /\ d.queue \in Queues
         /\ Len(s.sorted) = Cardinality(Used(s)) /\ Len(s.sorted) \in Nat
         /\ Cardinality(Used(s)) <= Cardinality(Full(d.queue))
<1> DEFINE U == Used(s)
           I == Full(d.queue)
           L == Len(s.sorted)
<1>1. SparseShape(s) /\ U \in SUBSET Slot /\ d.queue \in Queues
  BY SameIs DEF Queues
<1>2. /\ s.sorted \in Seq(Slot) /\ L \in Nat
      /\ \A x \in U : \E n \in 1..L : s.sorted[n] = x
      /\ \A n \in 1..L : s.sorted[n] \in U
      /\ \A m, n \in 1..L : s.sorted[m] = s.sorted[n] => m = n
  <2>1. Listed(s.price, s.sorted, s.position, U)
    BY <1>1 DEF SparseShape
  <2>2. Rises(s.price, s.sorted)
    BY <2>1 DEF Listed
  <2>3. \A m, n \in 1..L : s.sorted[m] = s.sorted[n] => m = n
    BY <2>2, RisingOnce
  <2> QED BY <2>1, <2>2, <2>3 DEF Listed, Rises
<1>3. /\ \A x \in U : IndexOf(s.price[x]) \in I
      /\ \A x, y \in U : IndexOf(s.price[x]) = IndexOf(s.price[y]) => x = y
  BY <1>1, LevelsAgree, SlotsByIndex
<1>4. IsFiniteSet(U) /\ IsFiniteSet(I)
  <2>1. IsFiniteSet(Slot)
    BY MapCapacityIs, FS_Interval DEF Slot
  <2>2. I \in SUBSET Index /\ IsFiniteSet(Index)
    BY <1>1, LensAre DEF Full
  <2> QED BY <1>1, <2>1, <2>2, FS_Subset
<1> HIDE DEF U, I, L
<1>5. L = Cardinality(U)
  <2> DEFINE f == [n \in 1..L |-> s.sorted[n]]
  <2>1. f \in Injection(1..L, U) /\ f \in Surjection(1..L, U)
    BY <1>2 DEF Injection, Surjection, IsInjective
  <2>2. IsFiniteSet(1..L) /\ Cardinality(1..L) = L
    BY <1>2, FS_Interval
  <2> HIDE DEF f
  <2>3. Cardinality(1..L) = Cardinality(U)
    BY <1>4, <2>1, FS_Injection
  <2> QED BY <2>2, <2>3
<1>6. Cardinality(U) <= Cardinality(I)
  <2> DEFINE f == [x \in U |-> IndexOf(s.price[x])]
  <2>1. f \in Injection(U, I)
    BY <1>3 DEF Injection, IsInjective
  <2> HIDE DEF f
  <2> QED BY <1>4, <2>1, FS_Injection
<1> QED BY <1>1, <1>2, <1>5, <1>6 DEF U, I, L

(* With fewer orders than slots a slot is free.                            *)
LEMMA RoomForOne ==
  ASSUME NEW d, NEW s, Same(d, s), OrderCount(d.queue) < MaxOrders
  PROVE  s.free # <<>> /\ Len(s.sorted) < MaxOrders
<1>1. /\ d.queue \in Queues
      /\ Len(s.sorted) = Cardinality(Used(s)) /\ Len(s.sorted) \in Nat
      /\ Cardinality(Used(s)) <= Cardinality(Full(d.queue))
  BY SlotsCounted
<1>2. Cardinality(Full(d.queue)) \in Nat /\ Cardinality(Full(d.queue)) <= OrderCount(d.queue)
      /\ OrderCount(d.queue) \in Nat
  BY <1>1, CountCovers, CountIs
<1>3. Len(s.sorted) < MaxOrders
  BY <1>1, <1>2, MapCapacityIs
<1>4. Cardinality(Slot) = MaxOrders
  BY MapCapacityIs, FS_Interval DEF Slot
<1>5. Used(s) # Slot /\ Used(s) \in SUBSET Slot
  BY <1>1, <1>3, <1>4, SameIs
<1>6. PICK x \in Slot : x \notin Used(s)
  BY <1>5
<1>7. Stacked(s.free, Used(s))
  BY SameIs DEF SparseShape
<1>8. \E n \in 1..Len(s.free) : s.free[n] = x
  BY <1>6, <1>7 DEF Stacked
<1>9. s.free # <<>>
  BY <1>8
<1> QED BY <1>3, <1>9

(* With a level of more orders than one there are fewer levels than slots. *)
LEMMA RoomBesideTwo ==
  ASSUME NEW d, NEW s, Same(d, s), OrderCount(d.queue) <= MaxOrders,
         NEW i \in Index, Len(d.queue[i]) # 1, d.queue[i] # <<>>
  PROVE  Len(s.sorted) < MaxOrders
<1>1. /\ d.queue \in Queues
      /\ Len(s.sorted) = Cardinality(Used(s)) /\ Len(s.sorted) \in Nat
      /\ Cardinality(Used(s)) <= Cardinality(Full(d.queue))
  BY SlotsCounted
<1> DEFINE q == d.queue
           z == <<q[i][1]>>
           w == Put(q, i, z)
<1>2. q[i] \in Seq(RestingOrder) /\ Len(q[i]) \in Nat /\ Len(q[i]) >= 2
  <2>1. q[i] \in Seq(RestingOrder)
    BY <1>1 DEF Queues
  <2>2. Len(q[i]) # 0 /\ Len(q[i]) \in Nat
    BY <2>1
  <2>3. Len(q[i]) # 1
    OBVIOUS
  <2> DEFINE k == Len(q[i])
  <2>4. k \in Nat /\ k # 0 /\ k # 1
    BY <2>2, <2>3
  <2> HIDE DEF k
  <2>5. k >= 2
    BY ONLY <2>4
  <2> QED BY <2>1, <2>2, <2>5 DEF k
<1>3. z \in Seq(RestingOrder) /\ Len(z) = 1 /\ z # <<>>
  <2>1. q[i][1] \in RestingOrder
    BY <1>2
  <2> QED BY <2>1
<1>4. q \in Queues
  BY <1>1
<1> HIDE DEF z
<1>5. Full(w) = Full(q)
  <2>1. \A j \in Index : w[j] # <<>> <=> q[j] # <<>>
    BY <1>2, <1>3, <1>4 DEF Put, Queues
  <2> QED BY <2>1 DEF Full
<1> HIDE DEF w, q
<1>6. w \in Queues /\ OrderCount(w) = OrderCount(q) + Len(z) - Len(q[i])
  BY <1>3, <1>4, CountChanges DEF w
<1>7. OrderCount(w) \in Nat /\ OrderCount(q) \in Nat
      /\ Cardinality(Full(w)) \in Nat /\ Cardinality(Full(w)) <= OrderCount(w)
  BY <1>4, <1>6, CountIs, CountCovers
<1>8. OrderCount(q) <= MaxOrders
  BY DEF q
<1>9. Len(s.sorted) <= Cardinality(Full(q))
  BY <1>1, CountCovers DEF q
<1> QED BY <1>1, <1>2, <1>3, <1>5, <1>6, <1>7, <1>8, <1>9, MapCapacityIs

-----------------------------------------------------------------------------
(* The loop of match.                                                      *)

(* The state of match's loop. *)
Run(store, left, trades, cancels, stopped) ==
  [store |-> store, left |-> left, trades |-> trades, cancels |-> cancels, stopped |-> stopped]
(* r is the record of its parts. *)
IsRun(r) == r = Run(r.store, r.left, r.trades, r.cancels, r.stopped)

(* A turn that only stops, perhaps, *)
Stops(r, b) == [r EXCEPT !.stopped = b]
(* one that cancels a resting order, *)
Drops(r, store, b) == [r EXCEPT !.store = store, !.cancels = @ + 1, !.stopped = b]
(* and one that trades x at price. *)
Trades(r, store, price, x) ==
  [r EXCEPT !.left = @ - x, !.trades = Append(@, <<price, x>>), !.store = store]

(* The parts of r are these. *)
RunParts(r, store, left, trades, cancels, stopped) ==
  /\ IsRun(r) /\ r.store = store /\ r.left = left /\ r.trades = trades
  /\ r.cancels = cancels /\ r.stopped = stopped

(* A run put together has the parts it was put together from. *)
LEMMA RunsAre ==
  ASSUME NEW a, NEW b, NEW c, NEW d, NEW e, NEW r, r = Run(a, b, c, d, e)
  PROVE  RunParts(r, a, b, c, d, e)
<1> QED BY DEF Run, IsRun, RunParts

(* The first kind of turn, field by field, *)
LEMMA RunStops ==
  ASSUME NEW d, NEW l, NEW t, NEW c, NEW p, NEW r,
         r = [store |-> d, left |-> l, trades |-> t, cancels |-> c, stopped |-> p],
         NEW b
  PROVE  Stops(r, b) = [store |-> d, left |-> l, trades |-> t, cancels |-> c, stopped |-> b]
<1> QED BY DEF Stops

(* the second *)
LEMMA RunDrops ==
  ASSUME NEW d, NEW l, NEW t, NEW c, NEW p, NEW r,
         r = [store |-> d, left |-> l, trades |-> t, cancels |-> c, stopped |-> p],
         NEW store, NEW b
  PROVE  Drops(r, store, b)
           = [store |-> store, left |-> l, trades |-> t, cancels |-> c + 1, stopped |-> b]
<1> DEFINE r1 == [r EXCEPT !.store = store]
           r2 == [r1 EXCEPT !.cancels = @ + 1]
<1>1. r1 = [store |-> store, left |-> l, trades |-> t, cancels |-> c, stopped |-> p]
  OBVIOUS
<1>2. Drops(r, store, b) = [r2 EXCEPT !.stopped = b]
  BY DEF Drops
<1> HIDE DEF r1
<1>3. r2 = [store |-> store, left |-> l, trades |-> t, cancels |-> c + 1, stopped |-> p]
  BY <1>1
<1> HIDE DEF r2
<1> QED BY <1>2, <1>3

(* and the third. *)
LEMMA RunTrades ==
  ASSUME NEW d, NEW l, NEW t, NEW c, NEW p, NEW r,
         r = [store |-> d, left |-> l, trades |-> t, cancels |-> c, stopped |-> p],
         NEW store, NEW price, NEW x
  PROVE  Trades(r, store, price, x)
           = [store |-> store, left |-> l - x, trades |-> Append(t, <<price, x>>),
              cancels |-> c, stopped |-> p]
<1> DEFINE r1 == [r EXCEPT !.left = @ - x]
           r2 == [r1 EXCEPT !.trades = Append(@, <<price, x>>)]
           k == Append(t, <<price, x>>)
<1>1. r1 = [store |-> d, left |-> l - x, trades |-> t, cancels |-> c, stopped |-> p]
  OBVIOUS
<1>2. Trades(r, store, price, x) = [r2 EXCEPT !.store = store]
  BY DEF Trades
<1> HIDE DEF r1
<1>3. r2 = [r1 EXCEPT !.trades = k]
  BY <1>1
<1>4. r2 = [store |-> d, left |-> l - x, trades |-> k, cancels |-> c, stopped |-> p]
  <2> HIDE DEF k, r2
  <2> QED BY <1>1, <1>3
<1> HIDE DEF r2
<1> QED BY <1>2, <1>4

(* The same for any run. *)
LEMMA RunsOn ==
  ASSUME NEW r, IsRun(r), NEW store, NEW b, NEW price, NEW x
  PROVE  /\ RunParts(Stops(r, TRUE), r.store, r.left, r.trades, r.cancels, TRUE)
         /\ RunParts(Drops(r, store, b), store, r.left, r.trades, r.cancels + 1, b)
         /\ RunParts(Trades(r, store, price, x), store, r.left - x,
                     Append(r.trades, <<price, x>>), r.cancels, r.stopped)
<1> DEFINE d == r.store
           l == r.left
           t == r.trades
           c == r.cancels
           p == r.stopped
<1>1. r = [store |-> d, left |-> l, trades |-> t, cancels |-> c, stopped |-> p]
  BY DEF IsRun, Run
<1> HIDE DEF d, l, t, c, p
<1> DEFINE yes == TRUE
<1> HIDE DEF yes
<1>2. Stops(r, yes) = Run(d, l, t, c, yes)
  BY <1>1, RunStops DEF Run
<1>3. Drops(r, store, b) = Run(store, l, t, c + 1, b)
  BY <1>1, RunDrops DEF Run
<1>4. Trades(r, store, price, x) = Run(store, l - x, Append(t, <<price, x>>), c, p)
  BY <1>1, RunTrades DEF Run
<1>5. RunParts(Stops(r, yes), d, l, t, c, yes)
  BY <1>2, RunsAre
<1>6. RunParts(Drops(r, store, b), store, l, t, c + 1, b)
  BY <1>3, RunsAre
<1>7. RunParts(Trades(r, store, price, x), store, l - x, Append(t, <<price, x>>), c, p)
  BY <1>4, RunsAre
<1> QED BY <1>5, <1>6, <1>7 DEF d, l, t, c, p, yes

(* Two runs that have come to the same, with at most n orders left.        *)
Alike(r, t, n) ==
  /\ IsRun(r) /\ IsRun(t) /\ Same(r.store, t.store)
  /\ r.left \in Nat /\ r.trades \in Seq(Price \X Nat) /\ r.cancels \in Nat /\ r.stopped \in BOOLEAN
  /\ t.left = r.left /\ t.trades = r.trades /\ t.cancels = r.cancels /\ t.stopped = r.stopped
  /\ OrderCount(r.store.queue) <= n

(* The front order after it is filled in part. *)
LeftOver(r, w) == [Head(Head(w).queue) EXCEPT !.qty = @ - Min2(r.left, Head(Head(w).queue).qty)]

(* A turn on a side whose best level is w, said once for both kinds of     *)
(* side: what they differ in is popped, the side without the front order,  *)
(* and left, the side with it filled in part.                              *)
Turned(r, a, w, popped, left) ==
  LET level == Head(w)
      o == Head(level.queue)
      x == Min2(r.left, o.qty)
  IN IF SelfTrade(a.policy, o.owner, a.owner)
     THEN IF a.policy = "CancelAggressor" THEN Stops(r, TRUE)
          ELSE Drops(r, popped, a.policy = "CancelBoth")
     ELSE Trades(r, IF x = o.qty THEN popped ELSE left, level.price, x)

(* Nothing is left to do: filled, stopped, no level, or the best one does  *)
(* not cross.                                                              *)
Halts(r, a, side, w) ==
  r.left = 0 \/ r.stopped \/ w = <<>> \/ ~Crosses(side, Head(w).price, a.limit)

(* The turns of both sides are such turns. *)
LEMMA TurnsAre ==
  ASSUME NEW r, NEW a
  PROVE  /\ DenseTurn(r, a) =
              IF Halts(r, a, r.store.side, DenseBest(r.store)) THEN r
              ELSE Turned(r, a, DenseBest(r.store), DensePop(r.store),
                          DenseRefront(r.store, LeftOver(r, DenseBest(r.store))))
         /\ SparseTurn(r, a) =
              IF Halts(r, a, r.store.side, SparseBest(r.store)) THEN r
              ELSE Turned(r, a, SparseBest(r.store), SparsePop(r.store),
                          SparseRefront(r.store, LeftOver(r, SparseBest(r.store))))
<1>1. DenseTurn(r, a) =
              IF Halts(r, a, r.store.side, DenseBest(r.store)) THEN r
              ELSE Turned(r, a, DenseBest(r.store), DensePop(r.store),
                          DenseRefront(r.store, LeftOver(r, DenseBest(r.store))))
  BY DEF DenseTurn, Turn, Turned, LeftOver, Halts, Stops, Drops, Trades
<1>2. SparseTurn(r, a) =
              IF Halts(r, a, r.store.side, SparseBest(r.store)) THEN r
              ELSE Turned(r, a, SparseBest(r.store), SparsePop(r.store),
                          SparseRefront(r.store, LeftOver(r, SparseBest(r.store))))
  BY DEF SparseTurn, Turn, Turned, LeftOver, Halts, Stops, Drops, Trades
<1> QED BY <1>1, <1>2

(* What a change of one queue does to the number of orders. *)
LEMMA BecomesCounts ==
  ASSUME NEW d, NEW s, Same(d, s), NEW p \in Price, NEW z \in Seq(RestingOrder),
         NEW f, NEW e, Becomes(f, e, d, s, p, z)
  PROVE  OrderCount(f.queue) = OrderCount(d.queue) + Len(z) - Len(d.queue[IndexOf(p)])
         /\ OrderCount(d.queue) \in Nat
<1> DEFINE i == IndexOf(p)
           q == d.queue
           w == f.queue
<1>1. i \in Index /\ q \in Queues
  BY Looks, SlotsCounted
<1>2. w = Put(q, i, z)
  BY DEF Becomes, PutAt, Put
<1> HIDE DEF i, q, w
<1>3. OrderCount(w) = OrderCount(q) + Len(z) - Len(q[i]) /\ OrderCount(q) \in Nat
  BY <1>1, <1>2, CountChanges, CountIs
<1> QED BY <1>3 DEF i, q, w

(* An order that leaves a side that has it.                                *)
LEMMA OneLess ==
  ASSUME NEW d, NEW s, Same(d, s), NEW p \in Price, NEW n \in DOMAIN d.queue[IndexOf(p)],
         NEW f, NEW e, Becomes(f, e, d, s, p, RemoveAt(d.queue[IndexOf(p)], n))
  PROVE  OrderCount(f.queue) = OrderCount(d.queue) - 1
         /\ OrderCount(d.queue) \in Nat
<1> DEFINE q == d.queue[IndexOf(p)]
           z == RemoveAt(q, n)
<1>1. q \in Seq(RestingOrder)
  BY Looks
<1>2. z \in Seq(RestingOrder) /\ Len(z) = Len(q) - 1 /\ Len(q) \in Nat
  <2>1. n \in DOMAIN q
    OBVIOUS
  <2> HIDE DEF q
  <2>2. z \in Seq(RestingOrder) /\ Len(z) = Len(q) - 1
    BY <1>1, <2>1, RemoveAtProperties, Zenon
  <2> QED BY <1>1, <2>2
<1>3. Becomes(f, e, d, s, p, z)
  OBVIOUS
<1> HIDE DEF z
<1>4. OrderCount(f.queue) = OrderCount(d.queue) + Len(z) - Len(d.queue[IndexOf(p)])
      /\ OrderCount(d.queue) \in Nat
  BY <1>2, <1>3, BecomesCounts
<1> HIDE DEF q
<1>5. OrderCount(f.queue) = OrderCount(d.queue) + Len(z) - Len(q)
  BY <1>4 DEF q
<1> DEFINE k == Len(q)
           j == Len(z)
           u == OrderCount(f.queue)
           v == OrderCount(d.queue)
<1>6. k \in Nat /\ j = k - 1 /\ u = v + j - k /\ v \in Nat
  BY <1>2, <1>4, <1>5
<1> HIDE DEF k, j, u, v
<1>7. u = v - 1
  BY <1>6
<1> QED BY <1>4, <1>7 DEF u, v

(* A turn of match does the same on both sides. *)
LEMMA TurnsAgree ==
  ASSUME NEW r, NEW t, NEW n \in Nat, Alike(r, t, n), NEW a \in Aggressor,
         NEW f, f = DenseTurn(r, a), NEW e, e = SparseTurn(t, a)
  PROVE  Alike(f, e, n)
<1> DEFINE d == r.store
           s == t.store
           w == DenseBest(d)
<1>1. /\ IsRun(r) /\ IsRun(t) /\ Same(d, s)
      /\ r.left \in Nat /\ r.trades \in Seq(Price \X Nat) /\ r.cancels \in Nat /\ r.stopped \in BOOLEAN
      /\ t.left = r.left /\ t.trades = r.trades /\ t.cancels = r.cancels /\ t.stopped = r.stopped
      /\ OrderCount(d.queue) <= n
  BY DEF Alike
<1>2. SparseBest(s) = w /\ s.side = d.side
  BY <1>1, FrontsAgree, SameIs
<1>3. Halts(t, a, s.side, SparseBest(s)) <=> Halts(r, a, d.side, w)
  BY <1>1, <1>2 DEF Halts
<1>4. CASE Halts(r, a, d.side, w)
  BY <1>3, <1>4, TurnsAre
<1>5. CASE ~Halts(r, a, d.side, w)
  <2> DEFINE p == PriceAt(d.best)
             q == d.queue[d.best]
             o == q[1]
             x == Min2(r.left, o.qty)
             o2 == [o EXCEPT !.qty = @ - x]
  <2>1. w # <<>> /\ r.left # 0
    BY <1>5 DEF Halts
  <2>2. /\ d.best \in Index /\ q \in Seq(RestingOrder) /\ q # <<>> /\ p \in Price /\ IndexOf(p) = d.best
        /\ w = <<[price |-> p, queue |-> q]>>
    BY <1>1, <2>1, FrontsAgree
  <2>3. Head(w).price = p /\ Head(w).queue = q /\ Head(q) = o
    BY <2>2
  <2>4. o \in RestingOrder /\ o.qty \in Nat /\ o.qty # 0 /\ o.qty <= MaxQuantity
    <3>1. o \in RestingOrder
      BY <2>2
    <3> QED BY <3>1, GridAssumption DEF RestingOrder
  <2>5. x \in Nat /\ x <= r.left /\ x <= o.qty /\ (x # o.qty => x = r.left)
    <3> HIDE DEF o
    <3> QED BY <1>1, <2>4 DEF Min2
  <2> DEFINE fp == DensePop(d)
             ep == SparsePop(s)
             fr == DenseRefront(d, o2)
             er == SparseRefront(s, o2)
             self == SelfTrade(a.policy, o.owner, a.owner)
             fs == IF x = o.qty THEN fp ELSE fr
             es == IF x = o.qty THEN ep ELSE er
  <2>6. f = IF self THEN IF a.policy = "CancelAggressor" THEN Stops(r, TRUE)
                         ELSE Drops(r, fp, a.policy = "CancelBoth")
            ELSE Trades(r, fs, p, x)
    <3>1. f = Turned(r, a, w, fp, DenseRefront(d, LeftOver(r, w)))
      BY <1>5, TurnsAre
    <3>2. LeftOver(r, w) = o2
      BY <2>3 DEF LeftOver
    <3> HIDE DEF o2, w
    <3> QED BY <2>3, <3>1, <3>2 DEF Turned
  <2>7. e = IF self THEN IF a.policy = "CancelAggressor" THEN Stops(t, TRUE)
                         ELSE Drops(t, ep, a.policy = "CancelBoth")
            ELSE Trades(t, es, p, x)
    <3>1. e = Turned(t, a, w, ep, SparseRefront(s, LeftOver(t, w)))
      BY <1>2, <1>3, <1>5, TurnsAre
    <3>2. LeftOver(t, w) = o2
      BY <1>1, <2>3 DEF LeftOver
    <3> HIDE DEF o2, w
    <3> QED BY <1>1, <2>3, <3>1, <3>2 DEF Turned
  <2>8. Same(fp, ep) /\ OrderCount(fp.queue) <= n
    <3>1. Becomes(fp, ep, d, s, p, RemoveAt(q, 1))
      BY <1>1, <2>1, PopsAgree
    <3>2. 1 \in DOMAIN q
      BY <2>2, TailRemoves
    <3> DEFINE i == IndexOf(p)
               q2 == d.queue[IndexOf(p)]
    <3>3. q2 = q
      BY <2>2
    <3>4. 1 \in DOMAIN q2 /\ Becomes(fp, ep, d, s, p, RemoveAt(q2, 1))
      BY <3>1, <3>2, <3>3
    <3> HIDE DEF fp, ep, q, p, d, s
    <3>5. OrderCount(fp.queue) = OrderCount(d.queue) - 1 /\ OrderCount(d.queue) \in Nat
      BY <1>1, <2>2, <3>4, OneLess
    <3> QED BY <1>1, <3>1, <3>5 DEF Becomes
  <2>9. x # o.qty => Same(fr, er) /\ OrderCount(fr.queue) <= n
    <3> HAVE x # o.qty
    <3>1. o2 \in RestingOrder
      <4>1. o.qty - x \in 1..MaxQuantity
        <5> HIDE DEF o, x
        <5> QED BY <2>4, <2>5, <2>1, GridAssumption
      <4> HIDE DEF x, o
      <4> QED BY <2>4, <4>1 DEF RestingOrder
    <3> DEFINE z == [q EXCEPT ![1] = o2]
    <3> HIDE DEF o2
    <3>2. Becomes(fr, er, d, s, p, z)
      BY <1>1, <2>1, <3>1, RefrontsAgree
    <3>3. z \in Seq(RestingOrder) /\ Len(z) = Len(q)
      <4> HIDE DEF q
      <4> QED BY <2>2, <3>1
    <3> HIDE DEF z
    <3>4. OrderCount(fr.queue) = OrderCount(d.queue) + Len(z) - Len(d.queue[IndexOf(p)])
          /\ OrderCount(d.queue) \in Nat
      <4> HIDE DEF fr, er, q, p, d, s
      <4> QED BY <1>1, <2>2, <3>2, <3>3, BecomesCounts
    <3>5. Len(d.queue[IndexOf(p)]) = Len(q) /\ Len(q) \in Nat
      <4> HIDE DEF p
      <4> QED BY <2>2
    <3>6. OrderCount(fr.queue) = OrderCount(d.queue)
      <4> HIDE DEF fr, q, p, d
      <4> QED BY <3>3, <3>4, <3>5
    <3> QED BY <1>1, <3>2, <3>6 DEF Becomes
  <2>10. Same(fs, es) /\ OrderCount(fs.queue) <= n
    BY <2>8, <2>9
  <2>11. <<p, x>> \in Price \X Nat /\ r.left - x \in Nat
    <3> HIDE DEF x, p
    <3> QED BY <1>1, <2>2, <2>5
  <2>14. Append(r.trades, <<p, x>>) \in Seq(Price \X Nat)
    <3> HIDE DEF x, p
    <3> QED BY <1>1, <2>11
  <2> HIDE DEF fp, ep, fs, es, x, p, self, d, s
  <2>12. CASE self
    <3>1. CASE a.policy = "CancelAggressor"
      <4>1. RunParts(f, d, r.left, r.trades, r.cancels, TRUE)
        BY <1>1, <2>6, <2>12, <3>1, RunsOn DEF d
      <4>2. RunParts(e, s, r.left, r.trades, r.cancels, TRUE)
        BY <1>1, <2>7, <2>12, <3>1, RunsOn DEF s
      <4> QED BY <1>1, <4>1, <4>2 DEF RunParts, Alike
    <3>2. CASE a.policy # "CancelAggressor"
      <4> DEFINE b == a.policy = "CancelBoth"
      <4>1. RunParts(f, fp, r.left, r.trades, r.cancels + 1, b)
        BY <1>1, <2>6, <2>12, <3>2, RunsOn
      <4>2. RunParts(e, ep, r.left, r.trades, r.cancels + 1, b)
        <5>1. e = Drops(t, ep, b) /\ t.left = r.left /\ t.trades = r.trades /\ t.cancels = r.cancels
          BY <1>1, <2>7, <2>12, <3>2
        <5>2. RunParts(Drops(t, ep, b), ep, t.left, t.trades, t.cancels + 1, b)
          BY <1>1, RunsOn
        <5> QED BY <5>1, <5>2
      <4>3. b \in BOOLEAN /\ r.cancels + 1 \in Nat
        BY <1>1
      <4> QED BY <1>1, <2>8, <4>1, <4>2, <4>3 DEF RunParts, Alike
    <3> QED BY <3>1, <3>2
  <2>13. CASE ~self
    <3> DEFINE tr == Append(r.trades, <<p, x>>)
    <3>1. RunParts(f, fs, r.left - x, tr, r.cancels, r.stopped)
      BY <1>1, <2>6, <2>13, RunsOn
    <3>2. RunParts(e, es, r.left - x, tr, r.cancels, r.stopped)
      BY <1>1, <2>7, <2>13, RunsOn
    <3> HIDE DEF tr
    <3>3. tr \in Seq(Price \X Nat)
      BY <2>14 DEF tr
    <3> QED BY <1>1, <2>10, <2>11, <3>1, <3>2, <3>3 DEF RunParts, Alike
  <2> QED BY <2>12, <2>13
<1> QED BY <1>4, <1>5

(* What FoldLeft iterates in DenseMatched.                                 *)
DenseTurns(g, start, n, q, a) ==
  g = [T \in SUBSET (1..n) |->
         IF T = {} THEN start ELSE DenseTurn(g[T \ {Max(T)}], a)]

(* Every turn stays in V, *)
DenseTurnsIn(V, n, q, a) ==
  \A k \in 1..n, x \in V : DenseTurn(x, a) \in V
(* and F has the result of each. *)
DenseTurnsSteps(F, n, q, a) ==
  \A k \in 1..n : F[k] = DenseTurn(F[k - 1], a)

(* match's loop on a dense side, turn by turn.                             *)
LEMMA DenseTurnsRun ==
  ASSUME NEW n \in Nat, NEW q, NEW a, NEW V, NEW start \in V,
         DenseTurnsIn(V, n, q, a)
  PROVE  \E F : /\ F \in [0..n -> V] /\ F[0] = start
               /\ DenseTurnsSteps(F, n, q, a)
               /\ F[n] = (CHOOSE g : DenseTurns(g, start, n, q, a))[1..n]
<1> DEFINE step == [k \in 1..n |-> [x \in V |-> DenseTurn(x, a)]]
           iter == CHOOSE g : DenseTurns(g, start, n, q, a)
<1>1. IsStep(step, n, V)
  BY DEF IsStep, DenseTurnsIn
<1>2. \A k \in 1..n, x \in V : step[k][x] = DenseTurn(x, a)
  OBVIOUS
<1> HIDE DEF step
<1>4. PICK g \in [SUBSET (1..n) -> V] : FoldsUp(g, n, V, start, step)
  BY <1>1, FoldExists, Zenon
<1>5. DenseTurns(g, start, n, q, a)
  <2>1. ASSUME NEW T \in SUBSET (1..n)
        PROVE  g[T] = IF T = {} THEN start ELSE DenseTurn(g[T \ {Max(T)}], a)
    <3>1. CASE T # {}
      <4>1. Max(T) \in 1..n
        BY <3>1, MaxOfPart
      <4>2. T \ {Max(T)} \in SUBSET (1..n)
        OBVIOUS
      <4>3. g[T \ {Max(T)}] \in V
        BY <4>2
      <4>4. g[T] = step[Max(T)][g[T \ {Max(T)}]]
        BY <1>4, <3>1, <4>3, Zenon DEF FoldsUp
      <4>5. step[Max(T)][g[T \ {Max(T)}]] = DenseTurn(g[T \ {Max(T)}], a)
        BY <1>2, <4>1, <4>3, Zenon
      <4> QED BY <3>1, <4>4, <4>5
    <3>2. CASE T = {}
      BY <3>2, <1>4 DEF FoldsUp
    <3> QED BY <3>1, <3>2
  <2> QED BY <2>1 DEF DenseTurns
<1>6. DenseTurns(iter, start, n, q, a)
  BY <1>5, Zenon
<1>7. \A T \in SUBSET (1..n) :
        iter[T] = IF T = {} THEN start ELSE DenseTurn(iter[T \ {Max(T)}], a)
  <2> HIDE DEF iter
  <2> QED BY <1>6 DEF DenseTurns
<1> HIDE DEF iter
<1>8. FoldsUp(iter, n, V, start, step)
  <2>1. \A T \in SUBSET (1..n) : T # {} => Max(T) \in 1..n
    BY MaxOfPart
  <2>2. \A T \in SUBSET (1..n) :
          T # {} /\ iter[T \ {Max(T)}] \in V
            => iter[T] = step[Max(T)][iter[T \ {Max(T)}]]
    <3> TAKE T \in SUBSET (1..n)
    <3> HAVE T # {} /\ iter[T \ {Max(T)}] \in V
    <3>1. iter[T] = DenseTurn(iter[T \ {Max(T)}], a)
      BY <1>7
    <3>2. Max(T) \in 1..n
      BY <2>1
    <3>3. step[Max(T)][iter[T \ {Max(T)}]] = DenseTurn(iter[T \ {Max(T)}], a)
      BY <1>2, <3>2, Zenon
    <3> QED BY <3>1, <3>3
  <2>3. iter[{}] = start
    BY <1>7
  <2> QED BY <2>2, <2>3 DEF FoldsUp
<1>9. PICK F : Steps(F, n, V, start, step) /\ iter[1..n] = F[n]
  BY <1>1, <1>8, FoldPrefixes
<1>10. F \in [0..n -> V] /\ F[0] = start /\ \A k \in 1..n : F[k] = step[k][F[k - 1]]
  BY <1>9 DEF Steps
<1>11. \A k \in 1..n : F[k] = DenseTurn(F[k - 1], a)
  <2> TAKE k \in 1..n
  <2>1. k - 1 \in 0..n
    OBVIOUS
  <2>2. F[k - 1] \in V
    BY <1>10, <2>1
  <2>3. step[k][F[k - 1]] = DenseTurn(F[k - 1], a)
    BY <1>2, <2>2, Zenon
  <2> QED BY <2>3, <1>10
<1> QED
  BY <1>9, <1>10, <1>11 DEF iter, DenseTurnsSteps

(* What FoldLeft iterates in SparseMatched.                                *)
SparseTurns(g, start, n, q, a) ==
  g = [T \in SUBSET (1..n) |->
         IF T = {} THEN start ELSE SparseTurn(g[T \ {Max(T)}], a)]

(* Every turn stays in V, *)
SparseTurnsIn(V, n, q, a) ==
  \A k \in 1..n, x \in V : SparseTurn(x, a) \in V
(* and F has the result of each. *)
SparseTurnsSteps(F, n, q, a) ==
  \A k \in 1..n : F[k] = SparseTurn(F[k - 1], a)

(* match's loop on a sparse side, turn by turn.                            *)
LEMMA SparseTurnsRun ==
  ASSUME NEW n \in Nat, NEW q, NEW a, NEW V, NEW start \in V,
         SparseTurnsIn(V, n, q, a)
  PROVE  \E F : /\ F \in [0..n -> V] /\ F[0] = start
               /\ SparseTurnsSteps(F, n, q, a)
               /\ F[n] = (CHOOSE g : SparseTurns(g, start, n, q, a))[1..n]
<1> DEFINE step == [k \in 1..n |-> [x \in V |-> SparseTurn(x, a)]]
           iter == CHOOSE g : SparseTurns(g, start, n, q, a)
<1>1. IsStep(step, n, V)
  BY DEF IsStep, SparseTurnsIn
<1>2. \A k \in 1..n, x \in V : step[k][x] = SparseTurn(x, a)
  OBVIOUS
<1> HIDE DEF step
<1>4. PICK g \in [SUBSET (1..n) -> V] : FoldsUp(g, n, V, start, step)
  BY <1>1, FoldExists, Zenon
<1>5. SparseTurns(g, start, n, q, a)
  <2>1. ASSUME NEW T \in SUBSET (1..n)
        PROVE  g[T] = IF T = {} THEN start ELSE SparseTurn(g[T \ {Max(T)}], a)
    <3>1. CASE T # {}
      <4>1. Max(T) \in 1..n
        BY <3>1, MaxOfPart
      <4>2. T \ {Max(T)} \in SUBSET (1..n)
        OBVIOUS
      <4>3. g[T \ {Max(T)}] \in V
        BY <4>2
      <4>4. g[T] = step[Max(T)][g[T \ {Max(T)}]]
        BY <1>4, <3>1, <4>3, Zenon DEF FoldsUp
      <4>5. step[Max(T)][g[T \ {Max(T)}]] = SparseTurn(g[T \ {Max(T)}], a)
        BY <1>2, <4>1, <4>3, Zenon
      <4> QED BY <3>1, <4>4, <4>5
    <3>2. CASE T = {}
      BY <3>2, <1>4 DEF FoldsUp
    <3> QED BY <3>1, <3>2
  <2> QED BY <2>1 DEF SparseTurns
<1>6. SparseTurns(iter, start, n, q, a)
  BY <1>5, Zenon
<1>7. \A T \in SUBSET (1..n) :
        iter[T] = IF T = {} THEN start ELSE SparseTurn(iter[T \ {Max(T)}], a)
  <2> HIDE DEF iter
  <2> QED BY <1>6 DEF SparseTurns
<1> HIDE DEF iter
<1>8. FoldsUp(iter, n, V, start, step)
  <2>1. \A T \in SUBSET (1..n) : T # {} => Max(T) \in 1..n
    BY MaxOfPart
  <2>2. \A T \in SUBSET (1..n) :
          T # {} /\ iter[T \ {Max(T)}] \in V
            => iter[T] = step[Max(T)][iter[T \ {Max(T)}]]
    <3> TAKE T \in SUBSET (1..n)
    <3> HAVE T # {} /\ iter[T \ {Max(T)}] \in V
    <3>1. iter[T] = SparseTurn(iter[T \ {Max(T)}], a)
      BY <1>7
    <3>2. Max(T) \in 1..n
      BY <2>1
    <3>3. step[Max(T)][iter[T \ {Max(T)}]] = SparseTurn(iter[T \ {Max(T)}], a)
      BY <1>2, <3>2, Zenon
    <3> QED BY <3>1, <3>3
  <2>3. iter[{}] = start
    BY <1>7
  <2> QED BY <2>2, <2>3 DEF FoldsUp
<1>9. PICK F : Steps(F, n, V, start, step) /\ iter[1..n] = F[n]
  BY <1>1, <1>8, FoldPrefixes
<1>10. F \in [0..n -> V] /\ F[0] = start /\ \A k \in 1..n : F[k] = step[k][F[k - 1]]
  BY <1>9 DEF Steps
<1>11. \A k \in 1..n : F[k] = SparseTurn(F[k - 1], a)
  <2> TAKE k \in 1..n
  <2>1. k - 1 \in 0..n
    OBVIOUS
  <2>2. F[k - 1] \in V
    BY <1>10, <2>1
  <2>3. step[k][F[k - 1]] = SparseTurn(F[k - 1], a)
    BY <1>2, <2>2, Zenon
  <2> QED BY <2>3, <1>10
<1> QED
  BY <1>9, <1>10, <1>11 DEF iter, SparseTurnsSteps

(* The states of the loop over stores S. *)
Runs(S) == [store: S, left: Nat, trades: Seq(Price \X Nat), cancels: Nat, stopped: BOOLEAN]

(* Runs that are alike have their types. *)
LEMMA AlikeTyped ==
  ASSUME NEW r, NEW t, NEW n, Alike(r, t, n)
  PROVE  r \in Runs(DenseType) /\ t \in Runs(SparseType)
<1>1. /\ r = Run(r.store, r.left, r.trades, r.cancels, r.stopped)
      /\ t = Run(t.store, t.left, t.trades, t.cancels, t.stopped)
      /\ r.left \in Nat /\ r.trades \in Seq(Price \X Nat) /\ r.cancels \in Nat /\ r.stopped \in BOOLEAN
      /\ t.left \in Nat /\ t.trades \in Seq(Price \X Nat) /\ t.cancels \in Nat /\ t.stopped \in BOOLEAN
      /\ Same(r.store, t.store)
  BY DEF Alike, IsRun
<1>2. r.store \in DenseType /\ t.store \in SparseType
  <2> DEFINE d == r.store
             s == t.store
  <2> HIDE DEF d, s
  <2>1. Same(d, s)
    BY <1>1 DEF d, s
  <2>2. DenseIs(d) /\ SparseShape(s)
    BY <2>1, SameIs
  <2> QED BY <2>2 DEF DenseIs, SparseShape, d, s
<1>3. r \in Runs(DenseType)
  BY <1>1, <1>2 DEF Run, Runs
<1>4. t \in Runs(SparseType)
  BY <1>1, <1>2 DEF Run, Runs
<1> QED BY <1>3, <1>4

(* Before the first turn they are alike. *)
LEMMA UnmatchedAlike ==
  ASSUME NEW d, NEW s, Same(d, s), NEW a \in Aggressor
  PROVE  Alike(Unmatched(d, a), Unmatched(s, a), OrderCount(d.queue))
<1> DEFINE r == Unmatched(d, a)
           t == Unmatched(s, a)
           none == FALSE
<1>1. a.qty \in Nat
  BY DEF Aggressor
<1> DEFINE q == a.qty
<1>2. r = Run(d, q, <<>>, 0, none) /\ t = Run(s, q, <<>>, 0, none)
  BY DEF Unmatched, Run
<1>3. none \in BOOLEAN /\ q \in Nat
  BY <1>1
<1> HIDE DEF r, t, none, q
<1>4. RunParts(r, d, q, <<>>, 0, none) /\ RunParts(t, s, q, <<>>, 0, none)
  BY <1>2, RunsAre
<1>5. <<>> \in Seq(Price \X Nat) /\ 0 \in Nat
  OBVIOUS
<1>6. OrderCount(d.queue) <= OrderCount(d.queue)
  BY SlotsCounted, CountIs
<1> QED BY <1>3, <1>4, <1>5, <1>6 DEF RunParts, Alike, r, t

(* match, for any number of turns, does the same on both sides. *)
LEMMA MatchedAgree ==
  ASSUME NEW d, NEW s, Same(d, s), NEW a \in Aggressor, NEW turns \in Nat
  PROVE  Alike(DenseMatched(d, a, turns), SparseMatched(s, a, turns), OrderCount(d.queue))
<1> DEFINE n == OrderCount(d.queue)
           q == [k \in 1..turns |-> k]
           V == {r \in Runs(DenseType) : \E t \in Runs(SparseType) : Alike(r, t, n)}
           W == {t \in Runs(SparseType) : \E r \in Runs(DenseType) : Alike(r, t, n)}
           r0 == Unmatched(d, a)
           t0 == Unmatched(s, a)
<1>1. n \in Nat
  BY SlotsCounted, CountIs
<1>2. Alike(r0, t0, n)
  BY UnmatchedAlike
<1>3. Len(q) = turns /\ DOMAIN q = 1..turns
  OBVIOUS
<1>4. ASSUME NEW r, NEW t, Alike(r, t, n)
      PROVE  Alike(DenseTurn(r, a), SparseTurn(t, a), n)
  <2> HIDE DEF n
  <2> QED BY <1>1, <1>4, TurnsAgree
<1> HIDE DEF n, r0, t0, q
<1>5. r0 \in V /\ t0 \in W
  BY <1>2, AlikeTyped
<1>6. \A r \in V : DenseTurn(r, a) \in V
  <2> TAKE r \in V
  <2>1. PICK t \in Runs(SparseType) : Alike(r, t, n)
    OBVIOUS
  <2>2. Alike(DenseTurn(r, a), SparseTurn(t, a), n)
    BY <1>4, <2>1
  <2> QED BY <2>2, AlikeTyped
<1>7. \A t \in W : SparseTurn(t, a) \in W
  <2> TAKE t \in W
  <2>1. PICK r \in Runs(DenseType) : Alike(r, t, n)
    OBVIOUS
  <2>2. Alike(DenseTurn(r, a), SparseTurn(t, a), n)
    BY <1>4, <2>1
  <2> QED BY <2>2, AlikeTyped
<1> HIDE DEF V, W
<1>8. DenseTurnsIn(V, turns, q, a) /\ SparseTurnsIn(W, turns, q, a)
  BY <1>6, <1>7 DEF DenseTurnsIn, SparseTurnsIn
<1>9. PICK F : /\ F \in [0..turns -> V] /\ F[0] = r0
               /\ DenseTurnsSteps(F, turns, q, a)
               /\ F[turns] = (CHOOSE g : DenseTurns(g, r0, turns, q, a))[1..turns]
  BY <1>5, <1>8, DenseTurnsRun
<1>10. PICK G : /\ G \in [0..turns -> W] /\ G[0] = t0
               /\ SparseTurnsSteps(G, turns, q, a)
               /\ G[turns] = (CHOOSE g : SparseTurns(g, t0, turns, q, a))[1..turns]
  BY <1>5, <1>8, SparseTurnsRun
<1>11. DenseMatched(d, a, turns) = F[turns]
  <2>1. DenseMatched(d, a, turns) = FoldLeft(LAMBDA r, k : DenseTurn(r, a), r0, q)
    BY DEF DenseMatched, r0, q
  <2>2. FoldLeft(LAMBDA r, k : DenseTurn(r, a), r0, q) = (CHOOSE g : DenseTurns(g, r0, turns, q, a))[1..turns]
    BY <1>3 DEF FoldLeft, MapThenFoldSet, DenseTurns
  <2> QED BY <1>9, <2>1, <2>2
<1>12. SparseMatched(s, a, turns) = G[turns]
  <2>1. SparseMatched(s, a, turns) = FoldLeft(LAMBDA r, k : SparseTurn(r, a), t0, q)
    BY DEF SparseMatched, t0, q
  <2>2. FoldLeft(LAMBDA r, k : SparseTurn(r, a), t0, q) = (CHOOSE g : SparseTurns(g, t0, turns, q, a))[1..turns]
    BY <1>3 DEF FoldLeft, MapThenFoldSet, SparseTurns
  <2> QED BY <1>10, <2>1, <2>2
<1> DEFINE P == {k \in Nat : k <= turns => Alike(F[k], G[k], n)}
<1>13. 0 \in P
  BY <1>2, <1>9, <1>10
<1>14. ASSUME NEW k \in P PROVE k + 1 \in P
  <2>1. CASE k + 1 <= turns
    <3>1. k \in Nat /\ k + 1 \in 1..turns /\ (k + 1) - 1 = k /\ Alike(F[k], G[k], n)
      BY <2>1
    <3>2. F[k + 1] = DenseTurn(F[(k + 1) - 1], a)
      BY <1>9, <3>1 DEF DenseTurnsSteps
    <3>3. G[k + 1] = SparseTurn(G[(k + 1) - 1], a)
      BY <1>10, <3>1 DEF SparseTurnsSteps
    <3>4. F[k + 1] = DenseTurn(F[k], a) /\ G[k + 1] = SparseTurn(G[k], a)
      BY <3>1, <3>2, <3>3
    <3>5. Alike(F[k + 1], G[k + 1], n)
      BY <1>4, <3>1, <3>4
    <3> QED BY <3>1, <3>5
  <2>2. CASE ~(k + 1 <= turns)
    BY <2>2
  <2> QED BY <2>1, <2>2
<1>15. P = Nat
  <2>1. P \in SUBSET Nat
    OBVIOUS
  <2> HIDE DEF P
  <2> QED BY <1>13, <1>14, <2>1, Induction
<1>16. Alike(F[turns], G[turns], n)
  BY <1>15
<1> QED BY <1>11, <1>12, <1>16 DEF n

-----------------------------------------------------------------------------
(* The walks.                                                              *)

(* What comes after k steps along the list C of length n.                  *)
After(C, n, none, k) == IF k < n THEN C[k + 1] ELSE none

(* A list of levels, none of them none, no longer than the walk may be.    *)
Lists(C, n, none, bound) ==
  /\ n \in Nat /\ bound \in Nat /\ n <= bound
  /\ \A k \in 1..n : C[k] # none

(* g goes along C.                                                         *)
GoesAlong(g, C, n, none, bound) ==
  /\ g[0] = After(C, n, none, 0)
  /\ \A k \in 1..bound : g[k - 1] = none => g[k] = none
  /\ \A k \in 1..bound, j \in 1..n : g[k - 1] = C[j] => g[k] = After(C, n, none, j)

(* A walk that goes from each element to the next passes all n of them, in *)
(* order.                                                                  *)
LEMMA GoesThrough ==
  ASSUME NEW C, NEW n, NEW none, NEW bound, Lists(C, n, none, bound),
         NEW g, GoesAlong(g, C, n, none, bound)
  PROVE  /\ \A k \in 0..bound : g[k] = After(C, n, none, k)
         /\ Cardinality({i \in 0..bound : g[i] # none}) = n
<1>1. n \in Nat /\ bound \in Nat /\ n <= bound /\ \A k \in 1..n : C[k] # none
  BY DEF Lists
<1>2. /\ g[0] = After(C, n, none, 0)
      /\ \A k \in 1..bound : g[k - 1] = none => g[k] = none
      /\ \A k \in 1..bound, j \in 1..n : g[k - 1] = C[j] => g[k] = After(C, n, none, j)
  BY DEF GoesAlong
<1> DEFINE P == {k \in Nat : k <= bound => g[k] = After(C, n, none, k)}
<1>3. 0 \in P
  BY <1>2
<1>4. ASSUME NEW k \in P PROVE k + 1 \in P
  <2>1. CASE k + 1 <= bound
    <3>1. k \in Nat /\ k + 1 \in 1..bound /\ (k + 1) - 1 = k /\ g[k] = After(C, n, none, k)
      BY <1>1, <2>1
    <3>2. CASE k < n
      <4>1. g[k] = C[k + 1] /\ k + 1 \in 1..n
        BY <1>1, <3>1, <3>2 DEF After
      <4> DEFINE m == k + 1
      <4>2. m \in 1..bound /\ m \in 1..n /\ g[m - 1] = C[m]
        BY <3>1, <4>1
      <4> HIDE DEF m
      <4>3. g[m] = After(C, n, none, m)
        BY <1>2, <4>2
      <4> QED BY <3>1, <4>3 DEF m
    <3>3. CASE ~(k < n)
      <4>1. g[k] = none
        BY <3>1, <3>3 DEF After
      <4>2. g[k + 1] = none
        BY <1>2, <3>1, <4>1
      <4>3. ~(k + 1 < n)
        BY <1>1, <3>1, <3>3
      <4> QED BY <3>1, <4>2, <4>3 DEF After
    <3> QED BY <3>2, <3>3
  <2>2. CASE ~(k + 1 <= bound)
    BY <2>2
  <2> QED BY <2>1, <2>2
<1>5. P = Nat
  <2>1. P \in SUBSET Nat
    OBVIOUS
  <2> HIDE DEF P
  <2> QED BY <1>3, <1>4, <2>1, Induction
<1>6. \A k \in 0..bound : g[k] = After(C, n, none, k)
  <2> TAKE k \in 0..bound
  <2>1. k \in P /\ k <= bound
    BY <1>1, <1>5
  <2> QED BY <2>1
<1>7. \A k \in 0..bound : g[k] # none <=> k < n
  <2> TAKE k \in 0..bound
  <2>1. k < n => k + 1 \in 1..n
    BY <1>1
  <2> QED BY <1>1, <1>6, <2>1 DEF After
<1>8. {i \in 0..bound : g[i] # none} = 0..(n - 1)
  BY <1>1, <1>7
<1>9. Cardinality(0..(n - 1)) = n
  BY <1>1, FS_Interval
<1> QED BY <1>6, <1>8, <1>9

(* The function that goes along C.                                         *)
Along(C, n, none, bound) == [k \in 0..bound |-> After(C, n, none, k)]

(* One step of such a walk. *)
LEMMA AlongIs ==
  ASSUME NEW C, NEW n, NEW none, NEW bound, Lists(C, n, none, bound),
         NEW h, h = Along(C, n, none, bound), NEW k \in 1..bound
  PROVE  /\ h[k - 1] = none => h[k] = none
         /\ h[k - 1] # none => k \in 1..n /\ h[k - 1] = C[k] /\ h[k] = After(C, n, none, k)
<1>1. n \in Nat /\ bound \in Nat /\ n <= bound /\ \A j \in 1..n : C[j] # none
  BY DEF Lists
<1>2. h[k] = After(C, n, none, k) /\ h[k - 1] = After(C, n, none, k - 1)
  BY <1>1 DEF Along
<1>3. (k - 1) + 1 = k
  BY <1>1
<1>4. CASE k - 1 < n
  <2>1. h[k - 1] = C[k] /\ k \in 1..n
    BY <1>1, <1>2, <1>3, <1>4 DEF After
  <2> QED BY <1>1, <1>2, <2>1
<1>5. CASE ~(k - 1 < n)
  <2>1. h[k - 1] = none
    BY <1>2, <1>5 DEF After
  <2>2. ~(k < n)
    BY <1>1, <1>5
  <2> QED BY <1>2, <2>1, <2>2 DEF After
<1> QED BY <1>4, <1>5

(* The indices for_each_level of the dense side goes along. *)
DenseChains(g, d) ==
  g = [k \in 0..LevelCount |-> IF k = 0 THEN d.best
                               ELSE IF g[k - 1] = NoIndex THEN NoIndex
                               ELSE DenseFindNext(d, g[k - 1])]

(* If its first index and its next ones are those of list C, it reports    *)
(* the levels of C.                                                        *)
LEMMA DenseWalkIs ==
  ASSUME NEW d, NEW C, NEW n, Lists(C, n, NoIndex, LevelCount),
         d.best = After(C, n, NoIndex, 0),
         \A j \in 1..n : DenseFindNext(d, C[j]) = After(C, n, NoIndex, j)
  PROVE  DenseWalk(d) = [k \in 1..n |-> [price |-> PriceAt(C[k]), queue |-> d.queue[C[k]]]]
<1> DEFINE c == Chain(d.best, LAMBDA i : DenseFindNext(d, i), NoIndex, LevelCount)
           h == Along(C, n, NoIndex, LevelCount)
           g == CHOOSE g : DenseChains(g, d)
<1>1. n \in Nat /\ LevelCount \in Nat /\ n <= LevelCount
  BY DEF Lists
<1>2. DenseChains(h, d)
  <2>1. ASSUME NEW k \in 0..LevelCount
        PROVE  h[k] = IF k = 0 THEN d.best ELSE IF h[k - 1] = NoIndex THEN NoIndex
                      ELSE DenseFindNext(d, h[k - 1])
    <3>1. CASE k = 0
      BY <3>1 DEF Along
    <3>2. CASE k # 0
      <4>1. k \in 1..LevelCount
        BY <1>1, <3>2
      <4> HIDE DEF h
      <4>2. /\ h[k - 1] = NoIndex => h[k] = NoIndex
            /\ h[k - 1] # NoIndex =>
                 k \in 1..n /\ h[k - 1] = C[k] /\ h[k] = After(C, n, NoIndex, k)
        BY <4>1, AlongIs DEF h
      <4> QED BY <3>2, <4>2
    <3> QED BY <3>1, <3>2
  <2>2. h = [k \in 0..LevelCount |-> h[k]]
    BY DEF Along
  <2> HIDE DEF h
  <2> QED BY <2>1, <2>2 DEF DenseChains
<1>3. DenseChains(g, d)
  <2> HIDE DEF h
  <2> QED BY <1>2, Zenon
<1> HIDE DEF g
<1>4. \A k \in 0..LevelCount : g[k] = IF k = 0 THEN d.best
        ELSE IF g[k - 1] = NoIndex THEN NoIndex ELSE DenseFindNext(d, g[k - 1])
  BY <1>3 DEF DenseChains
<1>5. GoesAlong(g, C, n, NoIndex, LevelCount)
  <2>1. g[0] = After(C, n, NoIndex, 0)
    BY <1>1, <1>4
  <2>2. \A k \in 1..LevelCount : g[k] = IF g[k - 1] = NoIndex THEN NoIndex ELSE DenseFindNext(d, g[k - 1])
    BY <1>1, <1>4
  <2>3. \A j \in 1..n : C[j] # NoIndex
    BY DEF Lists
  <2> QED BY <2>1, <2>2, <2>3 DEF GoesAlong
<1>6. /\ \A k \in 0..LevelCount : g[k] = After(C, n, NoIndex, k)
      /\ Cardinality({i \in 0..LevelCount : g[i] # NoIndex}) = n
  BY <1>5, GoesThrough
<1>7. c = [k \in 1..Cardinality({i \in 0..LevelCount : g[i] # NoIndex}) |-> g[k - 1]]
  BY DEF Chain, g, DenseChains
<1>8. c = [k \in 1..n |-> g[k - 1]]
  BY <1>6, <1>7
<1>9. \A k \in 1..n : g[k - 1] = C[k]
  <2> TAKE k \in 1..n
  <2>1. k - 1 \in 0..LevelCount /\ k - 1 < n /\ (k - 1) + 1 = k
    BY <1>1
  <2> QED BY <1>6, <2>1 DEF After
<1>10. DOMAIN c = 1..n /\ \A k \in 1..n : c[k] = C[k]
  BY <1>8, <1>9
<1>11. DenseWalk(d) = [k \in DOMAIN c |-> [price |-> PriceAt(c[k]), queue |-> d.queue[c[k]]]]
  BY DEF DenseWalk
<1> HIDE DEF c
<1> QED BY <1>10, <1>11

(* The slots for_each_level of the sparse side goes along. *)
SparseChains(g, s) ==
  g = [k \in 0..MaxOrders |-> IF k = 0 THEN s.best
                               ELSE IF g[k - 1] = NoSlot THEN NoSlot
                               ELSE SparseFindNext(s, g[k - 1])]

(* And the same for those. *)
LEMMA SparseWalkIs ==
  ASSUME NEW s, NEW C, NEW n, Lists(C, n, NoSlot, MaxOrders),
         s.best = After(C, n, NoSlot, 0),
         \A j \in 1..n : SparseFindNext(s, C[j]) = After(C, n, NoSlot, j)
  PROVE  SparseWalk(s) = [k \in 1..n |-> [price |-> s.price[C[k]], queue |-> s.queue[C[k]]]]
<1> DEFINE c == Chain(s.best, LAMBDA x : SparseFindNext(s, x), NoSlot, MaxOrders)
           h == Along(C, n, NoSlot, MaxOrders)
           g == CHOOSE g : SparseChains(g, s)
<1>1. n \in Nat /\ MaxOrders \in Nat /\ n <= MaxOrders
  BY DEF Lists
<1>2. SparseChains(h, s)
  <2>1. ASSUME NEW k \in 0..MaxOrders
        PROVE  h[k] = IF k = 0 THEN s.best ELSE IF h[k - 1] = NoSlot THEN NoSlot
                      ELSE SparseFindNext(s, h[k - 1])
    <3>1. CASE k = 0
      BY <3>1 DEF Along
    <3>2. CASE k # 0
      <4>1. k \in 1..MaxOrders
        BY <1>1, <3>2
      <4> HIDE DEF h
      <4>2. /\ h[k - 1] = NoSlot => h[k] = NoSlot
            /\ h[k - 1] # NoSlot =>
                 k \in 1..n /\ h[k - 1] = C[k] /\ h[k] = After(C, n, NoSlot, k)
        BY <4>1, AlongIs DEF h
      <4> QED BY <3>2, <4>2
    <3> QED BY <3>1, <3>2
  <2>2. h = [k \in 0..MaxOrders |-> h[k]]
    BY DEF Along
  <2> HIDE DEF h
  <2> QED BY <2>1, <2>2 DEF SparseChains
<1>3. SparseChains(g, s)
  <2> HIDE DEF h
  <2> QED BY <1>2, Zenon
<1> HIDE DEF g
<1>4. \A k \in 0..MaxOrders : g[k] = IF k = 0 THEN s.best
        ELSE IF g[k - 1] = NoSlot THEN NoSlot ELSE SparseFindNext(s, g[k - 1])
  BY <1>3 DEF SparseChains
<1>5. GoesAlong(g, C, n, NoSlot, MaxOrders)
  <2>1. g[0] = After(C, n, NoSlot, 0)
    BY <1>1, <1>4
  <2>2. \A k \in 1..MaxOrders : g[k] = IF g[k - 1] = NoSlot THEN NoSlot ELSE SparseFindNext(s, g[k - 1])
    BY <1>1, <1>4
  <2>3. \A j \in 1..n : C[j] # NoSlot
    BY DEF Lists
  <2> QED BY <2>1, <2>2, <2>3 DEF GoesAlong
<1>6. /\ \A k \in 0..MaxOrders : g[k] = After(C, n, NoSlot, k)
      /\ Cardinality({i \in 0..MaxOrders : g[i] # NoSlot}) = n
  BY <1>5, GoesThrough
<1>7. c = [k \in 1..Cardinality({i \in 0..MaxOrders : g[i] # NoSlot}) |-> g[k - 1]]
  BY DEF Chain, g, SparseChains
<1>8. c = [k \in 1..n |-> g[k - 1]]
  BY <1>6, <1>7
<1>9. \A k \in 1..n : g[k - 1] = C[k]
  <2> TAKE k \in 1..n
  <2>1. k - 1 \in 0..MaxOrders /\ k - 1 < n /\ (k - 1) + 1 = k
    BY <1>1
  <2> QED BY <1>6, <2>1 DEF After
<1>10. DOMAIN c = 1..n /\ \A k \in 1..n : c[k] = C[k]
  BY <1>8, <1>9
<1>11. SparseWalk(s) = [k \in DOMAIN c |-> [price |-> s.price[c[k]], queue |-> s.queue[c[k]]]]
  BY DEF SparseWalk
<1> HIDE DEF c
<1> QED BY <1>10, <1>11

-----------------------------------------------------------------------------
(* The slots in the order of a walk.                                       *)

(* Where in the list the k-th level of a walk is: bids are read from its   *)
(* end.                                                                    *)
Place(s, k) == IF s.side = "Buy" THEN Len(s.sorted) - k + 1 ELSE k
(* The slots in the order a walk reads the list, best first. *)
Reading(s) == [k \in 1..Len(s.sorted) |-> s.sorted[Place(s, k)]]

(* R has every level once, each better than those behind it, and knows its *)
(* place in the list.                                                      *)
Reads(s, R, n) ==
  /\ n \in Nat
  /\ \A k \in 1..n : R[k] \in Used(s) /\ R[k] = s.sorted[Place(s, k)] /\ Place(s, k) \in 1..n
                     /\ s.position[R[k]] = Place(s, k) - 1 /\ s.price[R[k]] \in Int
  /\ \A x \in Used(s) : \E k \in 1..n : R[k] = x
  /\ \A k, m \in 1..n : k < m =>
       IF s.side = "Buy" THEN s.price[R[m]] < s.price[R[k]] ELSE s.price[R[k]] < s.price[R[m]]

(* Reading does. *)
LEMMA ReadingIs ==
  ASSUME NEW s, SparseShape(s)
  PROVE  Reads(s, Reading(s), Len(s.sorted))
<1> DEFINE n == Len(s.sorted)
           R == Reading(s)
<1>1. /\ s.sorted \in Seq(Slot) /\ n \in Nat
      /\ \A x \in Used(s) : \E m \in 1..n : s.sorted[m] = x
      /\ \A m \in 1..n : s.sorted[m] \in Used(s) /\ s.position[s.sorted[m]] = m - 1
      /\ \A m \in 1..n : s.price[s.sorted[m]] \in Int
      /\ \A k, m \in 1..n : k < m => s.price[s.sorted[k]] < s.price[s.sorted[m]]
  <2>1. Listed(s.price, s.sorted, s.position, Used(s))
    BY DEF SparseShape
  <2>2. Rises(s.price, s.sorted)
    BY <2>1 DEF Listed
  <2>3. /\ s.sorted \in Seq(Slot) /\ n \in Nat
        /\ \A m \in 1..n : s.price[s.sorted[m]] \in Int
        /\ \A k, m \in 1..n : k < m => s.price[s.sorted[k]] < s.price[s.sorted[m]]
    BY <2>2 DEF Rises
  <2>4. /\ \A x \in Used(s) : \E m \in 1..n : s.sorted[m] = x
        /\ \A m \in 1..n : s.sorted[m] \in Used(s) /\ s.position[s.sorted[m]] = m - 1
    BY <2>1 DEF Listed
  <2> QED BY <2>3, <2>4
<1> HIDE DEF n
<1> DEFINE z(k) == Place(s, k)
<1>2. \A k \in 1..n : z(k) \in 1..n /\ z(k) = IF s.side = "Buy" THEN n - k + 1 ELSE k
  BY <1>1 DEF Place, n
<1>3. \A k \in 1..n : R[k] = s.sorted[z(k)]
  BY DEF Reading, n
<1> HIDE DEF z, R
<1>4. \A k \in 1..n : R[k] \in Used(s) /\ s.position[R[k]] = z(k) - 1 /\ s.price[R[k]] \in Int
  BY <1>1, <1>2, <1>3
<1>5. \A x \in Used(s) : \E k \in 1..n : R[k] = x
  <2> TAKE x \in Used(s)
  <2>1. PICK m \in 1..n : s.sorted[m] = x
    BY <1>1
  <2> DEFINE k == IF s.side = "Buy" THEN n - m + 1 ELSE m
  <2>2. k \in 1..n /\ (IF s.side = "Buy" THEN n - k + 1 ELSE k) = m
    BY <1>1
  <2> HIDE DEF k
  <2>3. z(k) = m
    BY <1>2, <2>2
  <2>4. R[k] = x
    BY <1>3, <2>1, <2>2, <2>3
  <2> QED BY <2>2, <2>4
<1>6. ASSUME NEW k \in 1..n, NEW m \in 1..n, k < m
      PROVE IF s.side = "Buy" THEN s.price[R[m]] < s.price[R[k]] ELSE s.price[R[k]] < s.price[R[m]]
  <2>1. R[k] = s.sorted[z(k)] /\ R[m] = s.sorted[z(m)] /\ z(k) \in 1..n /\ z(m) \in 1..n
    BY <1>2, <1>3
  <2>2. IF s.side = "Buy" THEN z(m) < z(k) ELSE z(k) < z(m)
    <3>1. /\ z(k) = IF s.side = "Buy" THEN n - k + 1 ELSE k
          /\ z(m) = IF s.side = "Buy" THEN n - m + 1 ELSE m
      BY <1>2
    <3> QED BY <1>1, <1>6, <3>1
  <2>3. z(m) < z(k) => s.price[s.sorted[z(m)]] < s.price[s.sorted[z(k)]]
    BY <1>1, <2>1
  <2>4. z(k) < z(m) => s.price[s.sorted[z(k)]] < s.price[s.sorted[z(m)]]
    BY <1>1, <2>1
  <2> QED BY <2>1, <2>2, <2>3, <2>4
<1>7. \A k \in 1..n : R[k] \in Used(s) /\ R[k] = s.sorted[Place(s, k)] /\ Place(s, k) \in 1..n
                     /\ s.position[R[k]] = Place(s, k) - 1 /\ s.price[R[k]] \in Int
  BY <1>2, <1>3, <1>4 DEF z
<1>8. Reads(s, R, n)
  BY <1>1, <1>5, <1>6, <1>7 DEF Reads
<1> QED BY <1>8 DEF n, R

(* The next slot.                                                          *)
LEMMA SparseNextIs ==
  ASSUME NEW s, SparseShape(s), NEW n, n = Len(s.sorted), NEW R, R = Reading(s),
         NEW j \in 1..n
  PROVE  SparseFindNext(s, R[j]) = After(R, n, NoSlot, j)
<1>1. /\ n \in Nat
      /\ \A k \in 1..n : R[k] \in Used(s) /\ R[k] = s.sorted[Place(s, k)] /\ Place(s, k) \in 1..n
                            /\ s.position[R[k]] = Place(s, k) - 1 /\ s.price[R[k]] \in Int
  BY ReadingIs DEF Reads
<1>2. s.sorted \in Seq(Slot) /\ DOMAIN s.sorted = 1..n
  BY ShapeIs DEF SparseTyped
<1> DEFINE x == R[j]
           next == IF s.side = "Buy" THEN s.position[x] - 1 ELSE s.position[x] + 1
           m == next + 1
<1>3. x # NoSlot /\ s.price[x] # NoPrice
  <2>1. x \in Used(s) /\ x \in Slot
    BY <1>1, ShapeIs
  <2> QED BY <2>1, NoSlotIs DEF Used
<1>4. SparseFindNext(s, x) = IF m \notin 1..n THEN NoSlot ELSE s.sorted[m]
  BY <1>2, <1>3 DEF SparseFindNext
<1>5. m = IF s.side = "Buy" THEN Place(s, j) - 1 ELSE Place(s, j) + 1
  BY <1>1
<1>6. m = IF s.side = "Buy" THEN n - j ELSE j + 1
  BY <1>1, <1>5 DEF Place
<1> HIDE DEF m
<1>7. m \in 1..n <=> j < n
  BY <1>1, <1>6
<1>8. CASE j < n
  <2>1. j + 1 \in 1..n
    BY <1>1, <1>8
  <2>2. Place(s, j + 1) = m
    BY <1>1, <1>6 DEF Place
  <2>3. R[j + 1] = s.sorted[m]
    BY <1>1, <2>1, <2>2
  <2> QED BY <1>4, <1>7, <1>8, <2>3 DEF After
<1>9. CASE ~(j < n)
  BY <1>4, <1>7, <1>9 DEF After
<1> QED BY <1>8, <1>9

(* The best slot is the first of them. *)
LEMMA SparseFirstIs ==
  ASSUME NEW s, SparseShape(s), NEW n, n = Len(s.sorted), NEW R, R = Reading(s)
  PROVE  s.best = After(R, n, NoSlot, 0)
<1>1. n \in Nat /\ \A k \in 1..n : R[k] = s.sorted[Place(s, k)]
  BY ReadingIs DEF Reads
<1>2. BestIs(s.side, s.sorted, s.best)
  BY DEF SparseShape
<1>3. CASE n = 0
  BY <1>1, <1>2, <1>3 DEF BestIs, After
<1>4. CASE n # 0
  <2>1. 1 \in 1..n /\ 0 < n
    BY <1>1, <1>4
  <2>2. R[1] = s.sorted[Place(s, 1)]
    BY <1>1, <2>1
  <2>3. Place(s, 1) = IF s.side = "Buy" THEN n ELSE 1
    BY <1>1 DEF Place
  <2>4. s.best = IF s.side = "Buy" THEN s.sorted[n] ELSE s.sorted[1]
    BY <1>2, <1>4 DEF BestIs, Last
  <2> QED BY <2>1, <2>2, <2>3, <2>4 DEF After
<1> QED BY <1>3, <1>4

(* D lists the indices of I from the best to the worst.                    *)
Ordered(side, I, D, n) ==
  /\ n \in Nat /\ I \subseteq Index /\ side \in Side
  /\ \A k \in 1..n : D[k] \in I
  /\ \A i \in I : \E k \in 1..n : D[k] = i
  /\ \A k, m \in 1..n : k < m => BetterIndex(side, D[k], D[m])

(* Of two indices one is better. *)
LEMMA BetterIs ==
  ASSUME NEW side \in Side, NEW i \in Index, NEW j \in Index
  PROVE  /\ ~BetterIndex(side, i, i)
         /\ BetterIndex(side, i, j) => ~BetterIndex(side, j, i)
         /\ ~BetterIndex(side, i, j) /\ ~BetterIndex(side, j, i) => i = j
<1>1. i \in Int /\ j \in Int
  BY DEF Index
<1> QED BY <1>1 DEF BetterIndex, Side

(* The best index is the first of the indices in order, *)
LEMMA OrderedFirst ==
  ASSUME NEW side, NEW I, NEW D, NEW n, Ordered(side, I, D, n), NEW b, IsBest(side, I, b)
  PROVE  b = After(D, n, NoIndex, 0)
<1>1. /\ n \in Nat /\ I \subseteq Index /\ side \in Side
      /\ \A k \in 1..n : D[k] \in I
      /\ \A i \in I : \E k \in 1..n : D[k] = i
      /\ \A k, m \in 1..n : k < m => BetterIndex(side, D[k], D[m])
  BY DEF Ordered
<1>2. CASE n = 0
  <2>1. I = {}
    BY <1>1, <1>2
  <2> QED BY <1>2, <2>1 DEF IsBest, After
<1>3. CASE n # 0
  <2>1. 1 \in 1..n /\ 0 < n
    BY <1>1, <1>3
  <2>2. D[1] \in I
    BY <1>1, <2>1
  <2>3. b \in I /\ ~BetterIndex(side, D[1], b)
    BY <2>2 DEF IsBest
  <2>4. PICK k \in 1..n : D[k] = b
    BY <1>1, <2>3
  <2>5. CASE k = 1
    BY <2>1, <2>4, <2>5 DEF After
  <2>6. CASE k # 1
    <3>1. 1 < k
      BY <2>6
    <3>2. BetterIndex(side, D[1], D[k])
      BY <1>1, <2>1, <3>1
    <3> QED BY <2>3, <2>4, <3>2
  <2> QED BY <2>5, <2>6
<1> QED BY <1>2, <1>3

(* and the next one after an index is the best of those behind it. *)
LEMMA OrderedNext ==
  ASSUME NEW side, NEW I, NEW D, NEW n, Ordered(side, I, D, n), NEW j \in 1..n,
         NEW b, IsBest(side, Behind(side, I, D[j]), b)
  PROVE  b = After(D, n, NoIndex, j)
<1>1. /\ n \in Nat /\ I \subseteq Index /\ side \in Side
      /\ \A k \in 1..n : D[k] \in I
      /\ \A i \in I : \E k \in 1..n : D[k] = i
      /\ \A k, m \in 1..n : k < m => BetterIndex(side, D[k], D[m])
  BY DEF Ordered
<1> DEFINE J == Behind(side, I, D[j])
<1>2. J \subseteq I /\ \A i \in I : i \in J <=> BetterIndex(side, D[j], i)
  BY DEF Behind
<1> HIDE DEF J
<1>3. \A k \in 1..n : BetterIndex(side, D[j], D[k]) => j < k
  <2> TAKE k \in 1..n
  <2> HAVE BetterIndex(side, D[j], D[k])
  <2>1. D[j] \in Index /\ D[k] \in Index
    BY <1>1
  <2>2. ~BetterIndex(side, D[k], D[j]) /\ D[j] # D[k]
    BY <1>1, <2>1, BetterIs
  <2>3. ~(k < j) /\ k # j
    BY <1>1, <2>2
  <2> QED BY <2>3
<1>4. IsBest(side, J, b)
  BY DEF J
<1>5. CASE j < n
  <2> DEFINE m == j + 1
  <2>1. m \in 1..n /\ j < m
    BY <1>1, <1>5
  <2>2. D[m] \in J
    BY <1>1, <1>2, <2>1
  <2>3. b \in J /\ ~BetterIndex(side, D[m], b)
    BY <1>4, <2>2 DEF IsBest
  <2>4. PICK k \in 1..n : D[k] = b
    BY <1>1, <1>2, <2>3
  <2>5. j < k
    BY <1>1, <1>2, <1>3, <2>3, <2>4
  <2>6. k = m
    <3>1. ~(m < k)
      BY <1>1, <2>1, <2>3, <2>4
    <3> QED BY <2>5, <3>1
  <2> QED BY <1>5, <2>4, <2>6 DEF After
<1>6. CASE ~(j < n)
  <2>1. J = {}
    <3>1. ASSUME NEW i \in J PROVE FALSE
      <4>1. PICK k \in 1..n : D[k] = i
        BY <1>1, <1>2, <3>1
      <4>2. j < k
        BY <1>2, <1>3, <3>1, <4>1
      <4> QED BY <1>1, <1>6, <4>2
    <3> QED BY <3>1
  <2> QED BY <1>4, <1>6, <2>1 DEF IsBest, After
<1> QED BY <1>5, <1>6

(* The walks of both sides.                                                *)
LEMMA WalksAre ==
  ASSUME NEW d, NEW s, Same(d, s), NEW n, n = Len(s.sorted), NEW R, R = Reading(s),
         NEW D, D = [k \in 1..n |-> IndexOf(s.price[R[k]])]
  PROVE  /\ Ordered(d.side, Full(d.queue), D, n)
         /\ n <= LevelCount /\ n <= MaxOrders
         /\ \A k \in 1..n : R[k] \in Used(s) /\ s.price[R[k]] = PriceAt(D[k])
                            /\ s.queue[R[k]] = d.queue[D[k]]
<1> DEFINE I == Full(d.queue)
<1>1. SparseShape(s) /\ d.side \in Side /\ s.side = d.side /\ I \subseteq Index
  BY SameIs DEF Full
<1>2. /\ n \in Nat
      /\ \A k \in 1..n : R[k] \in Used(s) /\ s.price[R[k]] \in Int
      /\ \A x \in Used(s) : \E k \in 1..n : R[k] = x
      /\ \A k, m \in 1..n : k < m =>
           IF s.side = "Buy" THEN s.price[R[m]] < s.price[R[k]] ELSE s.price[R[k]] < s.price[R[m]]
  BY <1>1, ReadingIs DEF Reads
<1>3. /\ \A x \in Used(s) : /\ IndexOf(s.price[x]) \in I
                            /\ s.price[x] = PriceAt(IndexOf(s.price[x]))
      /\ \A i \in I : \E x \in Used(s) : s.price[x] = PriceAt(i)
  BY LevelsAgree
<1>4. \A k \in 1..n : D[k] = IndexOf(s.price[R[k]])
  OBVIOUS
<1>5. \A k \in 1..n : D[k] \in I /\ s.price[R[k]] = PriceAt(D[k]) /\ D[k] \in Index
  BY <1>1, <1>2, <1>3, <1>4
<1>6. \A k \in 1..n : s.queue[R[k]] = d.queue[D[k]]
  BY <1>2, <1>4 DEF Same, Holds
<1> HIDE DEF I
<1>7. \A i \in I : \E k \in 1..n : D[k] = i
  <2> TAKE i \in I
  <2>1. PICK x \in Used(s) : s.price[x] = PriceAt(i)
    BY <1>3
  <2>2. PICK k \in 1..n : R[k] = x
    BY <1>2, <2>1
  <2>3. IndexOf(PriceAt(i)) = i
    BY <1>1, PriceOfIndex
  <2> QED BY <1>4, <2>1, <2>2, <2>3
<1>8. ASSUME NEW k \in 1..n, NEW m \in 1..n, k < m PROVE BetterIndex(d.side, D[k], D[m])
  <2>1. IF s.side = "Buy" THEN PriceAt(D[m]) < PriceAt(D[k]) ELSE PriceAt(D[k]) < PriceAt(D[m])
    <3>1. IF s.side = "Buy" THEN s.price[R[m]] < s.price[R[k]] ELSE s.price[R[k]] < s.price[R[m]]
      BY <1>2, <1>8
    <3>2. s.price[R[k]] = PriceAt(D[k]) /\ s.price[R[m]] = PriceAt(D[m])
      BY <1>5
    <3> QED BY <3>1, <3>2
  <2>2. D[k] \in Index /\ D[m] \in Index
    BY <1>5
  <2>3. (D[k] < D[m] <=> PriceAt(D[k]) < PriceAt(D[m])) /\ (D[m] < D[k] <=> PriceAt(D[m]) < PriceAt(D[k]))
    BY <2>2, PricesRise
  <2>4. D[k] \in Int /\ D[m] \in Int
    BY <2>2 DEF Index
  <2> QED BY <1>1, <2>1, <2>3, <2>4 DEF BetterIndex, Side
<1>9. Ordered(d.side, I, D, n)
  BY <1>1, <1>2, <1>5, <1>7, <1>8 DEF Ordered
<1>10. n <= LevelCount /\ n <= MaxOrders
  <2>1. n = Cardinality(Used(s)) /\ Cardinality(Used(s)) <= Cardinality(I)
    BY SlotsCounted DEF I
  <2>2. Cardinality(Used(s)) <= Cardinality(Slot) /\ Cardinality(Slot) = MaxOrders
    <3>1. IsFiniteSet(Slot) /\ Cardinality(Slot) = MaxOrders
      <4>1. MaxOrders \in Nat /\ 0 \in Int /\ MaxOrders - 1 \in Int
        BY MapCapacityIs
      <4>2. IsFiniteSet(0..(MaxOrders - 1))
        BY <4>1, FS_Interval
      <4>3. Cardinality(0..(MaxOrders - 1)) = MaxOrders
        BY <4>1, MapCapacityIs, FS_Interval
      <4> QED BY <4>2, <4>3 DEF Slot
    <3>2. Used(s) \in SUBSET Slot
      BY SameIs
    <3> QED BY <3>1, <3>2, FS_Subset
  <2>3. Cardinality(I) <= Cardinality(Index) /\ Cardinality(Index) = LevelCount
    <3>1. IsFiniteSet(Index) /\ Cardinality(Index) = LevelCount
      <4>1. LevelCount \in Nat \ {0} /\ 0 \in Int /\ LevelCount - 1 \in Int
        BY GridIs
      <4>2. IsFiniteSet(0..(LevelCount - 1))
        BY <4>1, FS_Interval
      <4>3. Cardinality(0..(LevelCount - 1)) = LevelCount
        BY <4>1, FS_Interval
      <4> QED BY <4>2, <4>3 DEF Index
    <3> QED BY <1>1, <3>1, FS_Subset
  <2>4. Cardinality(I) \in Nat
    BY SlotsCounted, CountCovers DEF I
  <2> HIDE DEF I
  <2> QED BY <1>2, <2>1, <2>2, <2>3, <2>4, GridIs, MapCapacityIs
<1> QED BY <1>2, <1>5, <1>6, <1>9, <1>10 DEF I

-----------------------------------------------------------------------------
(* Both sides are walked the same way.                                     *)

(* What a walk reports of an index. *)
Level(q, i) == [price |-> PriceAt(i), queue |-> q[i]]
(* The levels at the indices of D. *)
Levels(d, D, n) == [k \in 1..n |-> Level(d.queue, D[k])]

(* D is the order of the walk, and w the walk of both.                     *)
Walked(d, s, D, n) ==
  /\ n \in Nat /\ d.queue \in Queues
  /\ Ordered(d.side, Full(d.queue), D, n)
  /\ DenseWalk(d) = Levels(d, D, n) /\ SparseWalk(s) = Levels(d, D, n)

(* The indices of the levels in the order the sparse side reads them. *)
WalkOf(s) == [k \in 1..Len(s.sorted) |-> IndexOf(s.price[Reading(s)[k]])]

(* Both sides report the same levels in the same order. *)
LEMMA WalkAgree ==
  ASSUME NEW d, NEW s, Same(d, s)
  PROVE  Walked(d, s, WalkOf(s), Len(s.sorted))
<1> DEFINE n == Len(s.sorted)
           R == Reading(s)
           D == WalkOf(s)
           I == Full(d.queue)
<1>1. SparseShape(s) /\ DenseIs(d) /\ d.queue \in Queues
  BY SameIs DEF Queues
<1>2. D = [k \in 1..n |-> IndexOf(s.price[R[k]])]
  BY DEF WalkOf
<1> HIDE DEF n, R, D
<1>3. /\ Ordered(d.side, I, D, n)
      /\ n <= LevelCount /\ n <= MaxOrders
      /\ \A k \in 1..n : R[k] \in Used(s) /\ s.price[R[k]] = PriceAt(D[k])
                         /\ s.queue[R[k]] = d.queue[D[k]]
  BY <1>2, WalksAre DEF n, R
<1>4. n \in Nat /\ I \subseteq Index /\ \A k \in 1..n : D[k] \in I
  BY <1>3 DEF Ordered
<1>5. LevelCount \in Nat \ {0} /\ MaxOrders \in Nat
  BY GridIs, MapCapacityIs
<1>6. Lists(D, n, NoIndex, LevelCount)
  <2>1. \A i \in Index : i # NoIndex
    BY <1>5 DEF Index, NoIndex
  <2> QED BY <1>3, <1>4, <1>5, <2>1 DEF Lists
<1>7. Lists(R, n, NoSlot, MaxOrders)
  <2>1. \A x \in Slot : x # NoSlot
    BY <1>5 DEF Slot, NoSlot
  <2>2. \A k \in 1..n : R[k] \in Slot
    BY <1>1, <1>3, ShapeIs
  <2> QED BY <1>3, <1>4, <1>5, <2>1, <2>2 DEF Lists
<1>8. d.best = After(D, n, NoIndex, 0)
  <2>1. IsBest(d.side, I, d.best)
    BY <1>1 DEF DenseIs
  <2> HIDE DEF I
  <2> QED BY <1>3, <2>1, OrderedFirst
<1>9. \A j \in 1..n : DenseFindNext(d, D[j]) = After(D, n, NoIndex, j)
  <2> TAKE j \in 1..n
  <2>1. IsBest(d.side, Behind(d.side, I, D[j]), DenseFindNext(d, D[j]))
    BY <1>1, <1>4, DenseNextIs
  <2> HIDE DEF I
  <2> QED BY <1>3, <2>1, OrderedNext
<1>10. s.best = After(R, n, NoSlot, 0)
  BY <1>1, SparseFirstIs DEF n, R
<1>11. \A j \in 1..n : SparseFindNext(s, R[j]) = After(R, n, NoSlot, j)
  BY <1>1, SparseNextIs DEF n, R
<1>12. DenseWalk(d) = Levels(d, D, n)
  <2>1. DenseWalk(d) = [k \in 1..n |-> [price |-> PriceAt(D[k]), queue |-> d.queue[D[k]]]]
    BY <1>6, <1>8, <1>9, DenseWalkIs
  <2> QED BY <2>1 DEF Levels, Level
<1>13. SparseWalk(s) = Levels(d, D, n)
  <2>1. SparseWalk(s) = [k \in 1..n |-> [price |-> s.price[R[k]], queue |-> s.queue[R[k]]]]
    BY <1>7, <1>10, <1>11, SparseWalkIs
  <2>2. \A k \in 1..n : s.price[R[k]] = PriceAt(D[k]) /\ s.queue[R[k]] = d.queue[D[k]]
    BY <1>3
  <2> HIDE DEF D
  <2> QED BY <2>1, <2>2 DEF Levels, Level
<1> QED BY <1>1, <1>3, <1>4, <1>12, <1>13 DEF Walked, n, D

(* What FoldLeft iterates in Counted.                                      *)
AddLen(g, start, n, q) ==
  g = [T \in SUBSET (1..n) |->
         IF T = {} THEN start ELSE g[T \ {Max(T)}] + Len(q[Max(T)].queue)]

(* Every partial sum is in V, *)
AddLenIn(V, n, q) ==
  \A k \in 1..n, x \in V : x + Len(q[k].queue) \in V
(* and F has each. *)
AddLenSteps(F, n, q) ==
  \A k \in 1..n : F[k] = F[k - 1] + Len(q[k].queue)

(* The count of a walk, level by level.                                    *)
LEMMA AddLenRun ==
  ASSUME NEW n \in Nat, NEW q, NEW V, NEW start \in V,
         AddLenIn(V, n, q)
  PROVE  \E F : /\ F \in [0..n -> V] /\ F[0] = start
               /\ AddLenSteps(F, n, q)
               /\ F[n] = (CHOOSE g : AddLen(g, start, n, q))[1..n]
<1> DEFINE step == [k \in 1..n |-> [x \in V |-> x + Len(q[k].queue)]]
           iter == CHOOSE g : AddLen(g, start, n, q)
<1>1. IsStep(step, n, V)
  BY DEF IsStep, AddLenIn
<1>2. \A k \in 1..n, x \in V : step[k][x] = x + Len(q[k].queue)
  OBVIOUS
<1> HIDE DEF step
<1>4. PICK g \in [SUBSET (1..n) -> V] : FoldsUp(g, n, V, start, step)
  BY <1>1, FoldExists, Zenon
<1>5. AddLen(g, start, n, q)
  <2>1. ASSUME NEW T \in SUBSET (1..n)
        PROVE  g[T] = IF T = {} THEN start ELSE g[T \ {Max(T)}] + Len(q[Max(T)].queue)
    <3>1. CASE T # {}
      <4>1. Max(T) \in 1..n
        BY <3>1, MaxOfPart
      <4>2. T \ {Max(T)} \in SUBSET (1..n)
        OBVIOUS
      <4>3. g[T \ {Max(T)}] \in V
        BY <4>2
      <4>4. g[T] = step[Max(T)][g[T \ {Max(T)}]]
        BY <1>4, <3>1, <4>3, Zenon DEF FoldsUp
      <4>5. step[Max(T)][g[T \ {Max(T)}]] = g[T \ {Max(T)}] + Len(q[Max(T)].queue)
        BY <1>2, <4>1, <4>3, Zenon
      <4> QED BY <3>1, <4>4, <4>5
    <3>2. CASE T = {}
      BY <3>2, <1>4 DEF FoldsUp
    <3> QED BY <3>1, <3>2
  <2> QED BY <2>1 DEF AddLen
<1>6. AddLen(iter, start, n, q)
  BY <1>5, Zenon
<1>7. \A T \in SUBSET (1..n) :
        iter[T] = IF T = {} THEN start ELSE iter[T \ {Max(T)}] + Len(q[Max(T)].queue)
  <2> HIDE DEF iter
  <2> QED BY <1>6 DEF AddLen
<1> HIDE DEF iter
<1>8. FoldsUp(iter, n, V, start, step)
  <2>1. \A T \in SUBSET (1..n) : T # {} => Max(T) \in 1..n
    BY MaxOfPart
  <2>2. \A T \in SUBSET (1..n) :
          T # {} /\ iter[T \ {Max(T)}] \in V
            => iter[T] = step[Max(T)][iter[T \ {Max(T)}]]
    <3> TAKE T \in SUBSET (1..n)
    <3> HAVE T # {} /\ iter[T \ {Max(T)}] \in V
    <3>1. iter[T] = iter[T \ {Max(T)}] + Len(q[Max(T)].queue)
      BY <1>7
    <3>2. Max(T) \in 1..n
      BY <2>1
    <3>3. step[Max(T)][iter[T \ {Max(T)}]] = iter[T \ {Max(T)}] + Len(q[Max(T)].queue)
      BY <1>2, <3>2, Zenon
    <3> QED BY <3>1, <3>3
  <2>3. iter[{}] = start
    BY <1>7
  <2> QED BY <2>2, <2>3 DEF FoldsUp
<1>9. PICK F : Steps(F, n, V, start, step) /\ iter[1..n] = F[n]
  BY <1>1, <1>8, FoldPrefixes
<1>10. F \in [0..n -> V] /\ F[0] = start /\ \A k \in 1..n : F[k] = step[k][F[k - 1]]
  BY <1>9 DEF Steps
<1>11. \A k \in 1..n : F[k] = F[k - 1] + Len(q[k].queue)
  <2> TAKE k \in 1..n
  <2>1. k - 1 \in 0..n
    OBVIOUS
  <2>2. F[k - 1] \in V
    BY <1>10, <2>1
  <2>3. step[k][F[k - 1]] = F[k - 1] + Len(q[k].queue)
    BY <1>2, <2>2, Zenon
  <2> QED BY <2>3, <1>10
<1> QED
  BY <1>9, <1>10, <1>11 DEF iter, AddLenSteps

(* The sum of a function that is 0 outside I, over I in any order.         *)
Enumerates(D, n, I) ==
  /\ n \in Nat
  /\ \A k \in 1..n : D[k] \in I
  /\ \A k, m \in 1..n : D[k] = D[m] => k = m
  /\ \A i \in I : \E k \in 1..n : D[k] = i
(* v has the values of g in the order of D. *)
SumsTo(v, n, g, D) == \A k \in 1..n : v[k] = g[D[k]]
(* g is 0 outside I. *)
VanishesBut(g, S, I) == I \subseteq S /\ \A i \in S \ I : g[i] = 0

(* A sum over a set is the sum in any order of those that count. *)
LEMMA SumInOrder ==
  ASSUME NEW S, IsFiniteSet(S), NEW g, Whole(g, S), NEW I, VanishesBut(g, S, I),
         NEW n, NEW D, Enumerates(D, n, I), NEW v, SumsTo(v, n, g, D), NEW F, RunningSum(F, v, n)
  PROVE  F[n] = SetSum(g, S)
<1>0. /\ I \in SUBSET S /\ \A i \in S \ I : g[i] = 0
      /\ n \in Nat
      /\ \A k \in 1..n : D[k] \in I
      /\ \A k, m \in 1..n : D[k] = D[m] => k = m
      /\ \A i \in I : \E k \in 1..n : D[k] = i
      /\ \A k \in 1..n : v[k] = g[D[k]]
  BY DEF Enumerates, SumsTo, VanishesBut
<1>1. PICK G : SetSums(G, S, g) /\ SetSum(g, S) = G[S]
  BY SetSumIsSum
<1>2. /\ G \in [SUBSET S -> Int] /\ G[{}] = 0
      /\ \A T \in SUBSET S : \A x \in T : G[T] = G[T \ {x}] + g[x]
  BY <1>1 DEF SetSums
<1>3. F \in [0..n -> Int] /\ F[0] = 0 /\ \A k \in 1..n : F[k] = F[k - 1] + v[k]
  BY DEF RunningSum
<1>4. \A x \in S : g[x] \in Int
  BY DEF Whole
<1> DEFINE P == {T \in SUBSET S : G[T] = G[T \cap I]}
<1>5. ASSUME NEW T \in SUBSET S, \A x \in T : T \ {x} \in P PROVE T \in P
  <2>1. CASE T \subseteq I
    <3>1. T \cap I = T
      BY <2>1
    <3> QED BY <3>1
  <2>2. CASE ~(T \subseteq I)
    <3>1. PICK x \in T : x \notin I
      BY <2>2
    <3>2. T \ {x} \in SUBSET S /\ G[T \ {x}] = G[(T \ {x}) \cap I] /\ g[x] = 0 /\ G[T \ {x}] \in Int
      BY <1>0, <1>2, <1>5, <3>1
    <3>3. (T \ {x}) \cap I = T \cap I
      BY <3>1
    <3>4. G[T] = G[T \ {x}] + g[x]
      BY <1>2, <3>1
    <3>5. G[T] = G[T \ {x}]
      BY <3>2, <3>4
    <3>6. G[T \ {x}] = G[T \cap I]
      BY <3>2, <3>3
    <3> QED BY <3>5, <3>6
  <2> QED BY <2>1, <2>2
<1>6. \A T \in SUBSET S : T \in P
  <2>1. P \in SUBSET SUBSET S
    OBVIOUS
  <2> HIDE DEF P
  <2> QED BY <1>5, <2>1, SubsetInduction
<1>7. G[S] = G[I]
  <2>1. S \in P /\ S \cap I = I
    BY <1>0, <1>6
  <2> QED BY <2>1
<1> HIDE DEF P
<1> DEFINE U(k) == {D[j] : j \in 1..k}
           Q == {k \in Nat : k <= n => F[k] = G[U(k)]}
<1>8. 0 \in Q
  <2>1. U(0) = {}
    OBVIOUS
  <2> QED BY <1>2, <1>3, <2>1
<1>9. ASSUME NEW k \in Q PROVE k + 1 \in Q
  <2> DEFINE m == k + 1
  <2>1. CASE m <= n
    <3>1. k \in Nat /\ k \in 0..n /\ m \in 1..n /\ m - 1 = k /\ F[k] = G[U(k)]
      BY <1>0, <2>1
    <3>2. D[m] \in U(m) /\ U(m) \in SUBSET S
      <4>1. \A j \in 1..m : j \in 1..n
        BY <1>0, <3>1
      <4> QED BY <1>0, <3>1, <4>1
    <3>3. U(m) \ {D[m]} = U(k)
      <4>1. ASSUME NEW j \in 1..m, D[j] # D[m] PROVE j \in 1..k
        BY <3>1, <4>1
      <4>2. ASSUME NEW j \in 1..k PROVE j \in 1..m /\ j \in 1..n /\ j # m
        BY <1>0, <3>1
      <4>3. \A j \in 1..k : D[j] # D[m]
        BY <1>0, <3>1, <4>2
      <4> HIDE DEF m
      <4> QED BY <4>1, <4>2, <4>3
    <3> HIDE DEF U, m
    <3>4. G[U(m)] = G[U(m) \ {D[m]}] + g[D[m]]
      BY <1>2, <3>2
    <3>5. F[m] = F[m - 1] + v[m] /\ v[m] = g[D[m]]
      BY <1>0, <1>3, <3>1
    <3>6. F[m] = G[U(m)]
      BY <3>1, <3>3, <3>4, <3>5
    <3>7. m \in Nat
      BY <3>1
    <3> QED BY <3>6, <3>7 DEF m
  <2>2. CASE ~(m <= n)
    BY <2>2
  <2> QED BY <2>1, <2>2
<1>10. Q = Nat
  <2>1. Q \in SUBSET Nat
    OBVIOUS
  <2> HIDE DEF Q
  <2> QED BY <1>8, <1>9, <2>1, Induction
<1>11. F[n] = G[U(n)]
  BY <1>0, <1>10
<1>12. U(n) = I
  BY <1>0
<1> QED BY <1>1, <1>7, <1>11, <1>12

(* The orders of a walk are those of the queues.                           *)
Counted(walk) == FoldLeft(LAMBDA n, l : n + Len(l.queue), 0, walk)

(* The orders of a walk add up to the orders of the side. *)
LEMMA WalkCounts ==
  ASSUME NEW d, NEW s, NEW D, NEW n, Walked(d, s, D, n)
  PROVE  Counted(DenseWalk(d)) = OrderCount(d.queue)
<1> DEFINE w == DenseWalk(d)
           q == d.queue
           I == Full(d.queue)
           g == Lens(d.queue)
<1>1. n \in Nat /\ q \in Queues /\ Ordered(d.side, I, D, n) /\ w = Levels(d, D, n)
  BY DEF Walked
<1>2. /\ I \subseteq Index /\ d.side \in Side
      /\ \A k \in 1..n : D[k] \in I
      /\ \A i \in I : \E k \in 1..n : D[k] = i
      /\ \A k, m \in 1..n : k < m => BetterIndex(d.side, D[k], D[m])
  BY <1>1 DEF Ordered
<1>3. \A k, m \in 1..n : D[k] = D[m] => k = m
  <2> SUFFICES ASSUME NEW k \in 1..n, NEW m \in 1..n, k < m, D[k] = D[m] PROVE FALSE
    BY <1>1
  <2>1. BetterIndex(d.side, D[k], D[m]) /\ D[k] \in Index
    BY <1>2
  <2> QED BY <1>2, <2>1, BetterIs
<1>4. /\ \A i \in Index : g[i] = Len(q[i]) /\ g[i] \in Nat
      /\ Whole(g, Index) /\ IsFiniteSet(Index)
  BY <1>1, LensAre
<1>5. \A i \in Index \ I : g[i] = 0
  <2>1. \A i \in Index \ I : q[i] = <<>>
    BY DEF Full
  <2> QED BY <1>4, <2>1
<1>6. DOMAIN w = 1..n /\ Len(w) = n /\ \A k \in 1..n : Len(w[k].queue) = g[D[k]]
  <2>1. w = [k \in 1..n |-> Level(q, D[k])]
    BY <1>1 DEF Levels
  <2>2. \A k \in 1..n : w[k].queue = q[D[k]]
    BY <2>1 DEF Level
  <2>3. \A k \in 1..n : D[k] \in Index
    BY <1>2
  <2> HIDE DEF w
  <2> QED BY <1>1, <1>4, <2>1, <2>2, <2>3
<1> HIDE DEF w, q, I, g
<1> DEFINE v == [k \in 1..n |-> g[D[k]]]
<1>7. \A k \in 1..n : v[k] = g[D[k]] /\ v[k] \in Nat
  BY <1>2, <1>4
<1> HIDE DEF v
<1>8. AddLenIn(Int, n, w)
  BY <1>6, <1>7 DEF AddLenIn
<1>9. PICK F : /\ F \in [0..n -> Int] /\ F[0] = 0 /\ AddLenSteps(F, n, w)
               /\ F[n] = (CHOOSE f : AddLen(f, 0, n, w))[1..n]
  <2>1. 0 \in Int
    OBVIOUS
  <2> DEFINE V == Int
             none == 0
  <2>2. AddLenIn(V, n, w) /\ none \in V
    BY <1>8, <2>1
  <2> HIDE DEF V, none
  <2>3. \E F : /\ F \in [0..n -> V] /\ F[0] = none /\ AddLenSteps(F, n, w)
               /\ F[n] = (CHOOSE f : AddLen(f, none, n, w))[1..n]
    BY <1>1, <2>2, AddLenRun
  <2> QED BY <2>3 DEF V, none
<1>10. RunningSum(F, v, n)
  BY <1>6, <1>7, <1>9 DEF RunningSum, AddLenSteps
<1>11. Counted(w) = F[n]
  <2>1. Counted(w) = (CHOOSE f : AddLen(f, 0, n, w))[1..n]
    BY <1>6 DEF Counted, FoldLeft, MapThenFoldSet, AddLen
  <2> QED BY <1>9, <2>1
<1>12. F[n] = SetSum(g, Index)
  <2>1. VanishesBut(g, Index, I)
    BY <1>2, <1>5 DEF VanishesBut
  <2>2. Enumerates(D, n, I)
    BY <1>1, <1>2, <1>3 DEF Enumerates
  <2>3. SumsTo(v, n, g, D)
    BY <1>7 DEF SumsTo
  <2> QED BY <1>4, <1>10, <2>1, <2>2, <2>3, SumInOrder
<1> QED BY <1>11, <1>12 DEF OrderCount, w, g

(* What the caller counts to keep within its orders is that number, on     *)
(* either side.                                                            *)
LEMMA RestingIs ==
  ASSUME NEW d, NEW s, Same(d, s)
  PROVE  Counted(DenseWalk(d)) = OrderCount(d.queue) /\ DenseWalk(d) = SparseWalk(s)
<1>1. Walked(d, s, WalkOf(s), Len(s.sorted))
  BY WalkAgree
<1>2. Counted(DenseWalk(d)) = OrderCount(d.queue)
  BY <1>1, WalkCounts
<1>3. DenseWalk(d) = SparseWalk(s)
  BY <1>1 DEF Walked
<1> QED BY <1>2, <1>3

-----------------------------------------------------------------------------
(* Replacing.                                                              *)

(* What summing up an empty queue iterates. *)
NoSums(g) ==
  g = [T \in SUBSET (1..0) |-> IF T = {} THEN 0 ELSE g[T \ {Max(T)}] + <<>>[Max(T)].qty]

(* An empty level has room for any order. *)
LEMMA NothingFits == Total(<<>>) = 0 /\ \A m \in 1..MaxQuantity : Fits(<<>>, m)
<1> DEFINE h == [T \in SUBSET (1..0) |-> 0]
           g == CHOOSE f : NoSums(f)
<1>1. \A T \in SUBSET (1..0) : T = {}
  OBVIOUS
<1>2. NoSums(h)
  BY <1>1 DEF NoSums
<1> HIDE DEF h
<1>3. NoSums(g)
  BY <1>2, Zenon
<1> HIDE DEF g
<1>4. g[1..0] = 0
  BY <1>1, <1>3 DEF NoSums
<1>5. Total(<<>>) = g[1..0]
  BY DEF Total, FoldLeft, MapThenFoldSet, NoSums, g
<1>6. Total(<<>>) = 0
  BY <1>4, <1>5
<1> QED BY <1>6, GridAssumption DEF Fits

(* The answer to can_accept_replacement_residual.                          *)
Verdict(b) == IF b THEN "Accepted" ELSE "PriceLevelQuantityOverflow"
(* The queue a replacement would join, without the order it replaces. *)
Remaining(d, p, n, to) ==
  IF p = to THEN RemoveAt(d.queue[IndexOf(to)], n) ELSE d.queue[IndexOf(to)]

(* can_accept_replacement_residual of the dense side asks whether that     *)
(* queue has room,                                                         *)
LEMMA DenseReplaces ==
  ASSUME NEW d, NEW p \in Price, NEW to \in Price, NEW n, NEW m \in 1..MaxQuantity
  PROVE  DenseCanReplace(d, p, n, to, m) = Verdict(Fits(Remaining(d, p, n, to), m))
<1>1. InRange(p) /\ InRange(to) /\ m # 0
  BY PriceIs, GridAssumption
<1> QED BY <1>1 DEF DenseCanReplace, Verdict, Remaining

(* and so does that of the sparse side: the slot it may need is the one    *)
(* the old order's level gives back.                                       *)
LEMMA SparseReplaces ==
  ASSUME NEW d, NEW s, Same(d, s), OrderCount(d.queue) <= MaxOrders,
         NEW p \in Price, NEW n \in DOMAIN d.queue[IndexOf(p)],
         NEW to \in Price, NEW m \in 1..MaxQuantity
  PROVE  SparseCanReplace(s, p, n, to, m) = Verdict(Fits(Remaining(d, p, n, to), m))
<1> DEFINE q == d.queue[IndexOf(p)]
           v == d.queue[IndexOf(to)]
<1>1. InRange(p) /\ InRange(to) /\ m # 0
  BY PriceIs, GridAssumption
<1>2. q \in Seq(RestingOrder) /\ q # <<>> /\ IndexOf(p) \in Index
  BY Looks, Removes
<1>3. PICK x \in Used(s) : At(s, p, x) /\ s.queue[x] = q
  BY <1>2, Looks
<1>4. FindSlot(s, p) = x /\ x # NoSlot /\ s.price[x] = p
  BY <1>3, NoSlotIs, SameIs DEF At
<1>5. CASE v = <<>>
  <2>1. FindSlot(s, to) = NoSlot
    BY <1>5, Looks DEF Missing
  <2>2. Count(s) < MaxOrders \/ Len(s.queue[x]) = 1
    <3>1. CASE Len(q) = 1
      BY <1>3, <3>1
    <3>2. CASE Len(q) # 1
      <4>1. Len(s.sorted) < MaxOrders
        BY <1>2, <3>2, RoomBesideTwo
      <4> QED BY <4>1 DEF Count
    <3> QED BY <3>1, <3>2
  <2>3. SparseCanReplace(s, p, n, to, m) = "Accepted"
    BY <1>1, <1>4, <2>1, <2>2 DEF SparseCanReplace
  <2>4. p # to
    BY <1>2, <1>5
  <2>5. Fits(<<>>, m)
    BY NothingFits
  <2> QED BY <1>5, <2>3, <2>4, <2>5 DEF Verdict, Remaining
<1>6. CASE v # <<>>
  <2>1. PICK y \in Used(s) : At(s, to, y) /\ s.queue[y] = v
    BY <1>6, Looks
  <2>2. FindSlot(s, to) = y /\ y # NoSlot /\ s.price[y] = to
    BY <2>1, NoSlotIs, SameIs DEF At
  <2>3. y = x <=> p = to
    BY <1>4, <2>2
  <2>4. SparseCanReplace(s, p, n, to, m)
          = Verdict(Fits(IF y = x THEN RemoveAt(s.queue[x], n) ELSE s.queue[y], m))
    BY <1>1, <1>4, <2>2 DEF SparseCanReplace, Verdict
  <2>5. (IF y = x THEN RemoveAt(s.queue[x], n) ELSE s.queue[y]) = Remaining(d, p, n, to)
    BY <1>3, <2>1, <2>3 DEF Remaining
  <2> QED BY <2>4, <2>5
<1> QED BY <1>5, <1>6

(* The old order out, there is a slot for the new one, and an accepted one *)
(* is added.                                                               *)
LEMMA ReplacesAgree ==
  ASSUME NEW d, NEW s, Same(d, s), OrderCount(d.queue) <= MaxOrders,
         NEW p \in Price, NEW n \in DOMAIN d.queue[IndexOf(p)],
         NEW f, f = DenseRemoveOrder(d, p, n), NEW e, e = SparseRemoveOrder(s, p, n)
  PROVE  Same(f, e) /\ OrderCount(f.queue) = OrderCount(d.queue) - 1 /\ OrderCount(d.queue) \in Nat
         /\ e.free # <<>> /\ e.hash = s.hash /\ f.side = d.side
<1> DEFINE z == RemoveAt(d.queue[IndexOf(p)], n)
<1>1. Becomes(f, e, d, s, p, z)
  BY RemovesAgree
<1>2. OrderCount(f.queue) = OrderCount(d.queue) - 1 /\ OrderCount(d.queue) \in Nat
  BY <1>1, OneLess
<1>3. Same(f, e) /\ e.hash = s.hash /\ f.side = d.side
  BY <1>1 DEF Becomes, PutAt
<1>4. OrderCount(f.queue) < MaxOrders
  BY <1>2, MapCapacityIs
<1>5. e.free # <<>>
  BY <1>3, <1>4, RoomForOne
<1> QED BY <1>2, <1>3, <1>5

(* If it has, both sides accept the replacement once the old order is      *)
(* gone.                                                                   *)
LEMMA ReplaceKeeps ==
  ASSUME NEW d, NEW s, Same(d, s), OrderCount(d.queue) <= MaxOrders,
         NEW p \in Price, NEW n \in DOMAIN d.queue[IndexOf(p)],
         NEW to \in Price, NEW o \in RestingOrder,
         Fits(Remaining(d, p, n, to), o.qty)
  PROVE  /\ DenseAddStatus(DenseRemoveOrder(d, p, n), to, o) = "Accepted"
         /\ SparseAddStatus(SparseRemoveOrder(s, p, n), to, o) = "Accepted"
<1> DEFINE f == DenseRemoveOrder(d, p, n)
           e == SparseRemoveOrder(s, p, n)
           z == RemoveAt(d.queue[IndexOf(p)], n)
<1>1. Same(f, e) /\ e.free # <<>>
  BY ReplacesAgree
<1>2. PutAt(f, d, IndexOf(p), z)
  BY RemovesAgree DEF Becomes
<1> HIDE DEF f, e
<1>3. IndexOf(p) \in Index /\ IndexOf(to) \in Index /\ InRange(to) /\ (IndexOf(p) = IndexOf(to) <=> p = to)
  BY PriceIs
<1>4. d.queue \in [Index -> Seq(RestingOrder)]
  BY SameIs
<1>5. f.queue[IndexOf(to)] = Remaining(d, p, n, to)
  BY <1>2, <1>3, <1>4 DEF PutAt, Remaining
<1>6. EntryStatus(to, o) = "Accepted"
  <2>1. o.qty # 0
    BY GridAssumption DEF RestingOrder
  <2> QED BY <1>3, <2>1 DEF EntryStatus
<1>7. DenseAddStatus(f, to, o) = "Accepted"
  BY <1>5, <1>6 DEF DenseAddStatus
<1>8. to \in Int
  BY PriceIs
<1>9. SparseAddStatus(e, to, o) = DenseAddStatus(f, to, o)
  BY <1>1, <1>8, StatusesAgree
<1> QED BY <1>7, <1>9 DEF f, e

-----------------------------------------------------------------------------
(* The steps.                                                              *)

(* The two sides are the same, and there are no more orders than the       *)
(* sparse side has slots.                                                  *)
Paired(d, s) == Same(d, s) /\ OrderCount(d.queue) <= MaxOrders
(* The inductive invariant. *)
StoresInv == Paired(dense, sparse)

(* What it says, in its parts. *)
LEMMA PairedIs ==
  ASSUME NEW d, NEW s, Paired(d, s)
  PROVE  /\ Same(d, s) /\ OrderCount(d.queue) \in Nat /\ OrderCount(d.queue) <= MaxOrders
         /\ MaxOrders \in Nat /\ d.queue \in Queues
         /\ Counted(DenseWalk(d)) = OrderCount(d.queue) /\ DenseWalk(d) = SparseWalk(s)
<1>1. Same(d, s) /\ OrderCount(d.queue) <= MaxOrders
  BY DEF Paired
<1>2. d.queue \in Queues
  BY <1>1, SlotsCounted
<1> QED BY <1>1, <1>2, CountIs, MapCapacityIs, RestingIs

(* Adding an order keeps the sides paired, *)
LEMMA AddKeeps ==
  ASSUME NEW d, NEW s, Same(d, s), OrderCount(d.queue) < MaxOrders, NEW p \in Int, NEW o \in RestingOrder
  PROVE  Paired(DenseAddOrder(d, p, o), SparseAddOrder(s, p, o))
<1> DEFINE f == DenseAddOrder(d, p, o)
           e == SparseAddOrder(s, p, o)
           z == Append(d.queue[IndexOf(p)], o)
<1>1. s.free # <<>>
  BY RoomForOne
<1>2. (DenseAddStatus(d, p, o) = "Accepted" => p \in Price)
  BY <1>1, StatusesAgree
<1>3. /\ DenseAddStatus(d, p, o) # "Accepted" => f = d /\ e = s
      /\ DenseAddStatus(d, p, o) = "Accepted" => Becomes(f, e, d, s, p, z)
  BY <1>1, AddsAgree
<1>4. MaxOrders \in Nat /\ OrderCount(d.queue) \in Nat
  BY MapCapacityIs, SlotsCounted, CountIs
<1>5. CASE DenseAddStatus(d, p, o) # "Accepted"
  BY <1>3, <1>4, <1>5 DEF Paired
<1>6. CASE DenseAddStatus(d, p, o) = "Accepted"
  <2> DEFINE q == d.queue[IndexOf(p)]
  <2>1. p \in Price /\ Becomes(f, e, d, s, p, z)
    BY <1>2, <1>3, <1>6
  <2>2. q \in Seq(RestingOrder)
    BY <2>1, Looks
  <2>3. z \in Seq(RestingOrder) /\ Len(z) = Len(q) + 1 /\ Len(q) \in Nat
    BY <2>2
  <2> HIDE DEF f, e, z
  <2>4. OrderCount(f.queue) = OrderCount(d.queue) + Len(z) - Len(q)
    BY <2>1, <2>3, BecomesCounts
  <2>5. OrderCount(f.queue) <= MaxOrders
    <3> HIDE DEF q
    <3> QED BY <1>4, <2>3, <2>4
  <2>6. Same(f, e)
    BY <2>1 DEF Becomes
  <2> QED BY <2>5, <2>6 DEF Paired, f, e
<1> QED BY <1>5, <1>6

(* cancelling one, *)
LEMMA CancelKeeps ==
  ASSUME NEW d, NEW s, Paired(d, s), NEW p \in Price, NEW n \in DOMAIN d.queue[IndexOf(p)]
  PROVE  Paired(DenseRemoveOrder(d, p, n), SparseRemoveOrder(s, p, n))
<1> DEFINE f == DenseRemoveOrder(d, p, n)
           e == SparseRemoveOrder(s, p, n)
<1>1. Same(d, s) /\ OrderCount(d.queue) <= MaxOrders /\ MaxOrders \in Nat
  BY PairedIs
<1>2. Same(f, e) /\ OrderCount(f.queue) = OrderCount(d.queue) - 1 /\ OrderCount(d.queue) \in Nat
  BY <1>1, ReplacesAgree
<1> HIDE DEF f, e
<1> QED BY <1>1, <1>2 DEF Paired, f, e

(* reducing one, *)
LEMMA ReduceKeeps ==
  ASSUME NEW d, NEW s, Paired(d, s), NEW p \in Price, NEW n \in DOMAIN d.queue[IndexOf(p)],
         NEW m \in 1..MaxQuantity
  PROVE  Paired(DenseReduceOrder(d, p, n, m), SparseReduceOrder(s, p, n, m))
<1> DEFINE f == DenseReduceOrder(d, p, n, m)
           e == SparseReduceOrder(s, p, n, m)
           q == d.queue[IndexOf(p)]
           z == [q EXCEPT ![n].qty = m]
<1>1. Same(d, s) /\ OrderCount(d.queue) <= MaxOrders
  BY PairedIs
<1>2. Becomes(f, e, d, s, p, z)
  BY <1>1, ReducesAgree
<1>3. q \in Seq(RestingOrder)
  BY <1>1, Looks
<1>4. z \in Seq(RestingOrder) /\ Len(z) = Len(q)
  BY <1>3, Reduced
<1>5. Len(q) \in Nat
  BY <1>3
<1> HIDE DEF f, e, z
<1>6. OrderCount(f.queue) = OrderCount(d.queue) + Len(z) - Len(q) /\ OrderCount(d.queue) \in Nat
  BY <1>1, <1>2, <1>4, BecomesCounts
<1>7. OrderCount(f.queue) = OrderCount(d.queue)
  <2> HIDE DEF q
  <2> QED BY <1>4, <1>5, <1>6
<1>8. Same(f, e)
  BY <1>2 DEF Becomes
<1> QED BY <1>1, <1>7, <1>8 DEF Paired, f, e

(* matching, *)
LEMMA MatchKeeps ==
  ASSUME NEW d, NEW s, Paired(d, s), NEW a \in Aggressor
  PROVE  Paired(DenseMatched(d, a, Turns).store, SparseMatched(s, a, Turns).store)
<1> DEFINE r == DenseMatched(d, a, Turns)
           t == SparseMatched(s, a, Turns)
<1>1. Same(d, s) /\ OrderCount(d.queue) <= MaxOrders /\ MaxOrders \in Nat /\ OrderCount(d.queue) \in Nat
      /\ d.queue \in Queues
  BY PairedIs
<1>2. Turns \in Nat
  BY <1>1 DEF Turns
<1>3. Alike(r, t, OrderCount(d.queue))
  BY <1>1, <1>2, MatchedAgree
<1> HIDE DEF r, t
<1>4. Same(r.store, t.store) /\ OrderCount(r.store.queue) <= OrderCount(d.queue)
  BY <1>3 DEF Alike
<1>5. OrderCount(r.store.queue) \in Nat
  BY <1>4, SlotsCounted, CountIs
<1>6. OrderCount(r.store.queue) <= MaxOrders
  BY <1>1, <1>4, <1>5
<1> QED BY <1>4, <1>6 DEF Paired, r, t

(* and clearing. *)
LEMMA ClearKeeps ==
  ASSUME NEW side \in Side, NEW hash \in [Price -> Nat]
  PROVE  Paired(DenseCleared(side), SparseCleared(side, hash))
<1> DEFINE d == DenseCleared(side)
<1>1. Same(d, SparseCleared(side, hash))
  BY StartsAgree
<1>2. \A i \in Index : d.queue[i] = <<>>
  BY DEF DenseCleared
<1>3. d.queue \in Queues
  BY <1>1, SlotsCounted
<1> HIDE DEF d
<1>4. OrderCount(d.queue) = 0
  BY <1>2, <1>3, CountStarts
<1> QED BY <1>1, <1>4, MapCapacityIs DEF Paired, d

(* The inputs are what they are taken for.                                 *)
LEMMA InputsAre ==
  /\ Hash \subseteq [Price -> Nat] /\ TriedPrice \subseteq Int
  /\ \A o \in Entry : o \in RestingOrder /\ o.qty \in 1..MaxQuantity
  /\ \A a \in Taker : a \in Aggressor
<1>1. \A o \in Entry : o \in RestingOrder
  BY InputAssumption DEF RestingOrder
<1>2. \A o \in RestingOrder : o.qty \in 1..MaxQuantity
  BY DEF RestingOrder
<1> QED BY <1>1, <1>2, InputAssumption

(* The queue the caller sees at a price is that of its index. *)
LEMMA AtPrice ==
  ASSUME NEW d, NEW p \in Price
  PROVE  DenseQueueAt(d, p) = d.queue[IndexOf(p)]
<1> QED BY PriceIs DEF DenseQueueAt

(* An order the caller sees is one of the queue. *)
LEMMA QueuedIs ==
  ASSUME NEW d, NEW s, Same(d, s), NEW p \in Price, NEW n \in DOMAIN DenseQueueAt(d, p)
  PROVE  /\ n \in DOMAIN d.queue[IndexOf(p)]
         /\ DenseQueueAt(d, p)[n] \in RestingOrder
         /\ DenseQueueAt(d, p)[n].qty \in 1..MaxQuantity
         /\ \A m \in 1..MaxQuantity : [DenseQueueAt(d, p)[n] EXCEPT !.qty = m] \in RestingOrder
<1> DEFINE q == d.queue[IndexOf(p)]
<1>1. DenseQueueAt(d, p) = q /\ q \in Seq(RestingOrder)
  BY AtPrice, Looks
<1> HIDE DEF q
<1>2. n \in DOMAIN q
  BY <1>1
<1>3. q[n] \in RestingOrder
  BY <1>1, <1>2
<1> DEFINE o == q[n]
<1>4. o \in [qty: 1..MaxQuantity, owner: Owner]
  BY <1>3 DEF RestingOrder
<1> HIDE DEF o
<1>5. o.qty \in 1..MaxQuantity /\ \A m \in 1..MaxQuantity : [o EXCEPT !.qty = m] \in RestingOrder
  BY <1>4 DEF RestingOrder
<1> QED BY <1>1, <1>2, <1>3, <1>5 DEF o, q

(* A new pair of sides satisfies it. *)
LEMMA StoresStart == Init => StoresInv
<1> SUFFICES ASSUME Init PROVE StoresInv
  OBVIOUS
<1>1. PICK side \in Side, hash \in Hash : dense = DenseCleared(side) /\ sparse = SparseCleared(side, hash)
  BY DEF Init
<1>2. hash \in [Price -> Nat]
  BY InputsAre
<1>3. Paired(DenseCleared(side), SparseCleared(side, hash))
  BY <1>2, ClearKeeps
<1> QED BY <1>1, <1>3 DEF StoresInv

(* Every call preserves it. *)
LEMMA StoresStep == StoresInv /\ [Next]_vars => StoresInv'
<1> SUFFICES ASSUME StoresInv, [Next]_vars PROVE StoresInv'
  OBVIOUS
<1>1. Paired(dense, sparse) /\ Same(dense, sparse)
  BY PairedIs DEF StoresInv
<1> SUFFICES Paired(dense', sparse')
  BY DEF StoresInv
<1>2. ASSUME NEW p \in TriedPrice, NEW o \in Entry, AddOrder(p, o) PROVE Paired(dense', sparse')
  <2>1. p \in Int /\ o \in RestingOrder
    BY InputsAre
  <2>2. OrderCount(dense.queue) < MaxOrders
    BY <1>1, <1>2, PairedIs DEF AddOrder, Resting, Counted
  <2>3. Paired(DenseAddOrder(dense, p, o), SparseAddOrder(sparse, p, o))
    BY <1>1, <2>1, <2>2, AddKeeps
  <2> QED BY <1>2, <2>3 DEF AddOrder
<1>3. ASSUME NEW p \in Price, NEW n \in DOMAIN DenseQueueAt(dense, p), CancelOrder(p, n)
      PROVE  Paired(dense', sparse')
  <2>1. n \in DOMAIN dense.queue[IndexOf(p)]
    BY <1>1, QueuedIs
  <2>2. Paired(DenseRemoveOrder(dense, p, n), SparseRemoveOrder(sparse, p, n))
    BY <1>1, <2>1, CancelKeeps
  <2> QED BY <1>3, <2>2 DEF CancelOrder
<1>4. ASSUME NEW p \in Price, NEW n \in DOMAIN DenseQueueAt(dense, p),
             NEW qty \in 1..DenseQueueAt(dense, p)[n].qty, ReduceOrder(p, n, qty)
      PROVE  Paired(dense', sparse')
  <2>1. n \in DOMAIN dense.queue[IndexOf(p)] /\ DenseQueueAt(dense, p)[n].qty \in 1..MaxQuantity
    BY <1>1, QueuedIs
  <2>2. qty \in 1..MaxQuantity
    BY <2>1, GridAssumption
  <2>3. Paired(DenseReduceOrder(dense, p, n, qty), SparseReduceOrder(sparse, p, n, qty))
    BY <1>1, <2>1, <2>2, ReduceKeeps
  <2> QED BY <1>4, <2>3 DEF ReduceOrder
<1>5. ASSUME NEW p \in Price, NEW n \in DOMAIN DenseQueueAt(dense, p), NEW to \in Price,
             NEW i \in Entry, ReplaceOrder(p, n, to, i.qty)
      PROVE  Paired(dense', sparse')
  <2> DEFINE qty == i.qty
             o == [DenseQueueAt(dense, p)[n] EXCEPT !.qty = qty]
             f == DenseRemoveOrder(dense, p, n)
             e == SparseRemoveOrder(sparse, p, n)
             b == Fits(Remaining(dense, p, n, to), qty)
  <2>1. n \in DOMAIN dense.queue[IndexOf(p)] /\ qty \in 1..MaxQuantity
    BY <1>1, InputsAre, QueuedIs
  <2>2. o \in RestingOrder
    BY <1>1, <2>1, QueuedIs
  <2>3. /\ DenseCanReplace(dense, p, n, to, qty) = Verdict(b)
        /\ SparseCanReplace(sparse, p, n, to, qty) = Verdict(b)
    BY <1>1, <2>1, DenseReplaces, SparseReplaces DEF Paired
  <2>4. /\ dense' = IF DenseCanReplace(dense, p, n, to, qty) = "Accepted" THEN DenseAddOrder(f, to, o) ELSE dense
        /\ sparse' = IF SparseCanReplace(sparse, p, n, to, qty) = "Accepted" THEN SparseAddOrder(e, to, o) ELSE sparse
    BY <1>5 DEF ReplaceOrder
  <2>5. Same(f, e) /\ OrderCount(f.queue) = OrderCount(dense.queue) - 1 /\ OrderCount(dense.queue) \in Nat
    BY <1>1, <2>1, ReplacesAgree DEF Paired
  <2>6. to \in Int
    BY PriceIs
  <2> HIDE DEF o, f, e, b, qty
  <2>7. OrderCount(f.queue) < MaxOrders
    BY <1>1, <2>5, PairedIs
  <2>8. Paired(DenseAddOrder(f, to, o), SparseAddOrder(e, to, o))
    BY <2>2, <2>5, <2>6, <2>7, AddKeeps
  <2>9. CASE Verdict(b) = "Accepted"
    BY <2>3, <2>4, <2>8, <2>9
  <2>10. CASE Verdict(b) # "Accepted"
    BY <1>1, <2>3, <2>4, <2>10
  <2> QED BY <2>9, <2>10
<1>6. ASSUME NEW a \in Taker, MatchOrders(a) PROVE Paired(dense', sparse')
  <2>1. a \in Aggressor
    BY InputsAre
  <2>2. Paired(DenseMatched(dense, a, Turns).store, SparseMatched(sparse, a, Turns).store)
    BY <1>1, <2>1, MatchKeeps
  <2> QED BY <1>6, <2>2 DEF MatchOrders
<1>7. CASE ClearSides
  <2>1. dense.side \in Side /\ sparse.side = dense.side /\ sparse.hash \in [Price -> Nat]
    BY <1>1, SameIs
  <2>2. Paired(DenseCleared(dense.side), SparseCleared(dense.side, sparse.hash))
    BY <2>1, ClearKeeps
  <2> QED BY <1>7, <2>1, <2>2 DEF ClearSides
<1>8. CASE UNCHANGED vars
  BY <1>1, <1>8 DEF vars
<1> QED BY <1>2, <1>3, <1>4, <1>5, <1>6, <1>7, <1>8 DEF Next

-----------------------------------------------------------------------------
(* The answers.                                                            *)

(* Both sides show the same queue at any price, on the grid or off it. *)
LEMMA QueuesAgree ==
  ASSUME NEW d, NEW s, Same(d, s), NEW p \in Int
  PROVE  DenseQueueAt(d, p) = SparseQueueAt(s, p)
<1>1. CASE ~InRange(p)
  BY <1>1 DEF DenseQueueAt, SparseQueueAt
<1>2. CASE InRange(p)
  <2> DEFINE q == d.queue[IndexOf(p)]
  <2>1. p \in Price
    BY <1>2, PriceIs
  <2>2. DenseQueueAt(d, p) = q
    BY <2>1, AtPrice
  <2>3. CASE q = <<>>
    <3>1. FindSlot(s, p) = NoSlot
      BY <2>1, <2>3, Looks DEF Missing
    <3> QED BY <1>2, <2>2, <2>3, <3>1 DEF SparseQueueAt
  <2>4. CASE q # <<>>
    <3>1. PICK x \in Used(s) : At(s, p, x) /\ s.queue[x] = q
      BY <2>1, <2>4, Looks
    <3>2. FindSlot(s, p) = x /\ x # NoSlot
      BY <3>1, NoSlotIs, SameIs DEF At
    <3> QED BY <1>2, <2>2, <3>1, <3>2 DEF SparseQueueAt
  <2> QED BY <2>3, <2>4
<1> QED BY <1>1, <1>2

(* can_accept_residual says the same on both sides. *)
LEMMA AcceptsAgree ==
  ASSUME NEW d, NEW s, Same(d, s), OrderCount(d.queue) < MaxOrders, NEW p \in Int, NEW m \in 1..MaxQuantity
  PROVE  /\ DenseCanAccept(d, p, m) = SparseCanAccept(s, p, m)
         /\ InRange(p) => DenseCanAccept(d, p, m) = Verdict(Fits(d.queue[IndexOf(p)], m))
<1>1. m # 0
  BY GridAssumption
<1>2. CASE ~InRange(p)
  BY <1>1, <1>2 DEF DenseCanAccept, SparseCanAccept
<1>3. CASE InRange(p)
  <2> DEFINE q == d.queue[IndexOf(p)]
  <2>1. p \in Price
    BY <1>3, PriceIs
  <2>2. DenseCanAccept(d, p, m) = Verdict(Fits(q, m))
    BY <1>1, <1>3 DEF DenseCanAccept, Verdict
  <2>3. SparseQueueAt(s, p) = q
    BY <2>1, QueuesAgree, AtPrice, PriceIs
  <2> HIDE DEF q
  <2>4. CASE q = <<>>
    <3>1. FindSlot(s, p) = NoSlot
      BY <2>1, <2>4, Looks DEF Missing, q
    <3>2. Count(s) < MaxOrders
      BY RoomForOne DEF Count
    <3>3. SparseCanAccept(s, p, m) = "Accepted"
      BY <1>1, <1>3, <3>1, <3>2 DEF SparseCanAccept
    <3>4. Fits(q, m)
      BY <2>4, NothingFits
    <3> QED BY <1>3, <2>2, <3>3, <3>4 DEF Verdict, q
  <2>5. CASE q # <<>>
    <3>1. PICK x \in Used(s) : At(s, p, x)
      BY <2>1, <2>5, Looks DEF q
    <3>2. FindSlot(s, p) # NoSlot
      BY <3>1, NoSlotIs, SameIs DEF At
    <3>3. SparseCanAccept(s, p, m) = Verdict(Fits(q, m))
      BY <1>1, <1>3, <2>3, <3>2 DEF SparseCanAccept, Verdict
    <3> QED BY <1>3, <2>2, <3>3 DEF q
  <2> QED BY <2>4, <2>5
<1> QED BY <1>2, <1>3

(* So does add_order, *)
LEMMA AddAnswers ==
  ASSUME NEW d, NEW s, Same(d, s), OrderCount(d.queue) < MaxOrders, NEW p \in Int, NEW o \in RestingOrder
  PROVE  DenseAddStatus(d, p, o) = SparseAddStatus(s, p, o)
<1>1. s.free # <<>>
  BY RoomForOne
<1> QED BY <1>1, StatusesAgree

(* and match answers with the same fills, cancels and residual. *)
LEMMA MatchAnswers ==
  ASSUME NEW d, NEW s, Paired(d, s), NEW a \in Aggressor,
         NEW r, r = DenseMatched(d, a, Turns), NEW t, t = SparseMatched(s, a, Turns)
  PROVE  <<r.left, r.trades, r.cancels, r.stopped>> = <<t.left, t.trades, t.cancels, t.stopped>>
<1>1. Same(d, s) /\ MaxOrders \in Nat
  BY PairedIs
<1>2. Turns \in Nat
  BY <1>1 DEF Turns
<1>3. Alike(r, t, OrderCount(d.queue))
  BY <1>1, <1>2, MatchedAgree
<1> QED BY <1>3 DEF Alike

(* Sides that are paired answer alike whatever they are asked. *)
LEMMA AgreementKept == StoresInv => AnswersAgree
<1> SUFFICES ASSUME StoresInv PROVE AnswersAgree
  OBVIOUS
<1>1. /\ Paired(dense, sparse) /\ Same(dense, sparse) /\ OrderCount(dense.queue) <= MaxOrders
      /\ Resting = OrderCount(dense.queue) /\ DenseWalk(dense) = SparseWalk(sparse)
  BY PairedIs DEF StoresInv, Resting, Counted
<1>2. \A p \in TriedPrice : DenseQueueAt(dense, p) = SparseQueueAt(sparse, p)
  BY <1>1, InputsAre, QueuesAgree
<1>3. ASSUME NEW a \in Taker
      PROVE  LET md == DenseMatched(dense, a, Turns)
                 ms == SparseMatched(sparse, a, Turns)
             IN <<md.left, md.trades, md.cancels, md.stopped>>
                  = <<ms.left, ms.trades, ms.cancels, ms.stopped>>
  <2>1. a \in Aggressor
    BY InputsAre
  <2> QED BY <1>1, <2>1, MatchAnswers
<1>4. ASSUME Resting < MaxOrders, NEW p \in TriedPrice, NEW o \in Entry
      PROVE  /\ DenseAddStatus(dense, p, o) = SparseAddStatus(sparse, p, o)
             /\ DenseCanAccept(dense, p, o.qty) = SparseCanAccept(sparse, p, o.qty)
  <2>1. p \in Int /\ o \in RestingOrder /\ o.qty \in 1..MaxQuantity /\ OrderCount(dense.queue) < MaxOrders
    BY <1>1, <1>4, InputsAre
  <2>2. DenseAddStatus(dense, p, o) = SparseAddStatus(sparse, p, o)
    BY <1>1, <2>1, AddAnswers
  <2>3. DenseCanAccept(dense, p, o.qty) = SparseCanAccept(sparse, p, o.qty)
    BY <1>1, <2>1, AcceptsAgree
  <2> QED BY <2>2, <2>3
<1>5. ASSUME NEW p \in Price, NEW to \in Price, NEW o \in Entry, NEW n \in DOMAIN DenseQueueAt(dense, p)
      PROVE  DenseCanReplace(dense, p, n, to, o.qty) = SparseCanReplace(sparse, p, n, to, o.qty)
  <2>1. n \in DOMAIN dense.queue[IndexOf(p)] /\ o.qty \in 1..MaxQuantity
    BY <1>1, <1>5, InputsAre, QueuedIs
  <2>2. DenseCanReplace(dense, p, n, to, o.qty) = Verdict(Fits(Remaining(dense, p, n, to), o.qty))
    BY <2>1, DenseReplaces
  <2>3. SparseCanReplace(sparse, p, n, to, o.qty) = Verdict(Fits(Remaining(dense, p, n, to), o.qty))
    BY <1>1, <2>1, SparseReplaces
  <2> QED BY <2>2, <2>3
<1>6. \A p, to \in Price, o \in Entry : \A n \in DOMAIN DenseQueueAt(dense, p) :
        DenseCanReplace(dense, p, n, to, o.qty) = SparseCanReplace(sparse, p, n, to, o.qty)
  BY <1>5
<1> QED BY <1>1, <1>2, <1>3, <1>4, <1>6 DEF AnswersAgree

(* What the residual checks of either side admit it then stores. *)
LEMMA AdmissionKept == StoresInv => AdmittedIsStored
<1> SUFFICES ASSUME StoresInv PROVE AdmittedIsStored
  OBVIOUS
<1>1. /\ Paired(dense, sparse) /\ Same(dense, sparse) /\ OrderCount(dense.queue) <= MaxOrders
      /\ Resting = OrderCount(dense.queue)
  BY PairedIs DEF StoresInv, Resting, Counted
<1>2. ASSUME Resting < MaxOrders, NEW p \in Price, NEW o \in Entry,
             SparseCanAccept(sparse, p, o.qty) = "Accepted"
      PROVE  SparseAddStatus(sparse, p, o) = "Accepted" /\ DenseAddStatus(dense, p, o) = "Accepted"
  <2>1. p \in Int /\ InRange(p)
    BY PriceIs
  <2>2. o \in RestingOrder /\ o.qty \in 1..MaxQuantity /\ OrderCount(dense.queue) < MaxOrders /\ o.qty # 0
    BY <1>1, <1>2, InputsAre, GridAssumption
  <2>3. Fits(dense.queue[IndexOf(p)], o.qty)
    BY <1>1, <1>2, <2>1, <2>2, AcceptsAgree DEF Verdict
  <2>4. EntryStatus(p, o) = "Accepted"
    BY <2>1, <2>2 DEF EntryStatus
  <2>5. DenseAddStatus(dense, p, o) = "Accepted"
    BY <2>3, <2>4 DEF DenseAddStatus
  <2> QED BY <1>1, <2>1, <2>2, <2>5, AddAnswers
<1>3. ASSUME NEW p \in Price, NEW to \in Price, NEW o \in Entry, NEW n \in DOMAIN DenseQueueAt(dense, p)
      PROVE  /\ DenseCanReplace(dense, p, n, to, o.qty) = "Accepted"
                  => DenseAddStatus(DenseRemoveOrder(dense, p, n), to, o) = "Accepted"
             /\ SparseCanReplace(sparse, p, n, to, o.qty) = "Accepted"
                  => SparseAddStatus(SparseRemoveOrder(sparse, p, n), to, o) = "Accepted"
  <2> DEFINE b == Fits(Remaining(dense, p, n, to), o.qty)
  <2>1. n \in DOMAIN dense.queue[IndexOf(p)] /\ o \in RestingOrder /\ o.qty \in 1..MaxQuantity
    BY <1>1, InputsAre, QueuedIs
  <2>2. /\ DenseCanReplace(dense, p, n, to, o.qty) = Verdict(b)
        /\ SparseCanReplace(sparse, p, n, to, o.qty) = Verdict(b)
    BY <1>1, <2>1, DenseReplaces, SparseReplaces
  <2>3. b => /\ DenseAddStatus(DenseRemoveOrder(dense, p, n), to, o) = "Accepted"
             /\ SparseAddStatus(SparseRemoveOrder(sparse, p, n), to, o) = "Accepted"
    BY <1>1, <2>1, ReplaceKeeps
  <2>4. Verdict(b) = "Accepted" => b
    BY DEF Verdict
  <2> HIDE DEF b
  <2> QED BY <2>2, <2>3, <2>4
<1>4. \A p, to \in Price, o \in Entry : \A n \in DOMAIN DenseQueueAt(dense, p) :
             /\ DenseCanReplace(dense, p, n, to, o.qty) = "Accepted"
                  => DenseAddStatus(DenseRemoveOrder(dense, p, n), to, o) = "Accepted"
             /\ SparseCanReplace(sparse, p, n, to, o.qty) = "Accepted"
                  => SparseAddStatus(SparseRemoveOrder(sparse, p, n), to, o) = "Accepted"
  BY <1>3
<1> QED BY <1>2, <1>4 DEF AdmittedIsStored

-----------------------------------------------------------------------------
(* The structures.                                                         *)

(* The bitmap is exact. *)
LEMMA DenseStructure == ASSUME NEW d, DenseIs(d) PROVE DenseExact(d)
<1> SUFFICES ASSUME NEW i \in Index PROVE Bit(i) \in d.words[Word(i)] <=> d.queue[i] # <<>>
  BY DEF DenseExact
<1>1. i \in Nat /\ Word(i) \in Words /\ Bit(i) \in 0..(WordBits - 1)
  BY WordOfIndex
<1>2. i = Word(i) * WordBits + Bit(i)
  BY <1>1, WordAndBit
<1>3. \A w \in Words, b \in 0..(WordBits - 1) : b \in d.words[w] <=> w * WordBits + b \in Full(d.queue)
  BY DEF DenseIs, Marks
<1> DEFINE w == Word(i)
           b == Bit(i)
<1>4. b \in d.words[w] <=> w * WordBits + b \in Full(d.queue)
  BY <1>1, <1>3
<1>5. b \in d.words[w] <=> i \in Full(d.queue)
  BY <1>2, <1>4
<1> HIDE DEF w, b
<1>6. i \in Full(d.queue) <=> d.queue[i] # <<>>
  BY DEF Full
<1> QED BY <1>5, <1>6 DEF w, b

(* The list has the levels, each once, by rising price and with its place. *)
LEMMA SlotsOf ==
  ASSUME NEW s, SparseShape(s)
  PROVE  /\ s.sorted \in Seq(Slot) /\ DOMAIN s.sorted = 1..Len(s.sorted) /\ Len(s.sorted) \in Nat
         /\ Range(s.sorted) = Used(s)
         /\ \A m, n \in 1..Len(s.sorted) : s.sorted[m] = s.sorted[n] => m = n
         /\ \A m, n \in 1..Len(s.sorted) : m < n => s.price[s.sorted[m]] < s.price[s.sorted[n]]
         /\ \A n \in 1..Len(s.sorted) : s.sorted[n] \in Used(s) /\ s.position[s.sorted[n]] = n - 1
         /\ \A x \in Used(s) : \E n \in 1..Len(s.sorted) : s.sorted[n] = x
         /\ \A x \in Slot \ Used(s) : s.position[x] = NoSlot
<1> DEFINE q == s.sorted
           L == Len(s.sorted)
<1>1. Listed(s.price, q, s.position, Used(s))
  BY DEF SparseShape
<1>2. Rises(s.price, q)
  BY <1>1 DEF Listed
<1>3. \A m, n \in 1..L : q[m] = q[n] => m = n
  BY <1>2, RisingOnce
<1>4. q \in Seq(Slot) /\ \A m, n \in 1..L : m < n => s.price[q[m]] < s.price[q[n]]
  BY <1>2 DEF Rises
<1>5. DOMAIN q = 1..L /\ L \in Nat
  BY <1>4
<1>6. /\ \A x \in Used(s) : \E n \in 1..L : q[n] = x
      /\ \A n \in 1..L : q[n] \in Used(s) /\ s.position[q[n]] = n - 1
      /\ \A x \in Slot \ Used(s) : s.position[x] = NoSlot
  BY <1>1 DEF Listed
<1>7. Range(q) = Used(s)
  BY <1>5, <1>6 DEF Range
<1> QED BY <1>3, <1>4, <1>5, <1>6, <1>7

(* Every slot is a level or free, and the list, the stack and the          *)
(* positions say the same.                                                 *)
LEMMA Partitioned == ASSUME NEW s, SparseShape(s) PROVE SlotsArePartitioned(s)
<1>1. /\ DOMAIN s.sorted = 1..Len(s.sorted)
      /\ Range(s.sorted) = Used(s)
      /\ \A m, n \in 1..Len(s.sorted) : s.sorted[m] = s.sorted[n] => m = n
  BY SlotsOf
<1>2. IsInjective(s.sorted)
  BY <1>1 DEF IsInjective
<1> DEFINE free == s.free
<1>3. /\ free \in Seq(Slot) /\ Used(s) \subseteq Slot
      /\ \A m, n \in 1..Len(free) : free[m] = free[n] => m = n
      /\ \A x \in Slot : x \notin Used(s) <=> \E n \in 1..Len(free) : free[n] = x
  BY DEF SparseShape, Stacked
<1> HIDE DEF free
<1>4. DOMAIN free = 1..Len(free) /\ \A n \in 1..Len(free) : free[n] \in Slot
  BY <1>3, ElementOfSeq
<1>5. IsInjective(free)
  BY <1>3, <1>4 DEF IsInjective
<1>6. Range(free) = Slot \ Used(s)
  BY <1>3, <1>4 DEF Range
<1>7. Used(s) = {x \in Slot : s.price[x] # NoPrice}
  BY DEF Used
<1> QED BY <1>1, <1>2, <1>3, <1>5, <1>6, <1>7 DEF SlotsArePartitioned, free

(* The list is in the order of prices and the best slot at its end. *)
LEMMA Sorted == ASSUME NEW s, SparseShape(s) PROVE SortedByPrice(s)
<1> DEFINE q == s.sorted
           L == Len(s.sorted)
<1>1. /\ DOMAIN q = 1..L /\ L \in Nat
      /\ \A m, n \in 1..L : q[m] = q[n] => m = n
      /\ \A m, n \in 1..L : m < n => s.price[q[m]] < s.price[q[n]]
      /\ \A n \in 1..L : q[n] \in Used(s) /\ s.position[q[n]] = n - 1
      /\ \A x \in Used(s) : \E n \in 1..L : q[n] = x
      /\ \A x \in Slot \ Used(s) : s.position[x] = NoSlot
  BY SlotsOf
<1> HIDE DEF q, L
<1>2. \A m, n \in DOMAIN q : m < n => s.price[q[m]] < s.price[q[n]]
  BY <1>1
<1>3. ASSUME NEW x \in Slot
      PROVE  s.position[x] = IF s.price[x] = NoPrice THEN NoSlot ELSE CHOOSE n \in 0..(L - 1) : q[n + 1] = x
  <2>1. CASE s.price[x] = NoPrice
    BY <1>1, <2>1 DEF Used
  <2>2. CASE s.price[x] # NoPrice
    <3>1. x \in Used(s)
      BY <2>2 DEF Used
    <3>2. PICK k \in 1..L : q[k] = x
      BY <1>1, <3>1
    <3> DEFINE c == CHOOSE n \in 0..(L - 1) : q[n + 1] = x
    <3>3. k - 1 \in 0..(L - 1) /\ (k - 1) + 1 = k
      BY <1>1
    <3>4. \E n \in 0..(L - 1) : q[n + 1] = x
      BY <3>2, <3>3
    <3>5. c \in 0..(L - 1) /\ q[c + 1] = x
      BY <3>4
    <3> HIDE DEF c
    <3>6. c + 1 \in 1..L
      BY <1>1, <3>5
    <3>7. c + 1 = k
      BY <1>1, <3>2, <3>5, <3>6
    <3>8. s.position[x] = k - 1
      BY <1>1, <3>2
    <3>9. s.position[x] = c
      BY <3>5, <3>7, <3>8
    <3> QED BY <2>2, <3>9 DEF c
  <2> QED BY <2>1, <2>2
<1> QED BY <1>2, <1>3 DEF SortedByPrice, Count, q, L

(* The map finds each level. *)
LEMMA Found == ASSUME NEW d, NEW s, Same(d, s) PROVE MapFindsEachLevel(s)
<1>1. SparseShape(s) /\ Used(s) \in SUBSET Slot
  BY SameIs
<1>2. Range(s.sorted) = Used(s)
  BY <1>1, SlotsOf
<1>3. \A x \in Used(s) : FindSlot(s, s.price[x]) = x
  BY LevelsAgree DEF At
<1>4. MapIs(s.table, s.hash, Used(s), s.price)
      /\ s.size = Cardinality(Taken(s.table)) /\ s.tombs = Cardinality(Spent(s.table))
  BY <1>1 DEF SparseShape, Mapped
<1>5. Cardinality(Taken(s.table)) = Cardinality(Used(s))
  BY <1>1, <1>4, MapHasRoom
<1>6. Len(s.sorted) = Cardinality(Used(s))
  BY SlotsCounted
<1>7. s.size = Count(s)
  BY <1>4, <1>5, <1>6 DEF Count
<1> QED BY <1>2, <1>3, <1>4, <1>7 DEF MapFindsEachLevel, Taken, Spent

(* Sides that are paired have exact structures. *)
LEMMA StructuresKept == StoresInv => StructuresAreExact
<1> SUFFICES ASSUME StoresInv PROVE StructuresAreExact
  OBVIOUS
<1> DEFINE d == dense
           s == sparse
<1>1. Same(d, s)
  BY PairedIs DEF StoresInv
<1> HIDE DEF d, s
<1>2. DenseIs(d) /\ SparseShape(s) /\ \A y \in Slot : s.queue[y] # <<>> <=> y \in Used(s)
  BY <1>1, SameIs
<1>3. DenseExact(d)
  BY <1>2, DenseStructure
<1>4. SlotsArePartitioned(s)
  BY <1>2, Partitioned
<1>5. SortedByPrice(s)
  BY <1>2, Sorted
<1>6. MapFindsEachLevel(s)
  BY <1>1, Found
<1>7. \A x \in Range(s.sorted) : s.queue[x] # <<>>
  <2>1. Range(s.sorted) = Used(s)
    BY <1>2, SlotsOf
  <2>2. Used(s) \in SUBSET Slot
    BY <1>1, SameIs
  <2> QED BY <1>2, <2>1, <2>2
<1>8. SparseExact(s)
  BY <1>4, <1>5, <1>6, <1>7 DEF SparseExact
<1> QED BY <1>3, <1>8 DEF StructuresAreExact, d, s

-----------------------------------------------------------------------------
(* What holds of every state.                                              *)

(* The inductive invariant holds after any calls, for every grid of        *)
(* prices, word size, map capacity, hash function and width of quantities. *)
THEOREM StoresHold == Spec => []StoresInv
<1> QED BY StoresStart, StoresStep, PTL DEF Spec

(* After any calls the bitmap and the cached best index of the dense side, *)
(* the slots, the sorted list and the price map of the sparse side are     *)
(* exact: no level is lost, listed twice, out of place or hidden behind a  *)
(* tombstone.                                                              *)
THEOREM StructuresHold == Spec => []StructuresAreExact
<1> QED BY StoresHold, StructuresKept, PTL

(* Given the same calls the dense and the sparse side answer every         *)
(* question alike: levels, depth, best quote, preflight, residual checks,  *)
(* status of an addition and outcome of a match.                           *)
THEOREM AnswersHold == Spec => []AnswersAgree
<1> QED BY StoresHold, AgreementKept, PTL

(* An order that the residual checks admit, in particular as a replacement *)
(* when every level slot is taken, is stored.                              *)
THEOREM AdmissionHolds == Spec => []AdmittedIsStored
<1> QED BY StoresHold, AdmissionKept, PTL

=============================================================================
