---------------------------- MODULE EngineProofs ----------------------------
(***************************************************************************)
(* What MatchingEngine.dispatch does to an engine, for every value of the  *)
(* constants: any capacities, widths, sets of instruments and books. The   *)
(* lookup of an instrument is a table of open addressing that no removal   *)
(* ever disturbs, so it finds exactly the instruments the engine was       *)
(* constructed with; a command finds its instrument's book, runs add,      *)
(* market, cancel, reduce, modify or replace on it and leaves a sound one; *)
(* and engines that hold the same books answer a command alike, with the   *)
(* same record, whatever else differs between them. BookProofs says what   *)
(* the parts of a command do to a book.                                    *)
(***************************************************************************)
EXTENDS Recovery, BookProofs

-----------------------------------------------------------------------------
(* The constructor and the lookup table (ProductRouter)                    *)

(* What an engine holds for one instrument, and the engine.                *)
HeldType ==
  [book: BookType, initial: [OrderId -> 0..MaxQuantity], partly: SUBSET OrderId,
   events: Nat, feed: Nat]

(* An engine.                                                              *)
EngineType ==
  [valid: BOOLEAN, ids: Seq(Instrument), held: Seq(HeldType), lookup: [Cell -> Nat]]

(* Nothing is held for an instrument at first.                             *)
LEMMA EmptyHeldTyped == EmptyHeld \in HeldType
<1>1. EmptyBook \in BookType
  BY EmptyBookKept DEF Kept, Sound
<1> QED
  BY <1>1, WidthAssumption DEF EmptyHeld, HeldType

(* Index k is found: no empty cell is probed before its own.               *)
Reaches(ids, lookup, k) ==
  \E n \in 1..LookupCapacity :
    /\ lookup[Probes(ids[k])[n]] = k
    /\ \A m \in 1..(n - 1) : lookup[Probes(ids[k])[m]] # 0

(* The lookup table of e leads to each instrument of e.                    *)
Routed(e) ==
  /\ e \in EngineType
  /\ Len(e.held) = Len(e.ids)
  /\ e.lookup \in [Cell -> 0..Len(e.ids)]
  /\ \A k, n \in DOMAIN e.ids : e.ids[k] = e.ids[n] => k = n
  /\ \A c, d \in Cell : e.lookup[c] = e.lookup[d] /\ e.lookup[c] # 0 => c = d
  /\ \A k \in DOMAIN e.ids : Reaches(e.ids, e.lookup, k)
  /\ ~e.valid => e.ids = <<>>

(* A remainder is known by its quotient.                                   *)
LEMMA RemainderIs ==
  ASSUME NEW n \in Nat \ {0}, NEW q \in Int, NEW c \in 0..(n - 1), NEW a, a = n * q + c
  PROVE  a % n = c
<1>1. a \in Int
  OBVIOUS
<1>2. PICK t \in Int : a = n * t + (a % n) /\ a % n \in 0..(n - 1)
  <2>1. a = n * (a \div n) + (a % n) /\ a % n \in 0..(n - 1) /\ (a \div n) \in Int
    BY <1>1
  <2> QED BY <2>1
<1>3. n * (t - q) = c - (a % n)
  BY <1>1, <1>2
<1>4. t = q
  <2>1. CASE t >= q + 1
    <3>1. n * (t - q) >= n
      BY <2>1
    <3> QED BY <3>1, <1>2, <1>3
  <2>2. CASE t <= q - 1
    <3>1. n * (t - q) <= -n
      BY <2>2
    <3> QED BY <3>1, <1>2, <1>3
  <2> QED BY <2>1, <2>2
<1> QED
  BY <1>2, <1>4

(* Division with remainder.                                                *)
LEMMA DivisionIs ==
  ASSUME NEW n \in Nat \ {0}, NEW a \in Int
  PROVE  a \div n \in Int /\ a % n \in 0..(n - 1) /\ a = n * (a \div n) + (a % n)
  OBVIOUS

(* The probes of an instrument reach every cell.                           *)
LEMMA ProbesReach ==
  ASSUME NEW i \in Instrument, LookupCapacity > 0, NEW c \in Cell
  PROVE  \E n \in 1..LookupCapacity : Probes(i)[n] = c
<1>1. LookupCapacity \in Nat \ {0} /\ Hash[i] \in Nat
  BY InstrumentAssumption
<1> DEFINE r == Hash[i] % LookupCapacity
           q == Hash[i] \div LookupCapacity
<1>2. q \in Int /\ r \in 0..(LookupCapacity - 1) /\ Hash[i] = LookupCapacity * q + r
  <2>1. Hash[i] \in Int
    BY <1>1
  <2> QED BY <1>1, <2>1, DivisionIs, Zenon
<1> HIDE DEF q, r
<1>3. c \in 0..(LookupCapacity - 1)
  BY DEF Cell
<1>4. CASE c >= r
  <2>1. Hash[i] + (c - r + 1) - 1 = LookupCapacity * q + c
    BY <1>1, <1>2, <1>3
  <2>2. (Hash[i] + (c - r + 1) - 1) % LookupCapacity = c
    BY <1>1, <1>2, <1>3, <2>1, RemainderIs
  <2>3. c - r + 1 \in 1..LookupCapacity
    BY <1>1, <1>2, <1>3, <1>4
  <2>4. Probes(i)[c - r + 1] = (Hash[i] + (c - r + 1) - 1) % LookupCapacity
    BY <2>3, Zenon DEF Probes
  <2> QED BY <2>2, <2>3, <2>4
<1>5. CASE c < r
  <2>1. Hash[i] + (c - r + LookupCapacity + 1) - 1 = LookupCapacity * (q + 1) + c
    BY <1>1, <1>2, <1>3
  <2>2. (Hash[i] + (c - r + LookupCapacity + 1) - 1) % LookupCapacity = c
    <3> DEFINE t == q + 1
               a == Hash[i] + (c - r + LookupCapacity + 1) - 1
    <3>1. t \in Int /\ a = LookupCapacity * t + c
      BY <1>2, <2>1
    <3> HIDE DEF t, a
    <3>2. a % LookupCapacity = c
      BY <1>1, <1>3, <3>1, RemainderIs
    <3> QED BY <3>2 DEF a
  <2>3. c - r + LookupCapacity + 1 \in 1..LookupCapacity
    BY <1>1, <1>2, <1>3, <1>5
  <2>4. Probes(i)[c - r + LookupCapacity + 1]
          = (Hash[i] + (c - r + LookupCapacity + 1) - 1) % LookupCapacity
    BY <2>3, Zenon DEF Probes
  <2> QED BY <2>2, <2>3, <2>4
<1> QED
  BY <1>2, <1>3, <1>4, <1>5

(* A probe is a cell.                                                      *)
LEMMA ProbesAreCells ==
  ASSUME NEW i \in Instrument, NEW n \in 1..LookupCapacity
  PROVE  Probes(i)[n] \in Cell
<1>1. LookupCapacity \in Nat \ {0} /\ Hash[i] \in Nat
  BY InstrumentAssumption
<1>2. (Hash[i] + n - 1) % LookupCapacity \in 0..(LookupCapacity - 1)
  BY <1>1
<1> QED
  BY <1>2 DEF Probes, Cell

(* A table with fewer instruments than cells has room for another one.     *)
LEMMA FreeProbe ==
  ASSUME NEW e, Routed(e), Len(e.ids) < LookupCapacity, NEW i \in Instrument
  PROVE  \E n \in 1..LookupCapacity :
           /\ e.lookup[Probes(i)[n]] = 0
           /\ \A m \in 1..(n - 1) : e.lookup[Probes(i)[m]] # 0
<1>1. /\ LookupCapacity \in Nat /\ Len(e.ids) \in Nat
      /\ e.lookup \in [Cell -> 0..Len(e.ids)]
      /\ \A c, d \in Cell : e.lookup[c] = e.lookup[d] /\ e.lookup[c] # 0 => c = d
  BY InstrumentAssumption, LenProperties DEF Routed, EngineType
<1>2. PICK c \in Cell : e.lookup[c] = 0
  <2>1. SUFFICES ASSUME \A c \in Cell : e.lookup[c] # 0 PROVE FALSE
    OBVIOUS
  <2>2. e.lookup \in [Cell -> 1..Len(e.ids)]
    BY <1>1, <2>1
  <2>3. /\ IsFiniteSet(Cell) /\ Cardinality(Cell) = LookupCapacity
        /\ IsFiniteSet(1..Len(e.ids)) /\ Cardinality(1..Len(e.ids)) = Len(e.ids)
    <3> DEFINE z == LookupCapacity - 1
               l == Len(e.ids)
    <3>1. z \in Int /\ l \in Int /\ 0 \in Int /\ 1 \in Int /\ z >= 0 /\ l >= 0
      BY <1>1
    <3>2. z + 1 = LookupCapacity /\ Cell = 0..z
      BY <1>1 DEF Cell
    <3> HIDE DEF z, l
    <3>3. IsFiniteSet(0..z) /\ Cardinality(0..z) = IF 0 > z THEN 0 ELSE z - 0 + 1
      BY <3>1, FS_Interval
    <3>4. IsFiniteSet(1..l) /\ Cardinality(1..l) = IF 1 > l THEN 0 ELSE l - 1 + 1
      BY <3>1, FS_Interval
    <3>5. Cardinality(0..z) = z + 1 /\ Cardinality(1..l) = l
      BY <3>1, <3>3, <3>4
    <3> QED BY <3>2, <3>3, <3>4, <3>5 DEF l
  <2>4. \E c, d \in Cell : c # d /\ e.lookup[c] = e.lookup[d]
    BY <2>2, <2>3, FS_PigeonHole
  <2> QED BY <1>1, <2>1, <2>4
<1> DEFINE T == {n \in 1..LookupCapacity : e.lookup[Probes(i)[n]] = 0}
<1>3. T # {}
  BY <1>1, <1>2, ProbesReach
<1>4. T \in SUBSET Nat
  OBVIOUS
<1>5. PICK n \in T : \A m \in T : n <= m
  <2> HIDE DEF T
  <2> QED BY <1>3, <1>4, LeastNat
<1>6. \A m \in 1..(n - 1) : e.lookup[Probes(i)[m]] # 0
  <2>1. \A m \in 1..(n - 1) : m \in 1..LookupCapacity /\ ~(n <= m)
    BY <1>1
  <2> QED BY <1>5, <2>1
<1> QED
  BY <1>6

(* insert_instrument leads to one instrument more.                         *)
LEMMA InsertedRouted ==
  ASSUME NEW e, Routed(e), e.valid, Len(e.ids) < LookupCapacity,
         NEW i \in Instrument, \A k \in DOMAIN e.ids : e.ids[k] # i,
         NEW f, f = Inserted(e, i)
  PROVE  /\ Routed(f) /\ f.valid
         /\ f.ids = Append(e.ids, i) /\ f.held = Append(e.held, EmptyHeld)
<1> DEFINE free == CHOOSE n \in 1..LookupCapacity :
                     /\ e.lookup[Probes(i)[n]] = 0
                     /\ \A m \in 1..(n - 1) : e.lookup[Probes(i)[m]] # 0
           c == Probes(i)[free]
           z == Len(e.ids) + 1
<1>1. /\ free \in 1..LookupCapacity /\ e.lookup[Probes(i)[free]] = 0
      /\ \A m \in 1..(free - 1) : e.lookup[Probes(i)[m]] # 0
  BY FreeProbe
<1>2. f = [e EXCEPT !.ids = Append(@, i), !.held = Append(@, EmptyHeld), !.lookup[c] = z]
  BY DEF Inserted
<1> HIDE DEF free
<1>3. c \in Cell
  BY <1>1, ProbesAreCells
<1> HIDE DEF c
<1>4. /\ e \in EngineType /\ e.ids \in Seq(Instrument) /\ e.held \in Seq(HeldType)
      /\ e.valid \in BOOLEAN
      /\ Len(e.held) = Len(e.ids) /\ Len(e.ids) \in Nat
      /\ e.lookup \in [Cell -> 0..Len(e.ids)]
      /\ \A k, n \in DOMAIN e.ids : e.ids[k] = e.ids[n] => k = n
      /\ \A a, b \in Cell : e.lookup[a] = e.lookup[b] /\ e.lookup[a] # 0 => a = b
      /\ \A k \in DOMAIN e.ids : Reaches(e.ids, e.lookup, k)
  BY LenProperties DEF Routed, EngineType
<1>5. /\ f.ids = Append(e.ids, i) /\ f.held = Append(e.held, EmptyHeld)
      /\ f.lookup = [e.lookup EXCEPT ![c] = z] /\ f.valid = e.valid
  BY <1>2, <1>4 DEF EngineType
<1>6. /\ f.ids \in Seq(Instrument) /\ f.held \in Seq(HeldType)
      /\ Len(f.ids) = z /\ Len(f.held) = z
      /\ DOMAIN f.ids = 1..z /\ DOMAIN e.ids = 1..(z - 1)
      /\ \A k \in 1..(z - 1) : f.ids[k] = e.ids[k]
      /\ f.ids[z] = i
  BY <1>4, <1>5, EmptyHeldTyped, AppendProperties, LenProperties
<1>7. /\ f.lookup \in [Cell -> 0..z]
      /\ f.lookup[c] = z /\ e.lookup[c] = 0
      /\ \A d \in Cell : d # c => f.lookup[d] = e.lookup[d]
      /\ \A d \in Cell : e.lookup[d] \in 0..(z - 1)
  BY <1>1, <1>3, <1>4, <1>5 DEF c
<1>8. f \in EngineType
  <2>1. f.lookup \in [Cell -> Nat]
    BY <1>4, <1>7
  <2>2. f = [valid |-> f.valid, ids |-> f.ids, held |-> f.held, lookup |-> f.lookup]
    BY <1>2, <1>4 DEF EngineType
  <2> QED BY <1>4, <1>5, <1>6, <2>1, <2>2 DEF EngineType
<1>9. \A k, n \in DOMAIN f.ids : f.ids[k] = f.ids[n] => k = n
  <2> TAKE k, n \in DOMAIN f.ids
  <2>1. k \in 1..(z - 1) \/ k = z
    BY <1>4, <1>6
  <2>2. n \in 1..(z - 1) \/ n = z
    BY <1>4, <1>6
  <2> QED BY <2>1, <2>2, <1>4, <1>6
<1>10. \A a, b \in Cell : f.lookup[a] = f.lookup[b] /\ f.lookup[a] # 0 => a = b
  <2>1. \A d \in Cell : d # c => f.lookup[d] # z
    BY <1>4, <1>7
  <2> QED BY <2>1, <1>4, <1>7
<1>11. \A k \in DOMAIN f.ids : Reaches(f.ids, f.lookup, k)
  <2> TAKE k \in DOMAIN f.ids
  <2>1. CASE k = z
    <3>1. f.lookup[Probes(f.ids[k])[free]] = k
      BY <2>1, <1>6, <1>7 DEF c
    <3>2. \A m \in 1..(free - 1) : f.lookup[Probes(f.ids[k])[m]] # 0
      <4> TAKE m \in 1..(free - 1)
      <4>1. m \in 1..LookupCapacity
        BY <1>1, InstrumentAssumption
      <4>2. Probes(i)[m] \in Cell /\ e.lookup[Probes(i)[m]] # 0
        BY <1>1, <4>1, ProbesAreCells
      <4>3. f.lookup[Probes(i)[m]] # 0
        BY <4>2, <1>4, <1>7
      <4> QED BY <4>3, <2>1, <1>6
    <3> QED BY <1>1, <3>1, <3>2 DEF Reaches
  <2>2. CASE k # z
    <3>1. k \in 1..(z - 1) /\ f.ids[k] = e.ids[k] /\ e.ids[k] \in Instrument
      BY <2>2, <1>4, <1>6
    <3>2. PICK n \in 1..LookupCapacity :
            /\ e.lookup[Probes(e.ids[k])[n]] = k
            /\ \A m \in 1..(n - 1) : e.lookup[Probes(e.ids[k])[m]] # 0
      BY <3>1, <1>4, <1>6 DEF Reaches
    <3>3. \A m \in 1..LookupCapacity : Probes(e.ids[k])[m] \in Cell
      BY <3>1, ProbesAreCells
    <3>4. f.lookup[Probes(f.ids[k])[n]] = k
      BY <3>1, <3>2, <3>3, <1>7
    <3>5. \A m \in 1..(n - 1) : f.lookup[Probes(f.ids[k])[m]] # 0
      <4> TAKE m \in 1..(n - 1)
      <4>1. m \in 1..LookupCapacity
        BY InstrumentAssumption
      <4>2. Probes(e.ids[k])[m] \in Cell /\ e.lookup[Probes(e.ids[k])[m]] # 0
        BY <4>1, <3>2, <3>3
      <4>3. f.lookup[Probes(e.ids[k])[m]] # 0
        BY <4>2, <1>4, <1>7
      <4> QED BY <4>3, <3>1
    <3> QED BY <3>4, <3>5 DEF Reaches
  <2> QED BY <2>1, <2>2
<1> QED
  BY <1>5, <1>6, <1>7, <1>8, <1>9, <1>10, <1>11 DEF Routed

(* What FoldLeft iterates in Constructed.                                  *)
Inserts(g, start, n, q) ==
  g = [T \in SUBSET (1..n) |->
         IF T = {} THEN start ELSE Inserted(g[T \ {Max(T)}], q[Max(T)])]

(* The loop stays in V, and goes from each F[k - 1] to F[k].               *)
InsertsIn(V, n, q) ==
  \A k \in 1..n, x \in V : Inserted(x, q[k]) \in V
InsertsSteps(F, n, q) ==
  \A k \in 1..n : F[k] = Inserted(F[k - 1], q[k])

(* It goes through the instruments one after another.                      *)
LEMMA InsertsRun ==
  ASSUME NEW n \in Nat, NEW q, NEW V, NEW start \in V,
         InsertsIn(V, n, q)
  PROVE  \E F : /\ F \in [0..n -> V] /\ F[0] = start
               /\ InsertsSteps(F, n, q)
               /\ F[n] = (CHOOSE g : Inserts(g, start, n, q))[1..n]
<1> DEFINE step == [k \in 1..n |-> [x \in V |-> Inserted(x, q[k])]]
           iter == CHOOSE g : Inserts(g, start, n, q)
<1>1. IsStep(step, n, V)
  BY DEF IsStep, InsertsIn
<1>2. \A k \in 1..n, x \in V : step[k][x] = Inserted(x, q[k])
  OBVIOUS
<1> HIDE DEF step
<1>4. PICK g \in [SUBSET (1..n) -> V] : FoldsUp(g, n, V, start, step)
  BY <1>1, FoldExists, Zenon
<1>5. Inserts(g, start, n, q)
  <2>1. ASSUME NEW T \in SUBSET (1..n)
        PROVE  g[T] = IF T = {} THEN start ELSE Inserted(g[T \ {Max(T)}], q[Max(T)])
    <3>1. CASE T # {}
      <4>1. Max(T) \in 1..n
        BY <3>1, MaxOfPart
      <4>2. T \ {Max(T)} \in SUBSET (1..n)
        OBVIOUS
      <4>3. g[T \ {Max(T)}] \in V
        BY <4>2
      <4>4. g[T] = step[Max(T)][g[T \ {Max(T)}]]
        BY <1>4, <3>1, <4>3, Zenon DEF FoldsUp
      <4>5. step[Max(T)][g[T \ {Max(T)}]] = Inserted(g[T \ {Max(T)}], q[Max(T)])
        BY <1>2, <4>1, <4>3, Zenon
      <4> QED BY <3>1, <4>4, <4>5
    <3>2. CASE T = {}
      BY <3>2, <1>4 DEF FoldsUp
    <3> QED BY <3>1, <3>2
  <2> QED BY <2>1 DEF Inserts
<1>6. Inserts(iter, start, n, q)
  BY <1>5, Zenon
<1>7. \A T \in SUBSET (1..n) :
        iter[T] = IF T = {} THEN start ELSE Inserted(iter[T \ {Max(T)}], q[Max(T)])
  <2> HIDE DEF iter
  <2> QED BY <1>6 DEF Inserts
<1> HIDE DEF iter
<1>8. FoldsUp(iter, n, V, start, step)
  <2>1. \A T \in SUBSET (1..n) : T # {} => Max(T) \in 1..n
    BY MaxOfPart
  <2>2. \A T \in SUBSET (1..n) :
          T # {} /\ iter[T \ {Max(T)}] \in V
            => iter[T] = step[Max(T)][iter[T \ {Max(T)}]]
    <3> TAKE T \in SUBSET (1..n)
    <3> HAVE T # {} /\ iter[T \ {Max(T)}] \in V
    <3>1. iter[T] = Inserted(iter[T \ {Max(T)}], q[Max(T)])
      BY <1>7
    <3>2. Max(T) \in 1..n
      BY <2>1
    <3>3. step[Max(T)][iter[T \ {Max(T)}]] = Inserted(iter[T \ {Max(T)}], q[Max(T)])
      BY <1>2, <3>2, Zenon
    <3> QED BY <3>1, <3>3
  <2>3. iter[{}] = start
    BY <1>7
  <2> QED BY <2>2, <2>3 DEF FoldsUp
<1>9. PICK F : Steps(F, n, V, start, step) /\ iter[1..n] = F[n]
  BY <1>1, <1>8, FoldPrefixes
<1>10. F \in [0..n -> V] /\ F[0] = start /\ \A k \in 1..n : F[k] = step[k][F[k - 1]]
  BY <1>9 DEF Steps
<1>11. \A k \in 1..n : F[k] = Inserted(F[k - 1], q[k])
  <2> TAKE k \in 1..n
  <2>1. k - 1 \in 0..n
    OBVIOUS
  <2>2. F[k - 1] \in V
    BY <1>10, <2>1
  <2>3. step[k][F[k - 1]] = Inserted(F[k - 1], q[k])
    BY <1>2, <2>2, Zenon
  <2> QED BY <2>3, <1>10
<1> QED
  BY <1>9, <1>10, <1>11 DEF iter, InsertsSteps

(* An engine that holds an empty book for each instrument of a list.       *)
IsNew(e, ids) ==
  /\ Routed(e) /\ e.valid /\ e.ids = ids
  /\ \A k \in DOMAIN e.held : e.held[k] = EmptyHeld

(* What fail_initialization leaves of any engine: nothing.                 *)
FailedEngine ==
  [valid |-> FALSE, ids |-> <<>>, held |-> <<>>, lookup |-> [c \in Cell |-> 0]]

LEMMA FailLeavesNothing ==
  ASSUME NEW e \in EngineType
  PROVE  FailInitialization(e) = FailedEngine
<1> DEFINE none == <<>>
           cells == [c \in Cell |-> 0]
<1>1. /\ FailInitialization(e)
           = [e EXCEPT !.valid = FALSE, !.ids = none, !.held = none, !.lookup = cells]
      /\ FailedEngine = [valid |-> FALSE, ids |-> none, held |-> none, lookup |-> cells]
  BY DEF FailInitialization, FailedEngine
<1> HIDE DEF none, cells
<1>2. none \in Seq(Instrument) /\ none \in Seq(HeldType) /\ cells \in [Cell -> Nat]
  <2>1. <<>> \in Seq(Instrument) /\ <<>> \in Seq(HeldType)
    BY EmptySeq
  <2> QED BY <2>1 DEF none, cells
<1> DEFINE f == [e EXCEPT !.valid = FALSE, !.ids = none, !.held = none, !.lookup = cells]
           g == [valid |-> FALSE, ids |-> none, held |-> none, lookup |-> cells]
<1>3. f \in EngineType /\ ~f.valid /\ f.ids = none /\ f.held = none /\ f.lookup = cells
  BY <1>2 DEF EngineType
<1>4. g \in EngineType /\ ~g.valid /\ g.ids = none /\ g.held = none /\ g.lookup = cells
  BY <1>2 DEF EngineType
<1> HIDE DEF f, g
<1>5. f = [valid |-> f.valid, ids |-> f.ids, held |-> f.held, lookup |-> f.lookup]
      /\ g = [valid |-> g.valid, ids |-> g.ids, held |-> g.held, lookup |-> g.lookup]
  BY <1>3, <1>4 DEF EngineType
<1>6. f.valid = g.valid
  BY <1>3, <1>4 DEF EngineType
<1>7. f = g
  BY <1>3, <1>4, <1>5, <1>6
<1> QED
  BY <1>1, <1>7 DEF f, g

(* Nothing can be found in an engine that has failed.                      *)
LEMMA FailedRouted == Routed(FailedEngine) /\ FailedEngine.ids = <<>> /\ FailedEngine.held = <<>>
<1> DEFINE none == <<>>
           cells == [c \in Cell |-> 0]
<1>1. none \in Seq(Instrument) /\ none \in Seq(HeldType) /\ Len(none) = 0 /\ DOMAIN none = {}
  BY EmptySeq
<1>2. cells \in [Cell -> Nat] /\ cells \in [Cell -> 0..0] /\ \A c \in Cell : cells[c] = 0
  OBVIOUS
<1>3. FailedEngine = [valid |-> FALSE, ids |-> none, held |-> none, lookup |-> cells]
  BY DEF FailedEngine
<1> HIDE DEF none, cells
<1>4. /\ FailedEngine.ids = none /\ FailedEngine.held = none /\ FailedEngine.lookup = cells
      /\ FailedEngine \in EngineType
  BY <1>1, <1>2, <1>3 DEF EngineType
<1>5. none = <<>>
  BY DEF none
<1> QED
  BY <1>1, <1>2, <1>4, <1>5 DEF Routed

(* Without a failure every instrument of a list is inserted.               *)
LEMMA InsertsAll ==
  ASSUME NEW ids \in Seq(Instrument), IsInjective(ids), Len(ids) <= Len(Configured),
         NEW e, e = FoldLeft(Inserted, Unbuilt, ids)
  PROVE  IsNew(e, ids)
<1> DEFINE start == Unbuilt
           n == Len(ids)
<1>1. e = FoldLeft(Inserted, start, ids)
  OBVIOUS
<1>2. n \in Nat /\ DOMAIN ids = 1..n /\ \A k \in 1..n : ids[k] \in Instrument
  BY LenProperties, ElementOfSeq
<1>3. e = (CHOOSE g : Inserts(g, start, n, ids))[1..n]
  BY <1>1, <1>2 DEF FoldLeft, MapThenFoldSet, Inserts
<1>4. /\ start \in EngineType /\ start.valid /\ start.ids = <<>> /\ start.held = <<>>
      /\ start.lookup = FailedEngine.lookup
  BY FailedRouted DEF Routed, EngineType, Unbuilt, FailedEngine
<1>5. Len(start.ids) = 0 /\ Len(start.held) = 0 /\ DOMAIN start.ids = {} /\ DOMAIN start.held = {}
  BY <1>4, EmptySeq
<1>6. Routed(start)
  BY <1>4, <1>5, FailedRouted DEF Routed
<1> HIDE DEF start
<1>7. InsertsIn(EngineType, n, ids)
  <2>1. ASSUME NEW k \in 1..n, NEW x \in EngineType PROVE Inserted(x, ids[k]) \in EngineType
    <3> DEFINE free == CHOOSE j \in 1..LookupCapacity :
                         /\ x.lookup[Probes(ids[k])[j]] = 0
                         /\ \A j2 \in 1..(j - 1) : x.lookup[Probes(ids[k])[j2]] # 0
               c == Probes(ids[k])[free]
               z == Len(x.ids) + 1
    <3>1. Inserted(x, ids[k])
            = [x EXCEPT !.ids = Append(@, ids[k]), !.held = Append(@, EmptyHeld),
                        !.lookup[c] = z]
      BY DEF Inserted
    <3>2. /\ x.ids \in Seq(Instrument) /\ x.held \in Seq(HeldType) /\ x.lookup \in [Cell -> Nat]
          /\ x.valid \in BOOLEAN
      BY DEF EngineType
    <3>3. z \in Nat
      BY <3>2, LenProperties
    <3>4. Append(x.ids, ids[k]) \in Seq(Instrument) /\ Append(x.held, EmptyHeld) \in Seq(HeldType)
      BY <3>2, <1>2, EmptyHeldTyped, AppendProperties
    <3> HIDE DEF z, c, free
    <3>5. [x.lookup EXCEPT ![c] = z] \in [Cell -> Nat]
      BY <3>2, <3>3
    <3>6. Inserted(x, ids[k])
            = [valid |-> x.valid, ids |-> Append(x.ids, ids[k]),
               held |-> Append(x.held, EmptyHeld), lookup |-> [x.lookup EXCEPT ![c] = z]]
      BY <3>1, <3>2 DEF EngineType
    <3> QED BY <3>2, <3>4, <3>5, <3>6 DEF EngineType
  <2> QED BY <2>1 DEF InsertsIn
<1>8. PICK F : /\ F \in [0..n -> EngineType] /\ F[0] = start
               /\ InsertsSteps(F, n, ids) /\ F[n] = e
  BY <1>2, <1>3, <1>4, <1>7, InsertsRun
<1> DEFINE Upto(k) == /\ Routed(F[k]) /\ F[k].valid /\ Len(F[k].ids) = k
                      /\ \A j \in 1..k : F[k].ids[j] = ids[j]
                      /\ \A j \in 1..k : F[k].held[j] = EmptyHeld
           P == {k \in Nat : k <= n => Upto(k)}
<1>9. 0 \in P
  BY <1>4, <1>5, <1>6, <1>8
<1>10. ASSUME NEW k \in P PROVE k + 1 \in P
  <2>0. k \in Nat /\ (k <= n => Upto(k))
    OBVIOUS
  <2> HIDE DEF Upto
  <2>1. SUFFICES ASSUME k + 1 <= n PROVE Upto(k + 1)
    BY <2>0
  <2> USE DEF Upto
  <2>2. k \in Nat /\ Upto(k) /\ k + 1 \in 1..n
    BY <1>2, <2>0, <2>1
  <2>3. F[k + 1] = Inserted(F[k], ids[k + 1])
    BY <1>8, <2>2 DEF InsertsSteps
  <2>4. ids[k + 1] \in Instrument
    BY <1>2, <2>2
  <2>5. k < LookupCapacity
    <3>1. n <= Len(Configured) /\ Len(Configured) < LookupCapacity /\ Len(Configured) \in Nat
      BY CallerAssumption, LenProperties
    <3> QED BY <1>2, <2>1, <2>2, <3>1, InstrumentAssumption
  <2>6. DOMAIN F[k].ids = 1..k /\ F[k].ids \in Seq(Instrument) /\ F[k].held \in Seq(HeldType)
        /\ Len(F[k].held) = k
    BY <2>2, LenProperties DEF Routed, EngineType
  <2>7. \A j \in DOMAIN F[k].ids : F[k].ids[j] # ids[k + 1]
    <3> TAKE j \in DOMAIN F[k].ids
    <3>1. j \in 1..n /\ j # k + 1 /\ F[k].ids[j] = ids[j]
      BY <2>2, <2>6, <1>2
    <3>2. \A a, b \in DOMAIN ids : ids[a] = ids[b] => a = b
      BY DEF IsInjective
    <3> QED BY <3>1, <3>2, <2>2, <1>2
  <2> DEFINE y == F[k]
             w == F[k + 1]
             i == ids[k + 1]
  <2>8. /\ Routed(y) /\ y.valid /\ Len(y.ids) < LookupCapacity /\ i \in Instrument
        /\ \A j \in DOMAIN y.ids : y.ids[j] # i
        /\ w = Inserted(y, i)
    BY <2>2, <2>3, <2>4, <2>5, <2>7
  <2> HIDE DEF y, w, i
  <2>9. /\ Routed(w) /\ w.valid
        /\ w.ids = Append(y.ids, i) /\ w.held = Append(y.held, EmptyHeld)
    BY <2>8, InsertedRouted
  <2>10. /\ Routed(F[k + 1]) /\ F[k + 1].valid
         /\ F[k + 1].ids = Append(F[k].ids, ids[k + 1]) /\ F[k + 1].held = Append(F[k].held, EmptyHeld)
    BY <2>9 DEF y, w, i
  <2>11. /\ Len(F[k + 1].ids) = k + 1
         /\ \A j \in 1..(k + 1) : F[k + 1].ids[j] = IF j <= k THEN F[k].ids[j] ELSE ids[k + 1]
    <3>1. Len(F[k].ids) = k
      BY <2>2
    <3> QED BY <2>2, <2>4, <2>6, <2>10, <3>1, AppendProperties
  <2>12. \A j \in 1..(k + 1) : F[k + 1].held[j] = IF j <= k THEN F[k].held[j] ELSE EmptyHeld
    BY <2>2, <2>6, <2>10, EmptyHeldTyped, AppendProperties
  <2>13. \A j \in 1..(k + 1) : F[k + 1].ids[j] = ids[j]
    <3> TAKE j \in 1..(k + 1)
    <3>1. CASE j <= k
      <4>1. j \in 1..k
        BY <3>1, <2>2
      <4> QED BY <4>1, <3>1, <2>2, <2>11
    <3>2. CASE ~(j <= k)
      <4>1. j = k + 1
        BY <3>2, <2>2
      <4> QED BY <4>1, <3>2, <2>11
    <3> QED BY <3>1, <3>2
  <2>14. \A j \in 1..(k + 1) : F[k + 1].held[j] = EmptyHeld
    <3> TAKE j \in 1..(k + 1)
    <3>1. CASE j <= k
      <4>1. j \in 1..k
        BY <3>1, <2>2
      <4> QED BY <4>1, <3>1, <2>2, <2>12
    <3>2. CASE ~(j <= k)
      BY <3>2, <2>12
    <3> QED BY <3>1, <3>2
  <2> QED BY <2>10, <2>11, <2>13, <2>14
<1>11. P \in SUBSET Nat
  OBVIOUS
<1> HIDE DEF P
<1>12. n \in P
  BY <1>2, <1>9, <1>10, <1>11, Induction
<1>13. Upto(n)
  BY <1>2, <1>12 DEF P
<1>14. e.ids \in Seq(Instrument) /\ e.held \in Seq(HeldType) /\ Len(e.held) = Len(e.ids)
  BY <1>8, <1>13 DEF Routed, EngineType
<1>15. e.ids = ids
  <2>1. Len(e.ids) = Len(ids) /\ \A j \in 1..n : e.ids[j] = ids[j]
    BY <1>8, <1>13
  <2> QED BY <2>1, <1>14, SeqEqual
<1>16. DOMAIN e.held = 1..n
  BY <1>8, <1>13, <1>14, LenProperties
<1> QED BY <1>8, <1>13, <1>15, <1>16 DEF IsNew

(* The constructor makes a new engine or fails, and then however much was  *)
(* built before the failure nothing of it is left.                         *)
LEMMA ConstructedIs ==
  ASSUME NEW ids \in Seq(Instrument), NEW m, m = Len(Configured), NEW lasts \in 0..Len(ids),
         NEW e, e = Constructed(ids, m, lasts)
  PROVE  /\ Routed(e)
         /\ e = FailedEngine \/ IsNew(e, ids)
         /\ lasts = Len(ids) /\ IsConfiguration(ids, m) => IsNew(e, ids)
<1> DEFINE first == SubSeq(ids, 1, lasts)
           built == FoldLeft(Inserted, Unbuilt, first)
           n == Len(ids)
<1>1. /\ n \in Nat /\ DOMAIN ids = 1..n /\ lasts \in Nat /\ lasts <= n
      /\ \A k \in 1..n : ids[k] \in Instrument
  BY LenProperties, ElementOfSeq
<1>2. /\ first \in Seq(Instrument) /\ Len(first) = lasts /\ DOMAIN first = 1..lasts
      /\ \A k \in 1..lasts : first[k] = ids[k]
  <2>1. \A k \in 1..lasts : ids[k] \in Instrument
    BY <1>1
  <2>2. first = [k \in 1..lasts |-> ids[k]]
    BY <1>1
  <2> HIDE DEF first
  <2>3. first \in [1..lasts -> Instrument]
    BY <2>1, <2>2
  <2> QED BY <1>1, <2>2, <2>3, LenProperties
<1>3. e = IF ~IsConfiguration(ids, m) THEN FailInitialization(Unbuilt)
          ELSE IF lasts < n THEN FailInitialization(built) ELSE built
  BY DEF Constructed
<1>4. ASSUME IsConfiguration(ids, m) PROVE IsNew(built, first)
  <2>1. n <= Len(Configured) /\ \A j, k \in 1..n : ids[j] = ids[k] => j = k
    BY <1>1, <1>4 DEF IsConfiguration, IsInjective
  <2>2. IsInjective(first)
    <3>1. \A j, k \in 1..lasts : first[j] = first[k] => j = k
      <4> TAKE j, k \in 1..lasts
      <4>1. first[j] = ids[j] /\ first[k] = ids[k] /\ j \in 1..n /\ k \in 1..n
        BY <1>1, <1>2
      <4> QED BY <4>1, <2>1
    <3> QED BY <3>1, <1>2 DEF IsInjective
  <2>3. Len(first) <= Len(Configured)
    <3>1. Len(Configured) \in Nat
      BY CallerAssumption, LenProperties
    <3> QED BY <3>1, <2>1, <1>1, <1>2
  <2> HIDE DEF first
  <2> QED BY <1>2, <2>2, <2>3, InsertsAll
<1> HIDE DEF first, built
<1>5. Unbuilt \in EngineType
  BY FailedRouted DEF Routed, EngineType, Unbuilt, FailedEngine
<1>6. ASSUME ~IsConfiguration(ids, m) \/ lasts < n PROVE e = FailedEngine
  <2>1. CASE ~IsConfiguration(ids, m)
    BY <2>1, <1>3, <1>5, FailLeavesNothing
  <2>2. CASE IsConfiguration(ids, m) /\ lasts < n
    <3>1. built \in EngineType
      BY <2>2, <1>4 DEF IsNew, Routed
    <3> QED BY <3>1, <2>2, <1>3, FailLeavesNothing
  <2> QED BY <1>6, <2>1, <2>2
<1>7. ASSUME IsConfiguration(ids, m), lasts = n PROVE IsNew(e, ids)
  <2>1. first = ids
    <3>1. Len(first) = Len(ids) /\ \A j \in 1..n : first[j] = ids[j]
      BY <1>2, <1>7
    <3> QED BY <3>1, <1>2, SeqEqual
  <2>2. e = built
    BY <1>1, <1>3, <1>7
  <2>3. IsNew(built, first)
    BY <1>4, <1>7
  <2> QED BY <2>1, <2>2, <2>3
<1>8. ~(lasts < n) => lasts = n
  <2>1. n \in Nat /\ lasts \in Nat /\ lasts <= n
    BY <1>1
  <2> HIDE DEF n
  <2> QED BY <2>1
<1>9. e = FailedEngine \/ IsNew(e, ids)
  BY <1>6, <1>7, <1>8
<1>10. Routed(e)
  BY <1>9, FailedRouted DEF IsNew
<1> QED
  BY <1>7, <1>9, <1>10

(* The lookup finds what is there.                                         *)
LEMMA LookupFinds ==
  ASSUME NEW e, Routed(e), NEW k \in DOMAIN e.ids
  PROVE  LookupIndex(e, e.ids[k]) = k
<1> DEFINE i == e.ids[k]
           at(n) == e.lookup[Probes(i)[n]]
           stops == {n \in 1..LookupCapacity : at(n) = 0 \/ e.ids[at(n)] = i}
           first == CHOOSE n \in stops : \A m \in stops : n <= m
<1>1. /\ i \in Instrument /\ e.lookup \in [Cell -> 0..Len(e.ids)] /\ DOMAIN e.ids = 1..Len(e.ids)
      /\ \A j, n \in DOMAIN e.ids : e.ids[j] = e.ids[n] => j = n
  BY LenProperties, ElementOfSeq DEF Routed, EngineType
<1>2. PICK n \in 1..LookupCapacity : at(n) = k /\ \A m \in 1..(n - 1) : at(m) # 0
  BY DEF Routed, Reaches
<1>3. n \in stops
  BY <1>2
<1>4. stops \in SUBSET Nat
  OBVIOUS
<1> HIDE DEF stops
<1>5. \E f \in stops : \A m \in stops : f <= m
  BY <1>3, <1>4, LeastNat
<1>6. first \in stops /\ \A m \in stops : first <= m
  BY <1>5
<1> HIDE DEF first
<1>7. first \in 1..LookupCapacity /\ first <= n /\ (at(first) = 0 \/ e.ids[at(first)] = i)
  BY <1>3, <1>6 DEF stops
<1>8. at(first) # 0
  <2>1. CASE first = n
    <3>1. k # 0
      BY <1>1
    <3> QED BY <2>1, <3>1, <1>2
  <2>2. CASE first # n
    <3>1. first \in 1..(n - 1)
      BY <2>2, <1>7
    <3> QED BY <3>1, <1>2
  <2> QED BY <2>1, <2>2
<1>9. at(first) \in DOMAIN e.ids
  <2>1. Probes(i)[first] \in Cell
    BY <1>1, <1>7, ProbesAreCells
  <2>2. at(first) \in 0..Len(e.ids)
    BY <1>1, <2>1
  <2> QED BY <2>2, <1>1, <1>8, LenProperties DEF Routed, EngineType
<1>10. at(first) = k
  BY <1>1, <1>7, <1>8, <1>9
<1>11. LookupIndex(e, i) = at(first)
  BY <1>3 DEF LookupIndex, stops, first
<1> QED
  BY <1>10, <1>11

(* It finds nothing else.                                                  *)
LEMMA LookupFindsNothing ==
  ASSUME NEW e, Routed(e), NEW i \in Instrument, \A k \in DOMAIN e.ids : e.ids[k] # i
  PROVE  LookupIndex(e, i) = 0
<1> DEFINE at(n) == e.lookup[Probes(i)[n]]
           stops == {n \in 1..LookupCapacity : at(n) = 0 \/ e.ids[at(n)] = i}
           first == CHOOSE n \in stops : \A m \in stops : n <= m
<1>1. /\ e.lookup \in [Cell -> 0..Len(e.ids)] /\ DOMAIN e.ids = 1..Len(e.ids) /\ Len(e.ids) \in Nat
  BY LenProperties DEF Routed, EngineType
<1>2. \A n \in stops : at(n) = 0
  <2> TAKE n \in stops
  <2>1. Probes(i)[n] \in Cell
    BY ProbesAreCells
  <2>2. at(n) \in 0..Len(e.ids)
    BY <1>1, <2>1
  <2>3. at(n) # 0 => at(n) \in DOMAIN e.ids
    BY <1>1, <2>2
  <2> QED BY <2>3
<1>3. stops \in SUBSET Nat
  OBVIOUS
<1> HIDE DEF stops
<1>4. CASE stops = {}
  BY <1>4 DEF LookupIndex, stops
<1>5. CASE stops # {}
  <2>1. \E f \in stops : \A m \in stops : f <= m
    BY <1>3, <1>5, LeastNat
  <2>2. first \in stops
    BY <2>1
  <2>3. LookupIndex(e, i) = at(first)
    BY <1>5 DEF LookupIndex, stops, first
  <2> QED BY <1>2, <2>2, <2>3
<1> QED
  BY <1>4, <1>5

-----------------------------------------------------------------------------
(* The order of a queue and the counters of a book                         *)

(* The queues are in sequence, and no two orders have the same number but  *)
(* the last one, which all share that came too late for another.           *)
InLine(b) ==
  \A s \in Side, p \in Price : \A m, n \in DOMAIN b.level[s][p] :
    m < n => b.order[b.level[s][p][m]].seq <= b.order[b.level[s][p][n]].seq
Apart(b) ==
  \A x, y \in b.index :
    x # y /\ b.order[x].seq = b.order[y].seq => b.order[x].seq = MaxSequence
Numbered(b) == \A id \in b.index : b.order[id].seq \in 1..b.seq
Sequenced(b) == InLine(b) /\ Apart(b) /\ Numbered(b)

(* What stands in a queue.                                                 *)
LEMMA Queued ==
  ASSUME NEW b, Sound(b), NEW s \in Side, NEW p \in Price
  PROVE  /\ b.level[s][p] \in Seq(OrderId)
         /\ \A i \in DOMAIN b.level[s][p] :
              /\ b.level[s][p][i] \in b.index /\ b.level[s][p][i] \in OrderId
              /\ b.order[b.level[s][p][i]].side = s
              /\ b.order[b.level[s][p][i]].price = p
              /\ \A j \in DOMAIN b.level[s][p] : b.level[s][p][j] = b.level[s][p][i] => j = i
<1>1. b.level \in [Side -> [Price -> Seq(OrderId)]] /\ b.index \subseteq OrderId
  BY DEF Sound, BookType
<1>2. QueuedAreIndexed(b)
  BY DEF Sound
<1> QED
  BY <1>1, <1>2 DEF QueuedAreIndexed

(* One order out of its queue.                                             *)
LEMMA LeavesSequenced ==
  ASSUME NEW b, Sound(b), Sequenced(b), NEW id \in b.index,
         NEW c, NEW s, NEW p, NEW i, Leaves(b, c, id, s, p, i), SameBut(b, c, id),
         c.index = b.index \ {id}, c.seq = b.seq
  PROVE  Sequenced(c)
<1> DEFINE fifo == b.level[s][p]
           rest == RemoveAt(fifo, i)
<1>1. /\ s \in Side /\ p \in Price /\ i \in DOMAIN fifo /\ fifo[i] = id
      /\ c.level[s][p] = rest
      /\ b.order[id].side = s /\ b.order[id].price = p
      /\ \A t \in Side, q \in Price : ~(t = s /\ q = p) => c.level[t][q] = b.level[t][q]
  BY DEF Leaves, SameElsewhere
<1>2. fifo \in Seq(OrderId)
  BY <1>1, Queued
<1>3. \A t \in Side, q \in Price : \A j \in DOMAIN b.level[t][q] :
        /\ b.level[t][q][j] \in OrderId
        /\ ~(t = s /\ q = p /\ j = i) => b.level[t][q][j] # id
  BY <1>1, Queued
<1>4. \A t \in Side, q \in Price : \A j \in DOMAIN b.level[t][q] :
        ~(t = s /\ q = p /\ j = i) => c.order[b.level[t][q][j]] = b.order[b.level[t][q][j]]
  BY <1>3 DEF SameBut
<1>5. b.index \subseteq OrderId /\ \A x \in c.index : x \in b.index /\ c.order[x] = b.order[x]
  BY DEF Sound, BookType, SameBut
<1>6. /\ rest \in Seq(OrderId) /\ Len(rest) = Len(fifo) - 1
      /\ \A j \in DOMAIN rest : rest[j] = IF j < i THEN fifo[j] ELSE fifo[j + 1]
  <2>1. i \in DOMAIN fifo
    BY <1>1
  <2> HIDE DEF fifo
  <2> QED BY <2>1, <1>2, RemoveAtProperties
<1>7. /\ DOMAIN fifo = 1..Len(fifo) /\ DOMAIN rest = 1..(Len(fifo) - 1)
      /\ Len(fifo) \in Nat /\ i \in 1..Len(fifo)
  BY <1>1, <1>2, <1>6, LenProperties
<1>8. \A m, n \in DOMAIN fifo : m < n => b.order[fifo[m]].seq <= b.order[fifo[n]].seq
  BY <1>1 DEF Sequenced, InLine
<1>9. \A j \in DOMAIN fifo : j # i => c.order[fifo[j]] = b.order[fifo[j]]
  BY <1>1, <1>4
<1> HIDE DEF rest, fifo
<1>10. InLine(c)
  <2> SUFFICES ASSUME NEW t \in Side, NEW q \in Price,
                      NEW m \in DOMAIN c.level[t][q], NEW n \in DOMAIN c.level[t][q], m < n
               PROVE  c.order[c.level[t][q][m]].seq <= c.order[c.level[t][q][n]].seq
    BY DEF InLine
  <2>1. CASE ~(t = s /\ q = p)
    <3>1. c.level[t][q] = b.level[t][q]
      BY <2>1, <1>1
    <3>2. b.order[b.level[t][q][m]].seq <= b.order[b.level[t][q][n]].seq
      BY <3>1 DEF Sequenced, InLine
    <3> QED BY <2>1, <3>1, <3>2, <1>4
  <2>2. CASE t = s /\ q = p
    <3> DEFINE from(j) == IF j < i THEN j ELSE j + 1
    <3>1. m \in 1..(Len(fifo) - 1) /\ n \in 1..(Len(fifo) - 1)
      BY <2>2, <1>1, <1>7
    <3>2. /\ from(m) \in DOMAIN fifo /\ from(n) \in DOMAIN fifo /\ from(m) < from(n)
          /\ from(m) # i /\ from(n) # i
      BY <3>1, <1>7
    <3>3. c.level[t][q][m] = fifo[from(m)] /\ c.level[t][q][n] = fifo[from(n)]
      BY <2>2, <3>1, <1>1, <1>6, <1>7
    <3> HIDE DEF from
    <3> QED BY <3>2, <3>3, <1>8, <1>9
  <2> QED BY <2>1, <2>2
<1>11. Apart(c)
  BY <1>5 DEF Sequenced, Apart
<1>12. Numbered(c)
  BY <1>5 DEF Sequenced, Numbered
<1> QED
  BY <1>10, <1>11, <1>12 DEF Sequenced

(* A smaller quantity changes no number.                                   *)
LEMMA ShortenedSequenced ==
  ASSUME NEW b, Sound(b), Sequenced(b), NEW id \in b.index,
         NEW c, NEW s, NEW p, NEW x, Shortened(b, c, id, s, p, x), c.seq = b.seq
  PROVE  Sequenced(c)
<1>1. c.level = b.level /\ c.index = b.index
  BY DEF Shortened
<1>2. \A y \in b.index : c.order[y].seq = b.order[y].seq
  <2>1. b.index \subseteq OrderId /\ b.order[id] \in Order
    BY OrderPlace DEF Sound, BookType
  <2>2. c.order[id].seq = b.order[id].seq
    BY <2>1 DEF Shortened, Order
  <2> QED BY <2>1, <2>2 DEF Shortened, SameBut
<1>3. \A t \in Side, q \in Price : \A j \in DOMAIN b.level[t][q] : b.level[t][q][j] \in b.index
  BY Queued
<1> QED
  BY <1>1, <1>2, <1>3 DEF Sequenced, InLine, Apart, Numbered

(* A new order is the last of its queue and has the next number.           *)
LEMMA RestedSequenced ==
  ASSUME NEW b, Sound(b), Sequenced(b), NEW id \in OrderId, id \notin b.index,
         NEW s \in Side, NEW p \in Price, NEW qty, NEW owner,
         NEW c, c = Rested(b, id, s, p, qty, owner)
  PROVE  Sequenced(c)
<1> DEFINE fifo == b.level[s][p]
           n == NextSequence(b)
<1>1. b \in BookType /\ b.index \subseteq OrderId /\ b.seq \in 0..MaxSequence
  BY DEF Sound, BookType
<1>2. /\ c.level[s][p] = Append(fifo, id) /\ SameBut(b, c, id)
      /\ \A t \in Side, q \in Price : ~(t = s /\ q = p) => c.level[t][q] = b.level[t][q]
  BY <1>1, RestedChanges DEF SameElsewhere
<1>3. c.order[id].seq = n /\ c.seq = n /\ c.index = b.index \cup {id}
  BY <1>1 DEF Rested, BookType
<1>4. /\ n \in 1..MaxSequence /\ b.seq <= n
      /\ \A y \in b.index : b.order[y].seq \in 1..n
      /\ \A y \in b.index : b.order[y].seq = n => n = MaxSequence
  BY <1>1, WidthAssumption DEF NextSequence, Min2, Sequenced, Numbered
<1>5. \A y \in b.index : c.order[y] = b.order[y] /\ y # id
  BY <1>1, <1>2 DEF SameBut
<1>6. \A t \in Side, q \in Price : \A j \in DOMAIN b.level[t][q] : b.level[t][q][j] \in b.index
  BY Queued
<1>7. /\ DOMAIN fifo = 1..Len(fifo) /\ DOMAIN Append(fifo, id) = 1..(Len(fifo) + 1) /\ Len(fifo) \in Nat
      /\ \A j \in 1..Len(fifo) : Append(fifo, id)[j] = fifo[j]
      /\ Append(fifo, id)[Len(fifo) + 1] = id
  <2>1. fifo \in Seq(OrderId)
    BY Queued
  <2> HIDE DEF fifo
  <2> QED BY <2>1, AppendProperties, LenProperties
<1> HIDE DEF n
<1>8. InLine(c)
  <2> SUFFICES ASSUME NEW t \in Side, NEW q \in Price,
                      NEW j \in DOMAIN c.level[t][q], NEW k \in DOMAIN c.level[t][q], j < k
               PROVE  c.order[c.level[t][q][j]].seq <= c.order[c.level[t][q][k]].seq
    BY DEF InLine
  <2>1. CASE ~(t = s /\ q = p)
    <3>1. c.level[t][q] = b.level[t][q]
      BY <2>1, <1>2
    <3> QED BY <3>1, <1>5, <1>6 DEF Sequenced, InLine
  <2>2. CASE t = s /\ q = p
    <3>1. c.level[t][q] = Append(fifo, id) /\ j \in 1..Len(fifo) /\ k \in 1..(Len(fifo) + 1)
      BY <2>2, <1>2, <1>7
    <3>2. c.level[t][q][j] = fifo[j] /\ fifo[j] \in b.index
      BY <3>1, <1>6, <1>7
    <3>3. CASE k = Len(fifo) + 1
      <4>1. c.order[c.level[t][q][k]].seq = n
        BY <3>1, <3>3, <1>3, <1>7
      <4>2. c.order[c.level[t][q][j]].seq \in 1..n
        BY <3>2, <1>4, <1>5
      <4> QED BY <4>1, <4>2, <1>4
    <3>4. CASE k # Len(fifo) + 1
      <4>1. k \in 1..Len(fifo)
        BY <3>1, <3>4, <1>7
      <4>2. c.level[t][q][k] = fifo[k] /\ fifo[k] \in b.index
        BY <3>1, <4>1, <1>6, <1>7
      <4>3. b.order[fifo[j]].seq <= b.order[fifo[k]].seq
        BY <3>1, <4>1, <1>7 DEF Sequenced, InLine
      <4> QED BY <3>2, <4>2, <4>3, <1>5
    <3> QED BY <3>3, <3>4
  <2> QED BY <2>1, <2>2
<1>9. Apart(c)
  <2> SUFFICES ASSUME NEW x \in c.index, NEW y \in c.index, x # y,
                      c.order[x].seq = c.order[y].seq
               PROVE  c.order[x].seq = MaxSequence
    BY DEF Apart
  <2>1. CASE x \in b.index /\ y \in b.index
    BY <2>1, <1>5 DEF Sequenced, Apart
  <2>2. CASE x = id
    BY <2>2, <1>3, <1>4, <1>5
  <2>3. CASE y = id
    BY <2>3, <1>3, <1>4, <1>5
  <2> QED BY <2>1, <2>2, <2>3, <1>3
<1>10. Numbered(c)
  BY <1>3, <1>4, <1>5 DEF Numbered
<1> QED
  BY <1>8, <1>9, <1>10 DEF Sequenced

(* The counter and the orders' numbers after each change.                  *)
LEMMA ChangesKeepCounter ==
  ASSUME NEW b, b \in BookType, NEW id \in OrderId
  PROVE  /\ Unindexed(Unlinked(b, id), id).seq = b.seq
         /\ Unindexed(Unlinked(b, id), id).used = b.used
         /\ Removed(b, id).seq = b.seq
         /\ \A qty : Reduced(b, id, qty).seq = b.seq
         /\ Released(b, id).seq = b.seq
  BY DEF Unindexed, Unlinked, Removed, Reduced, Released, BookType

-----------------------------------------------------------------------------
(* A fill, and match as a loop over the other side                         *)

(* What h records of the orders that rest, and that it records nothing of  *)
(* the others, but for the nodes of those in out.                          *)
Lifecycles(h, out) ==
  /\ \A id \in h.book.index :
       /\ h.book.order[id].qty \in 1..h.initial[id]
       /\ h.book.order[id].owner = Anonymous
       /\ id \in h.partly => h.book.order[id].qty < h.initial[id]
  /\ \A id \in OrderId \ h.book.index :
       /\ h.initial[id] = 0 /\ id \notin h.partly
       /\ id \notin out => h.book.order[id] = Blank

(* A book in the middle of a command: k pool slots are taken for orders    *)
(* that do not rest.                                                       *)
Running(h, out, k) ==
  /\ h \in HeldType
  /\ Kept(h.book) /\ Sums(h.book) /\ Sequenced(h.book)
  /\ h.book.used = Cardinality(h.book.index) + k
  /\ Lifecycles(h, out)

(* A match that is under way.                                              *)
MatchType ==
  [held: HeldType, left: 0..MaxQuantity, trades: Seq(OrderId \X Nat), quotes: Nat]

(* A match of h with side s up to limit that will leave rest.              *)
UnderWay(h, s, limit, out, k, rest) ==
  {m \in MatchType :
     /\ Running(m.held, out, k)
     /\ m.held.book.index \subseteq h.book.index
     /\ m.held.book.seq = h.book.seq
     /\ \A p \in Price : m.held.book.total[Opposite(s)][p] = h.book.total[Opposite(s)][p]
     /\ m.left - Min2(m.left, Offered(m.held.book, s, limit)) = rest}

(* A released node is blank.                                               *)
LEMMA RemovedBlank ==
  ASSUME NEW b, b \in BookType, NEW id \in OrderId
  PROVE  /\ Removed(b, id).order = [b.order EXCEPT ![id] = Blank]
         /\ Removed(b, id).order[id] = Blank
         /\ Released(b, id).order = [b.order EXCEPT ![id] = Blank]
  BY DEF Unindexed, Unlinked, Removed, Released, BookType

(* The best price crosses if any does.                                     *)
LEMMA BestIsWithinReach ==
  ASSUME NEW b, Sound(b), IsFiniteSet(b.index), NEW s \in Side, NEW limit \in Price \cup {NoPrice},
         b.best[s] # NoPrice
  PROVE  /\ b.best[s] \in Price
         /\ Crosses(s, b.best[s], limit) => b.best[s] \in CrossingPrices(b, s, limit)
         /\ ~Crosses(s, b.best[s], limit) => CrossingPrices(b, s, limit) = {}
<1>1. /\ b.best[s] \in Price /\ b.best[s] \in Occupied(b, s)
      /\ \A p \in Occupied(b, s) : ~Better(s, p, b.best[s])
  BY DEF Sound, BookType, BestIsCached
<1>2. CrossingPrices(b, s, limit) = {p \in Occupied(b, s) : Crosses(s, p, limit)}
  BY ReachIsFinite
<1>3. ASSUME NEW p \in Occupied(b, s), Crosses(s, p, limit) PROVE Crosses(s, b.best[s], limit)
  <2>1. p \in Int /\ b.best[s] \in Int
    BY <1>1, PriceAssumption DEF Occupied
  <2>2. limit # NoPrice => limit \in Int
    BY PriceAssumption
  <2>3. s = "Buy" \/ s = "Sell"
    BY DEF Side
  <2>4. ~Better(s, p, b.best[s])
    BY <1>1
  <2> DEFINE best == b.best[s]
  <2> HIDE DEF best
  <2>5. best \in Int /\ ~Better(s, p, best) /\ Crosses(s, p, limit)
    BY <2>1, <2>4, <1>3 DEF best
  <2>6. Crosses(s, best, limit)
    BY <2>1, <2>2, <2>3, <2>5 DEF Crosses, Better
  <2> QED BY <2>6 DEF best
<1> QED
  BY <1>1, <1>2, <1>3

(* The counters of a running book.                                         *)
LEMMA RunningFacts ==
  ASSUME NEW h, NEW out, NEW k \in Nat, Running(h, out, k)
  PROVE  /\ h \in HeldType /\ h.book \in BookType
         /\ h.initial \in [OrderId -> 0..MaxQuantity] /\ h.partly \subseteq OrderId
         /\ h.events \in Nat /\ h.feed \in Nat
         /\ Kept(h.book) /\ Sound(h.book) /\ Sums(h.book) /\ Sequenced(h.book)
         /\ Uncrossed(h.book) /\ IsFiniteSet(h.book.index)
         /\ Cardinality(h.book.index) \in Nat /\ h.book.used \in Nat
         /\ h.book.index \subseteq OrderId
         /\ h.book.used = Cardinality(h.book.index) + k
         /\ h.book.used >= Cardinality(h.book.index)
         /\ h.book.index # {} => h.book.used > 0
         /\ \A id \in h.book.index :
              /\ h.book.order[id].qty # 0 /\ h.book.order[id].qty \in 1..MaxQuantity
              /\ h.initial[id] \in 1..MaxQuantity
<1>1. /\ h \in HeldType /\ Kept(h.book) /\ Sums(h.book) /\ Sequenced(h.book)
      /\ h.book.used = Cardinality(h.book.index) + k /\ Lifecycles(h, out)
  BY DEF Running
<1>2. IsFiniteSet(h.book.index) /\ Sound(h.book) /\ Uncrossed(h.book) /\ h.book \in BookType
  BY <1>1 DEF Kept, Sound
<1>3. Cardinality(h.book.index) \in Nat /\ (h.book.index # {} => Cardinality(h.book.index) > 0)
  <2>1. Cardinality(h.book.index) \in Nat
    BY <1>2, FS_CardinalityType
  <2>2. Cardinality(h.book.index) = 0 <=> h.book.index = {}
    BY <1>2, FS_EmptySet
  <2> QED BY <2>1, <2>2
<1>4. /\ h.initial \in [OrderId -> 0..MaxQuantity] /\ h.partly \subseteq OrderId
      /\ h.events \in Nat /\ h.feed \in Nat /\ h.book.index \subseteq OrderId
  BY <1>1, <1>2 DEF HeldType, BookType
<1>5. ASSUME NEW id \in h.book.index
      PROVE  /\ h.book.order[id].qty # 0 /\ h.book.order[id].qty \in 1..MaxQuantity
             /\ h.initial[id] \in 1..MaxQuantity
  <2>1. h.book.order[id].qty \in 1..h.initial[id] /\ h.initial[id] \in 0..MaxQuantity
    BY <1>1, <1>4 DEF Lifecycles
  <2> QED BY <2>1, WidthAssumption
<1> QED
  BY <1>1, <1>2, <1>3, <1>4, <1>5

(* emit_market_data_level_change posts once or twice.                      *)
LEMMA PostsAre ==
  ASSUME NEW b, NEW c, NEW s
  PROVE  Posts(b, c, s) \in {1, 2}
  BY DEF Posts

(* A fill takes from what is left and from what is offered alike.          *)
LEMMA RestStays ==
  ASSUME NEW left \in Nat, NEW off \in Nat, NEW x \in Nat, x <= left, off - x \in Nat
  PROVE  (left - x) - Min2(left - x, off - x) = left - Min2(left, off)
  BY DEF Min2

(* An order that leaves is forgotten.                                      *)
LEMMA GoneLifecycles ==
  ASSUME NEW h, NEW out, Lifecycles(h, out), h.book.index \subseteq OrderId, NEW id \in OrderId,
         NEW g, SameBut(h.book, g.book, id), g.book.index = h.book.index \ {id},
         \A y \in OrderId : y # id => g.initial[y] = h.initial[y],
         g.initial[id] = 0, g.partly = h.partly \ {id},
         NEW kept, out \subseteq kept, id \in kept \/ g.book.order[id] = Blank
  PROVE  Lifecycles(g, kept)
<1>1. \A y \in OrderId : y # id => /\ g.book.order[y] = h.book.order[y]
                                   /\ g.initial[y] = h.initial[y]
                                   /\ (y \in g.partly <=> y \in h.partly)
  BY DEF SameBut
<1>2. ASSUME NEW y \in g.book.index
      PROVE  /\ g.book.order[y].qty \in 1..g.initial[y] /\ g.book.order[y].owner = Anonymous
             /\ y \in g.partly => g.book.order[y].qty < g.initial[y]
  <2>1. y \in h.book.index /\ y # id /\ y \in OrderId
    BY <1>2
  <2> QED BY <2>1, <1>1 DEF Lifecycles
<1>3. ASSUME NEW y \in OrderId \ g.book.index
      PROVE  /\ g.initial[y] = 0 /\ y \notin g.partly
             /\ y \notin kept => g.book.order[y] = Blank
  <2>1. CASE y = id
    BY <2>1
  <2>2. CASE y # id
    <3>1. y \in OrderId \ h.book.index
      BY <2>2, <1>3
    <3> QED BY <3>1, <2>2, <1>1 DEF Lifecycles
  <2> QED BY <2>1, <2>2
<1> QED
  BY <1>2, <1>3 DEF Lifecycles

(* What h becomes when its front order id of side s is filled for x.       *)
Advanced(h, s, id, x) ==
  [h EXCEPT !.book = FilledFront(h.book, s, x),
            !.initial[id] = IF x = h.book.order[id].qty THEN 0 ELSE @,
            !.partly = IF x = h.book.order[id].qty THEN @ \ {id} ELSE @ \cup {id}]

(* The book and the records beside it after a fill.                        *)
LEMMA FillKeepsLifecycles ==
  ASSUME NEW h, NEW out, NEW k \in Nat, Running(h, out, k), NEW s \in Side,
         h.book.best[s] # NoPrice,
         NEW id, id = FrontOf(h.book, s),
         NEW x \in Nat, x > 0, x <= h.book.order[id].qty,
         NEW g, g = Advanced(h, s, id, x)
  PROVE  /\ Running(g, out, k)
         /\ g.book = FilledFront(h.book, s, x)
         /\ g.book.seq = h.book.seq
         /\ x # h.book.order[id].qty => Shortened(h.book, g.book, id, s, h.book.best[s], x)
         /\ x = h.book.order[id].qty =>
              /\ \E i : Leaves(h.book, g.book, id, s, h.book.best[s], i)
              /\ g.book.index = h.book.index \ {id}
<1> DEFINE b == h.book
           c == FilledFront(b, s, x)
           filled == x = b.order[id].qty
<1>1. /\ h \in HeldType /\ b \in BookType /\ Kept(b) /\ Sound(b) /\ Sums(b) /\ Sequenced(b)
      /\ b.used >= Cardinality(b.index) /\ IsFiniteSet(b.index)
      /\ b.used = Cardinality(b.index) + k
      /\ h.initial \in [OrderId -> 0..MaxQuantity] /\ h.partly \subseteq OrderId
      /\ h.events \in Nat /\ h.feed \in Nat /\ b.index \subseteq OrderId
  BY RunningFacts
<1>2. id \in b.index /\ b.order[id].side = s /\ b.order[id].price = b.best[s] /\ b.best[s] \in Price
  BY <1>1, FrontIsIndexed DEF FrontOf
<1>3. b.used > 0 /\ b.order[id].qty \in 1..MaxQuantity /\ id \in OrderId
  BY <1>1, <1>2, RunningFacts
<1>4. x <= b.order[FrontOf(b, s)].qty /\ x <= b.order[Head(b.level[s][b.best[s]])].qty
  BY DEF FrontOf
<1>5. Kept(c) /\ Shrinks(b, c)
  BY <1>1, <1>4, FilledFrontKept
<1>6. /\ Sound(c) /\ Sums(c)
      /\ x # b.order[id].qty => Shortened(b, c, id, s, b.best[s], x)
      /\ x = b.order[id].qty =>
              /\ \E i : Leaves(b, c, id, s, b.best[s], i)
              /\ SameBut(b, c, id)
              /\ c.index = b.index \ {id}
  <2>1. c = FilledFront(b, s, x) /\ b.best[s] # NoPrice /\ FrontOf(b, s) = id
    OBVIOUS
  <2>2. Sound(b) /\ Sums(b) /\ b.used > 0 /\ x <= b.order[FrontOf(b, s)].qty
    BY <1>1, <1>3, <1>4
  <2> HIDE DEF b, c
  <2> QED BY <2>1, <2>2, FilledFrontSums
<1>7. c.seq = b.seq /\ (filled => c.order[id] = Blank)
  <2> DEFINE f == Head(b.level[s][b.best[s]])
             after == [b EXCEPT !.order[f].qty = @ - x,
                              !.total[s][b.best[s]] = (@ - x) % (MaxQuantity + 1)]
  <2>1. c = IF after.order[f].qty = 0 THEN Removed(after, f) ELSE after
    BY DEF FilledFront
  <2>0. f = id /\ f \in OrderId
    BY <1>3 DEF FrontOf
  <2> HIDE DEF f
  <2>2. after.order = [b.order EXCEPT ![f].qty = @ - x] /\ after.seq = b.seq
    BY <1>1 DEF BookType
  <2>3. after.order[f] = [b.order[f] EXCEPT !.qty = @ - x]
    BY <2>2, <1>1, <1>3, <2>0 DEF BookType
  <2>4. b.order[f] \in Order
    BY <1>1, <1>3, <2>0 DEF BookType
  <2>5. after.order[f].qty = b.order[f].qty - x
    BY <2>3, <2>4 DEF Order
  <2>6. Removed(after, f).seq = after.seq
    <3> HIDE DEF after
    <3> QED BY DEF Removed, Released, Unindexed, Unlinked
  <2>7. Removed(after, f).order[f] = Blank
    <3>1. after.order \in [OrderId -> [side: Side, price: Price \cup {NoPrice}, qty: Int, seq: 0..MaxSequence, owner: Participant]]
      <4> DEFINE O == [side: Side, price: Price \cup {NoPrice}, qty: Int, seq: 0..MaxSequence, owner: Participant]
      <4>1. b.order \in [OrderId -> O]
        BY <1>1, WidthAssumption DEF BookType, Order
      <4>2. [b.order[f] EXCEPT !.qty = @ - x] \in O
        BY <4>1, <1>3, <2>0
      <4>3. after.order = [b.order EXCEPT ![f] = [b.order[f] EXCEPT !.qty = @ - x]]
        BY <2>2
      <4> HIDE DEF O, after
      <4>4. after.order \in [OrderId -> O]
        BY <4>1, <4>2, <4>3
      <4> QED BY <4>4 DEF O
    <3> HIDE DEF after
    <3>2. Removed(after, f).order = [after.order EXCEPT ![f] = Blank]
      BY DEF Removed, Released, Unindexed, Unlinked
    <3> QED BY <3>1, <3>2, <1>3, <2>0
  <2>8. filled => after.order[f].qty = 0
    BY <2>5, <1>3, <2>0, WidthAssumption
  <2> HIDE DEF after
  <2> QED BY <2>0, <2>1, <2>2, <2>6, <2>7, <2>8
<1>8. /\ g.book = c /\ g.events = h.events /\ g.feed = h.feed
      /\ g.initial = [h.initial EXCEPT ![id] = IF filled THEN 0 ELSE @]
      /\ g.partly = IF filled THEN h.partly \ {id} ELSE h.partly \cup {id}
      /\ g = [book |-> g.book, initial |-> g.initial, partly |-> g.partly,
              events |-> g.events, feed |-> g.feed]
  BY <1>1 DEF HeldType, Advanced
<1> HIDE DEF c
<1>9. /\ g.initial \in [OrderId -> 0..MaxQuantity] /\ g.partly \subseteq OrderId
      /\ \A y \in OrderId : y # id => g.initial[y] = h.initial[y]
      /\ g.initial[id] = IF filled THEN 0 ELSE h.initial[id]
  BY <1>1, <1>3, <1>8, WidthAssumption
<1>10. g \in HeldType
  BY <1>1, <1>6, <1>8, <1>9 DEF HeldType, Sound
<1>11. Lifecycles(h, out)
  BY DEF Running
<1>12. CASE filled
  <2>1. /\ SameBut(b, c, id) /\ c.index = b.index \ {id} /\ c.order[id] = Blank
        /\ \E i : Leaves(b, c, id, s, b.best[s], i)
    BY <1>6, <1>7, <1>12
  <2>2. Sequenced(c)
    BY <2>1, <1>1, <1>2, <1>7, LeavesSequenced
  <2>3. Lifecycles(g, out)
    BY <2>1, <1>1, <1>2, <1>8, <1>9, <1>11, <1>12, GoneLifecycles
  <2>4. c.used = Cardinality(c.index) + k
    <3>1. Cardinality(c.index) \in Nat /\ Cardinality(b.index) \in Nat /\ c.used \in Nat
      BY <1>1, <1>5, <1>6, FS_CardinalityType DEF Kept, Sound, BookType
    <3> QED BY <3>1, <1>1, <1>5 DEF Shrinks
  <2>5. Running(g, out, k)
    BY <2>2, <2>3, <2>4, <1>5, <1>6, <1>8, <1>10 DEF Running
  <2> QED BY <2>1, <2>5, <1>6, <1>7, <1>8 DEF c
<1>13. CASE ~filled
  <2>1. Shortened(b, c, id, s, b.best[s], x)
    BY <1>6, <1>13
  <2>2. Sequenced(c)
    BY <2>1, <1>1, <1>2, <1>7, ShortenedSequenced
  <2>3. /\ c.index = b.index /\ SameBut(b, c, id)
        /\ c.order[id] = [b.order[id] EXCEPT !.qty = b.order[id].qty - x]
        /\ c.order[id].qty = b.order[id].qty - x
    BY <2>1 DEF Shortened
  <2>4. c.order[id].owner = b.order[id].owner
    <3>1. b.order[id] \in Order
      BY <1>1, <1>3 DEF BookType
    <3> QED BY <3>1, <2>3 DEF Order
  <2>5. Lifecycles(g, out)
    <3>1. \A y \in OrderId : y # id => /\ g.initial[y] = h.initial[y] /\ c.order[y] = b.order[y]
                                       /\ (y \in g.partly <=> y \in h.partly)
      BY <2>3, <1>8, <1>9, <1>13 DEF SameBut
    <3>2. g.initial[id] = h.initial[id] /\ g.book = c
      BY <1>8, <1>9, <1>13
    <3>3. c.order[id].qty \in 1..g.initial[id] /\ c.order[id].qty < g.initial[id]
      <4>1. b.order[id].qty \in 1..h.initial[id] /\ h.initial[id] \in Nat
        BY <1>1, <1>2, <1>3, <1>11, WidthAssumption DEF Lifecycles
      <4>2. b.order[id].qty - x \in 1..h.initial[id] /\ b.order[id].qty - x < h.initial[id]
        BY <4>1, <1>13
      <4> QED BY <4>2, <2>3, <3>2
    <3>4. c.order[id].owner = Anonymous
      BY <2>4, <1>2, <1>11 DEF Lifecycles
    <3>5. ASSUME NEW y \in c.index
          PROVE  /\ c.order[y].qty \in 1..g.initial[y] /\ c.order[y].owner = Anonymous
                 /\ y \in g.partly => c.order[y].qty < g.initial[y]
      <4>1. y \in b.index /\ y \in OrderId
        BY <2>3, <3>5, <1>1
      <4>2. CASE y # id
        BY <4>1, <4>2, <3>1, <1>11 DEF Lifecycles
      <4> QED BY <4>2, <3>3, <3>4
    <3>6. ASSUME NEW y \in OrderId \ c.index
          PROVE  /\ g.initial[y] = 0 /\ y \notin g.partly
                 /\ y \notin out => c.order[y] = Blank
      <4>1. y \in OrderId \ b.index /\ y # id
        BY <3>6, <2>3, <1>2
      <4> QED BY <4>1, <3>1, <1>11 DEF Lifecycles
    <3> QED BY <3>2, <3>5, <3>6 DEF Lifecycles
  <2>6. c.used = Cardinality(c.index) + k
    <3>1. Cardinality(c.index) \in Nat /\ Cardinality(b.index) \in Nat /\ c.used \in Nat
      BY <1>1, <1>5, <1>6, FS_CardinalityType DEF Kept, Sound, BookType
    <3> QED BY <3>1, <1>1, <1>5 DEF Shrinks
  <2>7. Running(g, out, k)
    BY <2>2, <2>5, <2>6, <1>5, <1>6, <1>8, <1>10 DEF Running
  <2> QED BY <2>1, <2>7, <1>6, <1>7, <1>8, <1>13 DEF c
<1> QED
  BY <1>12, <1>13

(* The other side is a side, and another one.                              *)
LEMMA OppositeIs ==
  ASSUME NEW s \in Side
  PROVE  Opposite(s) \in Side /\ Opposite(s) # s
  BY DEF Opposite, Side

(* A match may go on.                                                      *)
Goes(m, s, limit) ==
  /\ m.left # 0 /\ m.held.book.best[s] # NoPrice
  /\ Crosses(s, m.held.book.best[s], limit)

(* A fill leaves nothing, or one order less.                               *)
LEMMA FillKeeps ==
  ASSUME NEW h, NEW s \in Side, NEW limit \in Price \cup {NoPrice}, NEW out, NEW k \in Nat,
         NEW rest, NEW m \in UnderWay(h, s, limit, out, k, rest), Goes(m, s, limit),
         NEW r, r = Fill(s, m)
  PROVE  /\ r \in UnderWay(h, s, limit, out, k, rest)
         /\ \/ r.left = 0
            \/ Cardinality(r.held.book.index) = Cardinality(m.held.book.index) - 1
<1> DEFINE b == m.held.book
           id == FrontOf(b, s)
           x == Min2(m.left, b.order[id].qty)
           filled == x = b.order[id].qty
           g == Advanced(m.held, s, id, x)
           posts == Posts(b, FilledFront(b, s, x), s)
<1>1. /\ m \in MatchType /\ Running(m.held, out, k)
      /\ b.index \subseteq h.book.index /\ b.seq = h.book.seq
      /\ \A p \in Price : b.total[Opposite(s)][p] = h.book.total[Opposite(s)][p]
      /\ m.left - Min2(m.left, Offered(b, s, limit)) = rest
  BY DEF UnderWay
<1>2. b.best[s] # NoPrice /\ m.left # 0 /\ Crosses(s, b.best[s], limit)
  BY DEF Goes
<1>3. /\ Sound(b) /\ Sums(b) /\ IsFiniteSet(b.index) /\ b \in BookType
      /\ \A y \in b.index : b.order[y].qty \in 1..MaxQuantity
  BY <1>1, RunningFacts
<1>4. id \in b.index /\ b.best[s] \in Price
  BY <1>2, <1>3, FrontIsIndexed DEF FrontOf
<1>5. m.left \in 1..MaxQuantity /\ b.order[id].qty \in 1..MaxQuantity
  BY <1>1, <1>2, <1>3, <1>4, WidthAssumption DEF MatchType
<1>6. r = [m EXCEPT !.held = g, !.left = @ - x, !.trades = Append(@, <<id, x>>),
                    !.quotes = @ + 1 + posts]
  BY DEF Fill, FrontOf, Advanced
<1>7. /\ m.held \in HeldType /\ m.trades \in Seq(OrderId \X Nat) /\ m.quotes \in Nat
      /\ id \in OrderId
  BY <1>1, <1>3, <1>4 DEF MatchType, BookType
<1>8. /\ r.held = g /\ r.left = m.left - x /\ r.trades = Append(m.trades, <<id, x>>)
      /\ r.quotes = m.quotes + 1 + posts
      /\ r = [held |-> r.held, left |-> r.left, trades |-> r.trades, quotes |-> r.quotes]
  BY <1>1, <1>6 DEF MatchType
<1>9. posts \in {1, 2}
  BY PostsAre
<1>10. x \in Nat /\ x > 0 /\ x <= b.order[id].qty /\ x <= m.left /\ (~filled => x = m.left)
  <2> DEFINE q == b.order[id].qty
  <2>1. q \in 1..MaxQuantity
    BY <1>5
  <2> HIDE DEF q
  <2>2. Min2(m.left, q) \in Nat /\ Min2(m.left, q) > 0 /\ Min2(m.left, q) <= q
        /\ Min2(m.left, q) <= m.left /\ (Min2(m.left, q) # q => Min2(m.left, q) = m.left)
    BY <1>5, <2>1, WidthAssumption DEF Min2
  <2> QED BY <2>2 DEF q
<1> DEFINE hh == m.held
<1>11. /\ Running(g, out, k) /\ g.book.seq = b.seq
       /\ ~filled => Shortened(b, g.book, id, s, b.best[s], x)
       /\ filled => /\ \E i : Leaves(b, g.book, id, s, b.best[s], i)
                    /\ g.book.index = b.index \ {id}
  <2>1. /\ Running(hh, out, k) /\ hh.book.best[s] # NoPrice /\ id = FrontOf(hh.book, s)
        /\ x \in Nat /\ x > 0 /\ x <= hh.book.order[id].qty
        /\ g = Advanced(hh, s, id, x)
    BY <1>1, <1>2, <1>10
  <2>2. b = hh.book
    OBVIOUS
  <2> HIDE DEF hh, b, id, x, g
  <2>3. /\ Running(g, out, k) /\ g.book.seq = hh.book.seq
        /\ x # hh.book.order[id].qty => Shortened(hh.book, g.book, id, s, hh.book.best[s], x)
        /\ x = hh.book.order[id].qty =>
              /\ \E i : Leaves(hh.book, g.book, id, s, hh.book.best[s], i)
              /\ g.book.index = hh.book.index \ {id}
    BY <2>1, FillKeepsLifecycles
  <2> QED BY <2>2, <2>3
<1> HIDE DEF g, x, posts
<1>12. /\ g \in HeldType /\ Sound(g.book) /\ Sums(g.book) /\ IsFiniteSet(g.book.index)
  BY <1>11, RunningFacts
<1>13. r \in MatchType
  <2>1. r.left \in 0..MaxQuantity
    BY <1>5, <1>8, <1>10, WidthAssumption
  <2>2. <<id, x>> \in OrderId \X Nat
    BY <1>7, <1>10
  <2> HIDE DEF id
  <2>3. r.trades \in Seq(OrderId \X Nat)
    BY <2>2, <1>7, <1>8, AppendProperties
  <2>4. r.quotes \in Nat
    BY <1>7, <1>8, <1>9
  <2> QED BY <2>1, <2>3, <2>4, <1>8, <1>12 DEF MatchType
<1>14. b.best[s] \in CrossingPrices(b, s, limit)
  BY <1>2, <1>3, BestIsWithinReach
<1>15. Offered(g.book, s, limit) = Offered(b, s, limit) - x
  <2>1. CASE filled
    <3>1. PICK i : Leaves(b, g.book, id, s, b.best[s], i)
      BY <2>1, <1>11
    <3> QED BY <2>1, <3>1, <1>3, <1>4, <1>12, <1>14, OfferedLeaves
  <2>2. CASE ~filled
    <3>1. Shortened(b, g.book, id, s, b.best[s], x)
      BY <2>2, <1>11
    <3> QED BY <3>1, <1>3, <1>10, <1>12, <1>14, OfferedShortened
  <2> QED BY <2>1, <2>2
<1>16. r.left - Min2(r.left, Offered(r.held.book, s, limit)) = rest
  <2> DEFINE off == Offered(b, s, limit)
             left == m.left
  <2>1. off \in Nat /\ Offered(g.book, s, limit) \in Nat
    BY <1>3, <1>12, OfferedTyped
  <2>2. off - x \in Nat /\ left \in Nat /\ x \in Nat /\ x <= left
    BY <2>1, <1>5, <1>10, <1>15
  <2>3. left - Min2(left, off) = rest
    BY <1>1
  <2> HIDE DEF off, left
  <2>4. (left - x) - Min2(left - x, off - x) = rest
    BY <2>1, <2>2, <2>3, RestStays
  <2> QED BY <2>4, <1>8, <1>15 DEF off, left
<1>17. \A p \in Price : g.book.total[Opposite(s)][p] = h.book.total[Opposite(s)][p]
  <2>1. Opposite(s) \in Side /\ Opposite(s) # s
    BY OppositeIs
  <2>2. SameElsewhere(b, g.book, s, b.best[s])
    BY <1>11 DEF Leaves, Shortened
  <2>3. \A p \in Price : g.book.total[Opposite(s)][p] = b.total[Opposite(s)][p]
    BY <2>1, <2>2 DEF SameElsewhere
  <2> QED BY <2>3, <1>1
<1>18. g.book.index \subseteq h.book.index
  BY <1>1, <1>11 DEF Shortened
<1>19. r.left = 0 \/ Cardinality(r.held.book.index) = Cardinality(b.index) - 1
  <2>1. CASE filled
    <3>1. r.held.book.index = b.index \ {id}
      BY <2>1, <1>8, <1>11
    <3>2. Cardinality(b.index \ {id}) = Cardinality(b.index) - 1
      <4>1. id \in b.index /\ IsFiniteSet(b.index)
        BY <1>3, <1>4
      <4> HIDE DEF id, b
      <4> QED BY <4>1, FS_RemoveElement
    <3> QED BY <3>1, <3>2
  <2>2. CASE ~filled
    BY <2>2, <1>5, <1>8, <1>10
  <2> QED BY <2>1, <2>2
<1> QED
  BY <1>1, <1>8, <1>11, <1>13, <1>16, <1>17, <1>18, <1>19 DEF UnderWay

(* One turn.                                                               *)
LEMMA TurnKeeps ==
  ASSUME NEW h, NEW s \in Side, NEW limit \in Price \cup {NoPrice}, NEW out, NEW k \in Nat,
         NEW rest, NEW m \in UnderWay(h, s, limit, out, k, rest),
         NEW r, r = Turn(s, limit, m)
  PROVE  /\ r \in UnderWay(h, s, limit, out, k, rest)
         /\ ~Goes(m, s, limit) => r = m
         /\ Goes(m, s, limit) =>
              \/ r.left = 0
              \/ Cardinality(r.held.book.index) = Cardinality(m.held.book.index) - 1
<1>1. CASE Goes(m, s, limit)
  <2>1. r = Fill(s, m)
    BY <1>1 DEF Goes, Turn
  <2> QED BY <1>1, <2>1, FillKeeps
<1>2. CASE ~Goes(m, s, limit)
  BY <1>2 DEF Goes, Turn
<1> QED
  BY <1>1, <1>2

(* What FoldLeft iterates in Matched.                                      *)
Turns(g, start, n, s, limit) ==
  g = [T \in SUBSET (1..n) |->
         IF T = {} THEN start ELSE Turn(s, limit, g[T \ {Max(T)}])]

(* The loop stays in V, and goes from each F[k - 1] to F[k].               *)
TurnsIn(V, n, s, limit) ==
  \A k \in 1..n, x \in V : Turn(s, limit, x) \in V
TurnsSteps(F, n, s, limit) ==
  \A k \in 1..n : F[k] = Turn(s, limit, F[k - 1])

(* It turns as often as there are orders.                                  *)
LEMMA TurnsRun ==
  ASSUME NEW n \in Nat, NEW s, NEW limit, NEW V, NEW start \in V,
         TurnsIn(V, n, s, limit)
  PROVE  \E F : /\ F \in [0..n -> V] /\ F[0] = start
               /\ TurnsSteps(F, n, s, limit)
               /\ F[n] = (CHOOSE g : Turns(g, start, n, s, limit))[1..n]
<1> DEFINE step == [k \in 1..n |-> [x \in V |-> Turn(s, limit, x)]]
           iter == CHOOSE g : Turns(g, start, n, s, limit)
<1>1. IsStep(step, n, V)
  BY DEF IsStep, TurnsIn
<1>2. \A k \in 1..n, x \in V : step[k][x] = Turn(s, limit, x)
  OBVIOUS
<1> HIDE DEF step
<1>4. PICK g \in [SUBSET (1..n) -> V] : FoldsUp(g, n, V, start, step)
  BY <1>1, FoldExists, Zenon
<1>5. Turns(g, start, n, s, limit)
  <2>1. ASSUME NEW T \in SUBSET (1..n)
        PROVE  g[T] = IF T = {} THEN start ELSE Turn(s, limit, g[T \ {Max(T)}])
    <3>1. CASE T # {}
      <4>1. Max(T) \in 1..n
        BY <3>1, MaxOfPart
      <4>2. T \ {Max(T)} \in SUBSET (1..n)
        OBVIOUS
      <4>3. g[T \ {Max(T)}] \in V
        BY <4>2
      <4>4. g[T] = step[Max(T)][g[T \ {Max(T)}]]
        BY <1>4, <3>1, <4>3, Zenon DEF FoldsUp
      <4>5. step[Max(T)][g[T \ {Max(T)}]] = Turn(s, limit, g[T \ {Max(T)}])
        BY <1>2, <4>1, <4>3, Zenon
      <4> QED BY <3>1, <4>4, <4>5
    <3>2. CASE T = {}
      BY <3>2, <1>4 DEF FoldsUp
    <3> QED BY <3>1, <3>2
  <2> QED BY <2>1 DEF Turns
<1>6. Turns(iter, start, n, s, limit)
  BY <1>5, Zenon
<1>7. \A T \in SUBSET (1..n) :
        iter[T] = IF T = {} THEN start ELSE Turn(s, limit, iter[T \ {Max(T)}])
  <2> HIDE DEF iter
  <2> QED BY <1>6 DEF Turns
<1> HIDE DEF iter
<1>8. FoldsUp(iter, n, V, start, step)
  <2>1. \A T \in SUBSET (1..n) : T # {} => Max(T) \in 1..n
    BY MaxOfPart
  <2>2. \A T \in SUBSET (1..n) :
          T # {} /\ iter[T \ {Max(T)}] \in V
            => iter[T] = step[Max(T)][iter[T \ {Max(T)}]]
    <3> TAKE T \in SUBSET (1..n)
    <3> HAVE T # {} /\ iter[T \ {Max(T)}] \in V
    <3>1. iter[T] = Turn(s, limit, iter[T \ {Max(T)}])
      BY <1>7
    <3>2. Max(T) \in 1..n
      BY <2>1
    <3>3. step[Max(T)][iter[T \ {Max(T)}]] = Turn(s, limit, iter[T \ {Max(T)}])
      BY <1>2, <3>2, Zenon
    <3> QED BY <3>1, <3>3
  <2>3. iter[{}] = start
    BY <1>7
  <2> QED BY <2>2, <2>3 DEF FoldsUp
<1>9. PICK F : Steps(F, n, V, start, step) /\ iter[1..n] = F[n]
  BY <1>1, <1>8, FoldPrefixes
<1>10. F \in [0..n -> V] /\ F[0] = start /\ \A k \in 1..n : F[k] = step[k][F[k - 1]]
  BY <1>9 DEF Steps
<1>11. \A k \in 1..n : F[k] = Turn(s, limit, F[k - 1])
  <2> TAKE k \in 1..n
  <2>1. k - 1 \in 0..n
    OBVIOUS
  <2>2. F[k - 1] \in V
    BY <1>10, <2>1
  <2>3. step[k][F[k - 1]] = Turn(s, limit, F[k - 1])
    BY <1>2, <2>2, Zenon
  <2> QED BY <2>3, <1>10
<1> QED
  BY <1>9, <1>10, <1>11 DEF iter, TurnsSteps

(* A match ends because nothing is left, or nothing is within reach; what  *)
(* is left is what the other side does not offer.                          *)
LEMMA MatchedIs ==
  ASSUME NEW h, NEW s \in Side, NEW limit \in Price \cup {NoPrice}, NEW out, NEW k \in Nat,
         Running(h, out, k), NEW qty \in 0..MaxQuantity,
         NEW rest, rest = qty - Min2(qty, Offered(h.book, s, limit)),
         NEW r, r = Matched(h, s, qty, limit)
  PROVE  /\ r \in UnderWay(h, s, limit, out, k, rest)
         /\ ~Goes(r, s, limit)
         /\ r.left = rest
<1> DEFINE start == [held |-> h, left |-> qty, trades |-> <<>>, quotes |-> 0]
           n == Cardinality(h.book.index)
           V == UnderWay(h, s, limit, out, k, rest)
<1>1. /\ n \in Nat /\ h \in HeldType
  BY RunningFacts
<1>2. start \in V
  <2> DEFINE none == <<>>
  <2>1. none \in Seq(OrderId \X Nat)
    BY EmptySeq
  <2>2. start = [held |-> h, left |-> qty, trades |-> none, quotes |-> 0]
    OBVIOUS
  <2> HIDE DEF none, start
  <2>3. start \in MatchType /\ start.held = h /\ start.left = qty
    BY <2>1, <2>2, <1>1 DEF MatchType
  <2> QED BY <2>3 DEF UnderWay
<1>3. r = (CHOOSE g : Turns(g, start, n, s, limit))[1..n]
  <2>1. DOMAIN [j \in 1..n |-> j] = 1..n
    OBVIOUS
  <2> QED BY <2>1 DEF Matched, FoldLeft, MapThenFoldSet, Turns
<1> HIDE DEF start, V, n
<1>4. TurnsIn(V, n, s, limit)
  BY TurnKeeps DEF TurnsIn, V
<1>5. PICK F : /\ F \in [0..n -> V] /\ F[0] = start
               /\ TurnsSteps(F, n, s, limit)
               /\ F[n] = (CHOOSE g : Turns(g, start, n, s, limit))[1..n]
  BY <1>1, <1>2, <1>4, TurnsRun
<1>6. F[n] = r /\ \A j \in 0..n : F[j] \in V
  BY <1>3, <1>5
<1> DEFINE Few(j) == Goes(F[j], s, limit) => Cardinality(F[j].held.book.index) <= n - j
           P == {j \in Nat : j <= n => Few(j)}
<1>7. 0 \in P
  <2>1. F[0].held = h
    BY <1>5 DEF start
  <2>2. Cardinality(F[0].held.book.index) <= n - 0
    BY <2>1, <1>1 DEF n
  <2> QED BY <2>2
<1>8. ASSUME NEW j \in P PROVE j + 1 \in P
  <2>0. j \in Nat /\ (j <= n => Few(j))
    OBVIOUS
  <2> HIDE DEF Few
  <2>1. SUFFICES ASSUME j + 1 <= n PROVE Few(j + 1)
    BY <2>0
  <2>2. j \in 0..n /\ j + 1 \in 1..n /\ Few(j) /\ (j + 1) - 1 = j
    BY <1>1, <2>0, <2>1
  <2> DEFINE a == F[j]
             c == F[j + 1]
  <2>3. a \in V /\ c = Turn(s, limit, a)
    BY <1>5, <1>6, <2>2 DEF TurnsSteps
  <2> HIDE DEF a, c
  <2>4. /\ ~Goes(a, s, limit) => c = a
        /\ Goes(a, s, limit) =>
              \/ c.left = 0
              \/ Cardinality(c.held.book.index) = Cardinality(a.held.book.index) - 1
    BY <2>3, TurnKeeps DEF V
  <2>5. Goes(a, s, limit) => Cardinality(a.held.book.index) <= n - j
    BY <2>2 DEF Few, a
  <2>6. Cardinality(a.held.book.index) \in Nat
    <3>1. Running(a.held, out, k)
      BY <2>3 DEF V, UnderWay
    <3> QED BY <3>1, RunningFacts
  <2>7. Goes(c, s, limit) => Cardinality(c.held.book.index) <= n - (j + 1)
    <3> HAVE Goes(c, s, limit)
    <3>1. c.left # 0
      BY DEF Goes
    <3>2. Goes(a, s, limit)
      BY <2>4
    <3>3. Cardinality(c.held.book.index) = Cardinality(a.held.book.index) - 1
      BY <3>1, <3>2, <2>4
    <3> QED BY <3>2, <3>3, <2>2, <2>5, <2>6, <1>1
  <2> QED BY <2>7 DEF Few, c
<1>9. P \in SUBSET Nat
  OBVIOUS
<1>10. n \in P
  <2> HIDE DEF P
  <2> QED BY <1>1, <1>7, <1>8, <1>9, Induction
<1>11. Goes(r, s, limit) => Cardinality(r.held.book.index) <= 0
  <2>1. Few(n)
    BY <1>1, <1>10
  <2> QED BY <2>1, <1>1, <1>6
<1>12. /\ r \in V /\ Running(r.held, out, k)
       /\ r.left \in 0..MaxQuantity
       /\ r.left - Min2(r.left, Offered(r.held.book, s, limit)) = rest
  <2>1. r \in V
    BY <1>1, <1>6
  <2> QED BY <2>1 DEF V, UnderWay, MatchType
<1> DEFINE b == r.held.book
<1>13. /\ Sound(b) /\ IsFiniteSet(b.index) /\ Sums(b)
       /\ \A id \in b.index : b.order[id].qty # 0
  BY <1>12, RunningFacts
<1>14. ~Goes(r, s, limit)
  <2> SUFFICES ASSUME Goes(r, s, limit) PROVE FALSE
    OBVIOUS
  <2>1. b.best[s] # NoPrice
    BY DEF Goes
  <2>2. FrontOf(b, s) \in b.index
    BY <2>1, <1>13, FrontIsIndexed DEF FrontOf
  <2>3. Cardinality(b.index) \in Nat /\ Cardinality(b.index) <= 0
    BY <1>11, <1>13, FS_CardinalityType
  <2>4. Cardinality(b.index) = 0
    BY <2>3
  <2>5. b.index = {}
    BY <2>4, <1>13, FS_EmptySet
  <2> QED BY <2>2, <2>5
<1>15. r.left = rest
  <2>1. CASE r.left = 0
    <3>1. Offered(b, s, limit) \in Nat
      BY <1>13, OfferedTyped
    <3>2. Min2(0, Offered(b, s, limit)) = 0
      BY <3>1 DEF Min2
    <3> QED BY <2>1, <3>2, <1>12
  <2>2. CASE r.left # 0
    <3>1. CrossingPrices(b, s, limit) = {}
      <4>1. CASE b.best[s] = NoPrice
        BY <4>1 DEF CrossingPrices
      <4>2. CASE b.best[s] # NoPrice
        <5>1. ~Crosses(s, b.best[s], limit)
          BY <2>2, <4>2, <1>14 DEF Goes
        <5> QED BY <5>1, <4>2, <1>13, BestIsWithinReach
      <4> QED BY <4>1, <4>2
    <3>2. Offered(b, s, limit) = 0
      BY <3>1, <1>13, NothingOffered
    <3>3. Min2(r.left, 0) = 0
      BY <1>12, WidthAssumption DEF Min2
    <3> QED BY <3>2, <3>3, <1>12, WidthAssumption
  <2> QED BY <2>1, <2>2
<1> QED
  BY <1>12, <1>14, <1>15 DEF V

-----------------------------------------------------------------------------
(* What an engine holds for an instrument, and its commands                *)

(* A book between two commands of instrument i.                            *)
HeldOk(i, h) == Running(h, {}, 0) /\ h.book.used <= MaxOrders[i]

(* Slots and numbers may be counted at any time.                           *)
LEMMA RecountedRuns ==
  ASSUME NEW b, Kept(b), Sums(b), Sequenced(b), NEW used \in Nat, NEW seq \in 0..MaxSequence,
         \A id \in b.index : b.order[id].seq <= seq,
         NEW c, c = Recounted(b, used, seq)
  PROVE  /\ Kept(c) /\ Sums(c) /\ Sequenced(c)
         /\ c.order = b.order /\ c.index = b.index /\ c.used = used /\ c.seq = seq
         /\ c.level = b.level /\ c.total = b.total /\ c.best = b.best
<1>1. b \in BookType /\ b.index \subseteq OrderId
  BY DEF Kept, Sound, BookType
<1>2. /\ c.order = b.order /\ c.level = b.level /\ c.total = b.total /\ c.index = b.index
      /\ c.seq = seq /\ c.used = used /\ c.best = b.best
  BY <1>1 DEF BookType, Recounted
<1>3. \A fifo : QuantityOf(c, fifo) = QuantityOf(b, fifo)
  <2>1. QuantitiesOf(c) = QuantitiesOf(b)
    BY <1>2 DEF QuantitiesOf
  <2> QED BY <2>1, QuantityIsAdded
<1>4. Sums(c)
  BY <1>2, <1>3 DEF Sums
<1>5. InLine(c) /\ Apart(c)
  BY <1>2 DEF InLine, Apart, Sequenced
<1>6. Numbered(c)
  <2>1. ASSUME NEW id \in c.index PROVE c.order[id].seq \in 1..c.seq
    <3>1. b.order[id].seq \in 1..b.seq /\ b.seq \in 0..MaxSequence /\ b.order[id].seq <= seq
      BY <1>1, <1>2, <2>1 DEF Sequenced, Numbered, BookType
    <3> QED BY <3>1, <1>2, WidthAssumption
  <2> QED BY <2>1 DEF Numbered
<1>7. Kept(c)
  BY SlotsAndSequence
<1> QED
  BY <1>2, <1>4, <1>5, <1>6, <1>7 DEF Sequenced

(* The counters of the two logs are not part of the book.                  *)
Counted(h, events, feed) == [h EXCEPT !.events = events, !.feed = feed]

(* Counting events and quotes changes nothing else that is held.           *)
LEMMA CountersRun ==
  ASSUME NEW h, NEW out, NEW k, Running(h, out, k), NEW events \in Nat, NEW feed \in Nat,
         NEW g, g = Counted(h, events, feed)
  PROVE  Running(g, out, k) /\ g.book = h.book
<1>1. h \in HeldType
  BY DEF Running
<1>2. /\ g.book = h.book /\ g.initial = h.initial /\ g.partly = h.partly
      /\ g \in HeldType
  BY <1>1 DEF HeldType, Counted
<1> QED
  BY <1>2 DEF Running, Lifecycles

(* The end of a command numbers its events and leaves the book.            *)
LEMMA OutcomeRuns ==
  ASSUME NEW h, h.events \in Nat, h.feed \in Nat, NEW g, NEW out, NEW k, Running(g, out, k),
         NEW status, NEW trades, NEW events \in Nat, NEW quotes \in Nat,
         NEW r, r = Outcome(h, g, status, trades, events, quotes)
  PROVE  Running(r.held, out, k) /\ r.held.book = g.book
<1> DEFINE e == h.events + events
           f == h.feed + quotes
<1>1. e \in Nat /\ f \in Nat
  OBVIOUS
<1>2. r.held = Counted(g, e, f)
  BY DEF Outcome, Counted
<1> HIDE DEF e, f
<1> QED
  BY <1>1, <1>2, CountersRun

(* A refusal leaves the book alone.                                        *)
LEMMA RefusedRuns ==
  ASSUME NEW i, NEW h, HeldOk(i, h), NEW status, NEW r, r = Refused(h, status)
  PROVE  HeldOk(i, r.held)
<1>1. /\ Running(h, {}, 0) /\ h.book.used <= MaxOrders[i] /\ h \in HeldType
      /\ h.events \in Nat /\ h.feed \in Nat
  BY DEF HeldOk, Running, HeldType
<1> DEFINE o == Outcome(h, h, status, <<>>, 1, 0)
           e == IF status = "PriceLevelQuantityOverflow" THEN h.events ELSE h.events + 1
<1>2. o.held = [h EXCEPT !.events = h.events + 1, !.feed = h.feed + 0]
  BY DEF Outcome
<1>3. r = [o EXCEPT !.held.events = IF status = "PriceLevelQuantityOverflow" THEN h.events ELSE @]
  BY DEF Refused
<1>4. o = [held |-> o.held, status |-> status, trades |-> <<>>, events |-> 1, quotes |-> 0]
  BY DEF Outcome
<1>5. e \in Nat /\ h.feed + 0 = h.feed
  BY <1>1
<1>6. r.held = Counted(h, e, h.feed)
  <2>1. r.held = [o.held EXCEPT !.events = IF status = "PriceLevelQuantityOverflow" THEN h.events ELSE @]
    BY <1>3, <1>4
  <2>2. o.held.events = h.events + 1
    BY <1>1, <1>2 DEF HeldType
  <2>3. r.held = [o.held EXCEPT !.events = e]
    BY <2>1, <2>2
  <2> HIDE DEF o, e
  <2> QED BY <2>3, <1>1, <1>2, <1>5 DEF HeldType, Counted
<1> HIDE DEF e
<1>7. Running(r.held, {}, 0) /\ r.held.book = h.book
  <2>1. PICK out, k, feed, held : out = {} /\ k = 0 /\ feed = h.feed /\ held = r.held
    OBVIOUS
  <2>2. Running(h, out, k)
    BY <2>1, <1>1
  <2>3. feed \in Nat /\ held = Counted(h, e, feed)
    BY <2>1, <1>1, <1>6
  <2>4. e \in Nat
    BY <1>5
  <2>5. Running(held, out, k) /\ held.book = h.book
    BY <2>2, <2>3, <2>4, CountersRun
  <2> QED BY <2>1, <2>5
<1> QED
  BY <1>1, <1>7 DEF HeldOk

(* A new order for qty has a place in the book.                            *)
MayRest(b, id, s, p, qty) ==
  /\ id \notin b.index /\ qty \in 1..MaxQuantity
  /\ qty <= MaxQuantity - b.total[s][p]
  /\ \/ b.best[Opposite(s)] = NoPrice
     \/ ~Crosses(Opposite(s), b.best[Opposite(s)], p)

(* What is left of match m may rest as order id.                           *)
ToRest(h, m, out, id, s, p) ==
  /\ h.events \in Nat /\ h.feed \in Nat
  /\ Running(m.held, out, 1) /\ m.trades \in Seq(OrderId \X Nat) /\ m.quotes \in Nat
  /\ id \in OrderId /\ s \in Side /\ p \in Price
  /\ MayRest(m.held.book, id, s, p, m.left) /\ out \subseteq {id}

(* What is left of an order rests, in the slot taken for it.               *)
LEMMA RestsOk ==
  ASSUME NEW i, NEW h, NEW m, NEW out, NEW id, NEW s, NEW p, ToRest(h, m, out, id, s, p),
         m.held.book.used <= MaxOrders[i], NEW before \in Nat, NEW quotes \in Nat,
         NEW r, r = RestsAfter(h, m, id, s, p, before, quotes)
  PROVE  HeldOk(i, r.held)
<1> USE DEF MayRest
<1>0. /\ h.events \in Nat /\ h.feed \in Nat
      /\ Running(m.held, out, 1) /\ m.trades \in Seq(OrderId \X Nat) /\ m.quotes \in Nat
      /\ id \in OrderId /\ s \in Side /\ p \in Price
      /\ MayRest(m.held.book, id, s, p, m.left) /\ out \subseteq {id}
  BY DEF ToRest
<1> USE <1>0
<1> DEFINE b == m.held.book
           left == m.left
           c == Rested(b, id, s, p, left, Anonymous)
           g == [m.held EXCEPT !.book = c, !.initial[id] = left, !.partly = @ \ {id}]
           posts == Posts(b, c, s)
<1>1. /\ m.held \in HeldType /\ b \in BookType /\ Kept(b) /\ Sound(b) /\ Sums(b) /\ Sequenced(b)
      /\ Uncrossed(b) /\ IsFiniteSet(b.index) /\ Cardinality(b.index) \in Nat
      /\ b.used = Cardinality(b.index) + 1 /\ b.index \subseteq OrderId
      /\ m.held.initial \in [OrderId -> 0..MaxQuantity] /\ m.held.partly \subseteq OrderId
  BY RunningFacts
<1>2. Lifecycles(m.held, out)
  BY DEF Running
<1>3. left \in 1..MaxQuantity /\ left \in 0..MaxQuantity
  BY WidthAssumption
<1>4. posts \in {1, 2}
  BY PostsAre
<1>5. r = Outcome(h, g, TradeStatus(m, "Accepted"), m.trades,
                  before + Len(m.trades) + 1, quotes + m.quotes + posts)
  BY DEF RestsAfter
<1>6. before + Len(m.trades) + 1 \in Nat /\ quotes + m.quotes + posts \in Nat
  BY <1>4, LenProperties
<1> DEFINE hh == m.held
<1>7. /\ g.book = c /\ g.events = hh.events /\ g.feed = hh.feed
      /\ g.initial = [hh.initial EXCEPT ![id] = left] /\ g.partly = hh.partly \ {id}
      /\ g = [book |-> g.book, initial |-> g.initial, partly |-> g.partly,
              events |-> g.events, feed |-> g.feed]
  <2>1. hh \in HeldType
    BY <1>1
  <2> HIDE DEF c, left, hh
  <2>2. g = [hh EXCEPT !.book = c, !.initial[id] = left, !.partly = @ \ {id}]
    BY DEF hh
  <2> HIDE DEF g
  <2> QED BY <2>1, <2>2 DEF HeldType
<1>8. /\ Sound(c) /\ Sums(c) /\ c.index = b.index \cup {id} /\ c.used = b.used
      /\ Occupied(c, s) = Occupied(b, s) \cup {p}
      /\ \A t \in Side \ {s} : Occupied(c, t) = Occupied(b, t)
      /\ SameBut(b, c, id)
  <2>1. /\ Sound(b) /\ Sums(b) /\ id \notin b.index /\ left \in 0..MaxQuantity
        /\ left <= MaxQuantity - b.total[s][p] /\ Anonymous \in Participant
        /\ c = Rested(b, id, s, p, left, Anonymous)
    BY <1>1, <1>3, ParticipantAssumption
  <2> HIDE DEF c, b, left
  <2> QED BY <2>1, RestedSound, RestedSums
<1>9. Sequenced(c)
  BY <1>1, RestedSequenced
<1>10. c.order[id] = [side |-> s, price |-> p, qty |-> left, seq |-> NextSequence(b), owner |-> Anonymous]
  BY <1>1 DEF Rested, BookType
<1>11. Uncrossed(c)
  BY <1>1, <1>8, UncrossedGrows
<1>12. /\ IsFiniteSet(c.index) /\ Cardinality(c.index) = Cardinality(b.index) + 1
  <2>1. IsFiniteSet(b.index \cup {id}) /\ Cardinality(b.index \cup {id}) = Cardinality(b.index) + 1
    <3>1. IsFiniteSet(b.index) /\ id \notin b.index
      BY <1>1
    <3> HIDE DEF b
    <3> QED BY <3>1, FS_AddElement
  <2> QED BY <2>1, <1>8
<1> HIDE DEF c, g
<1>13. /\ g.initial \in [OrderId -> 0..MaxQuantity] /\ g.partly \subseteq OrderId
       /\ g.initial[id] = left /\ id \notin g.partly
       /\ \A y \in OrderId : y # id =>
            /\ g.initial[y] = hh.initial[y] /\ (y \in g.partly <=> y \in hh.partly)
            /\ c.order[y] = b.order[y]
  BY <1>1, <1>3, <1>7, <1>8 DEF SameBut
<1>14. g \in HeldType
  BY <1>1, <1>7, <1>8, <1>13 DEF HeldType, Sound
<1>15. Lifecycles(g, {})
  <2>1. ASSUME NEW y \in c.index
        PROVE  /\ c.order[y].qty \in 1..g.initial[y] /\ c.order[y].owner = Anonymous
               /\ y \in g.partly => c.order[y].qty < g.initial[y]
    <3>1. CASE y = id
      BY <3>1, <1>3, <1>10, <1>13, WidthAssumption
    <3>2. CASE y # id
      <4>1. y \in b.index /\ y \in OrderId
        BY <2>1, <3>2, <1>1, <1>8
      <4> QED BY <4>1, <3>2, <1>2, <1>13 DEF Lifecycles
    <3> QED BY <3>1, <3>2
  <2>2. ASSUME NEW y \in OrderId \ c.index
        PROVE  g.initial[y] = 0 /\ y \notin g.partly /\ c.order[y] = Blank
    <3>1. y \in OrderId \ b.index /\ y # id /\ y \notin out
      BY <2>2, <1>8
    <3> QED BY <3>1, <1>2, <1>13 DEF Lifecycles
  <2> QED BY <2>1, <2>2, <1>7 DEF Lifecycles
<1>16. Running(g, {}, 0)
  <2>1. c.used = Cardinality(c.index) + 0
    BY <1>1, <1>8, <1>12
  <2> QED BY <2>1, <1>7, <1>8, <1>9, <1>11, <1>12, <1>14, <1>15 DEF Running, Kept
<1> DEFINE n == before + Len(m.trades) + 1
           q == quotes + m.quotes + posts
           st == TradeStatus(m, "Accepted")
<1>17. n \in Nat /\ q \in Nat /\ r = Outcome(h, g, st, m.trades, n, q)
  BY <1>5, <1>6
<1> HIDE DEF n, q, st, posts
<1>18. Running(r.held, {}, 0) /\ r.held.book = g.book
  BY <1>16, <1>17, OutcomeRuns
<1> QED
  BY <1>7, <1>8, <1>18 DEF HeldOk

(* The orders an aggressor leaves are some of those there were.            *)
Advances(h, s, out, k, m) ==
  /\ m \in MatchType /\ Running(m.held, out, k)
  /\ m.held \in HeldType /\ m.left \in 0..MaxQuantity
  /\ m.trades \in Seq(OrderId \X Nat) /\ Len(m.trades) \in Nat /\ m.quotes \in Nat
  /\ m.held.book.index \subseteq h.book.index
  /\ m.held.book.used <= h.book.used /\ m.held.book.used \in Nat /\ h.book.used \in Nat
  /\ m.held.book.seq = h.book.seq
  /\ \A p \in Price : m.held.book.total[Opposite(s)][p] = h.book.total[Opposite(s)][p]

(* What every state of match has in common: an unfinished match has        *)
(* taken orders off the front of the other side and nothing else.          *)
LEMMA MatchFacts ==
  ASSUME NEW h, NEW s \in Side, NEW limit, NEW out, NEW k \in Nat, Running(h, out, k),
         NEW rest, NEW m \in UnderWay(h, s, limit, out, k, rest)
  PROVE  Advances(h, s, out, k, m)
<1>1. /\ m \in MatchType /\ Running(m.held, out, k) /\ m.held.book.index \subseteq h.book.index
      /\ m.held.book.seq = h.book.seq
      /\ \A p \in Price : m.held.book.total[Opposite(s)][p] = h.book.total[Opposite(s)][p]
  BY DEF UnderWay
<1>2. /\ m.held \in HeldType /\ m.left \in 0..MaxQuantity
      /\ m.trades \in Seq(OrderId \X Nat) /\ m.quotes \in Nat
  BY <1>1 DEF MatchType
<1>3. Len(m.trades) \in Nat
  BY <1>2, LenProperties
<1>4. m.held.book.used <= h.book.used /\ m.held.book.used \in Nat /\ h.book.used \in Nat
  <2>1. /\ IsFiniteSet(h.book.index) /\ Cardinality(h.book.index) \in Nat
        /\ h.book.used = Cardinality(h.book.index) + k /\ h.book.used \in Nat
    BY RunningFacts
  <2>2. /\ Cardinality(m.held.book.index) \in Nat
        /\ m.held.book.used = Cardinality(m.held.book.index) + k /\ m.held.book.used \in Nat
    BY <1>1, RunningFacts
  <2>3. Cardinality(m.held.book.index) <= Cardinality(h.book.index)
    BY <2>1, <1>1, FS_Subset
  <2> QED BY <2>1, <2>2, <2>3
<1> QED
  BY <1>1, <1>2, <1>3, <1>4 DEF Advances

(* A match, whichever book it starts from: what is left is what is not     *)
(* offered, and then nothing more is within reach.                         *)
MatchOf(h, s, limit, qty, out, k, m) ==
  /\ Advances(h, s, out, k, m)
  /\ m.left = qty - Min2(qty, Offered(h.book, s, limit))
  /\ \/ m.left = 0 \/ m.held.book.best[s] = NoPrice
     \/ ~Crosses(s, m.held.book.best[s], limit)

(* match stops at the limit, with nothing left, or with nothing to         *)
(* cross.                                                                  *)
LEMMA MatchRuns ==
  ASSUME NEW h, NEW s \in Side, NEW limit \in Price \cup {NoPrice}, NEW out, NEW k \in Nat,
         Running(h, out, k), NEW qty \in 0..MaxQuantity, NEW m, m = Matched(h, s, qty, limit)
  PROVE  MatchOf(h, s, limit, qty, out, k, m)
<1> DEFINE rest == qty - Min2(qty, Offered(h.book, s, limit))
<1>1. rest = qty - Min2(qty, Offered(h.book, s, limit))
  OBVIOUS
<1> HIDE DEF rest
<1>2. m \in UnderWay(h, s, limit, out, k, rest) /\ ~Goes(m, s, limit) /\ m.left = rest
  BY <1>1, MatchedIs
<1>3. m \in UnderWay(h, s, limit, out, k, rest)
  BY <1>2
<1>4. Advances(h, s, out, k, m)
  BY <1>3, MatchFacts
<1> QED
  BY <1>1, <1>2, <1>4 DEF Goes, MatchOf

(* match of a sound book leaves a sound one.                               *)
LEMMA HeldMatchRuns ==
  ASSUME NEW i, NEW h, HeldOk(i, h), MaxOrders[i] \in Nat,
         NEW s \in Side, NEW limit \in Price \cup {NoPrice},
         NEW qty \in 0..MaxQuantity, NEW m, m = Matched(h, s, qty, limit)
  PROVE  HeldOk(i, m.held) /\ MatchOf(h, s, limit, qty, {}, 0, m)
<1>1. PICK out, k : out = {} /\ k = 0
  OBVIOUS
<1>2. Running(h, out, k)
  BY <1>1 DEF HeldOk
<1>3. k \in Nat
  BY <1>1
<1>4. MatchOf(h, s, limit, qty, out, k, m)
  BY <1>2, <1>3, MatchRuns
<1>5. HeldOk(i, m.held)
  BY <1>1, <1>4 DEF HeldOk, MatchOf, Advances
<1> QED
  BY <1>1, <1>4, <1>5

(* An outcome with the book of g.                                          *)
LEMMA OutcomeOk ==
  ASSUME NEW i, NEW h, h.events \in Nat, h.feed \in Nat, NEW g, HeldOk(i, g),
         NEW status, NEW trades, NEW events \in Nat, NEW quotes \in Nat,
         NEW r, r = Outcome(h, g, status, trades, events, quotes)
  PROVE  HeldOk(i, r.held)
<1>1. PICK out, k : out = {} /\ k = 0
  OBVIOUS
<1>2. Running(g, out, k)
  BY <1>1 DEF HeldOk
<1>3. Running(r.held, out, k) /\ r.held.book = g.book
  BY <1>2, OutcomeRuns
<1> QED
  BY <1>1, <1>3 DEF HeldOk

(* What is known of an instrument's book, one by one.                      *)
LEMMA HeldFacts ==
  ASSUME NEW i \in Instrument, NEW h, HeldOk(i, h)
  PROVE  /\ h \in HeldType /\ h.book \in BookType
         /\ h.initial \in [OrderId -> 0..MaxQuantity] /\ h.partly \subseteq OrderId
         /\ h.events \in Nat /\ h.feed \in Nat
         /\ Kept(h.book) /\ Sound(h.book) /\ Sums(h.book) /\ Sequenced(h.book)
         /\ Uncrossed(h.book) /\ IsFiniteSet(h.book.index)
         /\ Cardinality(h.book.index) \in Nat /\ h.book.used \in Nat
         /\ h.book.index \subseteq OrderId
         /\ h.book.used = Cardinality(h.book.index)
         /\ MaxOrders[i] \in Nat /\ h.book.used <= MaxOrders[i]
         /\ h.book.index # {} => h.book.used > 0
         /\ Lifecycles(h, {})
         /\ \A id \in h.book.index :
              /\ h.book.order[id].qty # 0 /\ h.book.order[id].qty \in 1..MaxQuantity
              /\ h.initial[id] \in 1..MaxQuantity
<1>1. PICK out, k : out = {} /\ k = 0
  OBVIOUS
<1>2. Running(h, out, k) /\ h.book.used <= MaxOrders[i] /\ Lifecycles(h, {})
  BY <1>1 DEF HeldOk, Running
<1>3. k \in Nat
  BY <1>1
<1>4. /\ h \in HeldType /\ h.book \in BookType
      /\ h.initial \in [OrderId -> 0..MaxQuantity] /\ h.partly \subseteq OrderId
      /\ h.events \in Nat /\ h.feed \in Nat
      /\ Kept(h.book) /\ Sound(h.book) /\ Sums(h.book) /\ Sequenced(h.book)
      /\ Uncrossed(h.book) /\ IsFiniteSet(h.book.index)
      /\ Cardinality(h.book.index) \in Nat /\ h.book.used \in Nat
      /\ h.book.index \subseteq OrderId
      /\ h.book.used = Cardinality(h.book.index) + k
      /\ h.book.index # {} => h.book.used > 0
      /\ \A id \in h.book.index :
           /\ h.book.order[id].qty # 0 /\ h.book.order[id].qty \in 1..MaxQuantity
           /\ h.initial[id] \in 1..MaxQuantity
  BY <1>2, <1>3, RunningFacts
<1>5. MaxOrders[i] \in Nat
  BY InstrumentAssumption
<1>6. h.book.used = Cardinality(h.book.index)
  BY <1>1, <1>4
<1> QED
  BY <1>2, <1>4, <1>5, <1>6

(* The command's fields.                                                   *)
LEMMA CommandFields ==
  ASSUME NEW c \in Command
  PROVE  /\ c.id \in OrderId /\ c.side \in Side /\ c.price \in Price
         /\ c.qty \in 1..MaxQuantity /\ c.qty \in 0..MaxQuantity /\ c.price \in Price \cup {NoPrice}
         /\ c.instrument \in Instrument /\ c.op \in {"add", "market", "cancel", "modify", "replace"}
         /\ Opposite(c.side) \in Side /\ Opposite(Opposite(c.side)) = c.side
         /\ NoPrice \in Price \cup {NoPrice}
  BY WidthAssumption DEF Command, Opposite, Side

(* One more pool slot is taken for an order before it rests.               *)
LEMMA SlotTaken ==
  ASSUME NEW h, Running(h, {}, 0), h.book.seq \in 0..MaxSequence, NEW g, g = [h EXCEPT !.book.used = @ + 1]
  PROVE  /\ Running(g, {}, 1) /\ g.book.used = h.book.used + 1
         /\ g.book.index = h.book.index /\ g.book.total = h.book.total /\ g.book.best = h.book.best
<1> DEFINE b == h.book
           used == b.used + 1
           c == [b EXCEPT !.used = @ + 1]
<1>1. /\ h \in HeldType /\ b \in BookType /\ Kept(b) /\ Sums(b) /\ Sequenced(b)
      /\ b.used = Cardinality(b.index) + 0
  BY DEF Running, Kept, Sound
<1>2. /\ used \in Nat /\ \A id \in b.index : b.order[id].seq <= b.seq
  BY <1>1 DEF BookType, Sequenced, Numbered
<1>3. c = Recounted(b, used, b.seq)
  BY <1>1 DEF BookType, Recounted
<1>4. g.book = c /\ g.initial = h.initial /\ g.partly = h.partly
      /\ g.events = h.events /\ g.feed = h.feed
      /\ g = [book |-> g.book, initial |-> g.initial, partly |-> g.partly,
              events |-> g.events, feed |-> g.feed]
  BY <1>1 DEF HeldType
<1> DEFINE z == b.seq
<1>z. z \in 0..MaxSequence /\ c = Recounted(b, used, z) /\ (\A id \in b.index : b.order[id].seq <= z)
  BY <1>1, <1>2, <1>3
<1>u. used = b.used + 1
  OBVIOUS
<1> HIDE DEF c, used, z
<1>5. /\ Kept(c) /\ Sums(c) /\ Sequenced(c)
      /\ c.order = b.order /\ c.index = b.index /\ c.used = used /\ c.seq = z
      /\ c.level = b.level /\ c.total = b.total /\ c.best = b.best
  BY <1>1, <1>2, <1>z, RecountedRuns
<1>6. Lifecycles(g, {})
  BY <1>4, <1>5 DEF Running, Lifecycles
<1>7. g \in HeldType
  BY <1>1, <1>4, <1>5 DEF HeldType, Kept, Sound
<1>8. c.used = Cardinality(c.index) + 1
  <2>1. Cardinality(b.index) \in Nat
    BY <1>1, FS_CardinalityType DEF Kept
  <2> QED BY <2>1, <1>1, <1>5, <1>u
<1> QED
  BY <1>4, <1>5, <1>6, <1>7, <1>8, <1>u DEF Running

(* add_limit_order.                                                        *)
LEMMA AddOk ==
  ASSUME NEW i \in Instrument, NEW h, HeldOk(i, h), NEW c \in Command, NEW r, r = Add(i, h, c)
  PROVE  HeldOk(i, r.held)
<1> DEFINE b == h.book
           t == Opposite(c.side)
           left == c.qty - ExecutableQuantity(b, t, c.qty, c.price)
           m == Matched(h, t, c.qty, c.price)
           g == [m EXCEPT !.held.book.used = @ + 1]
<1>1. /\ c.id \in OrderId /\ c.side \in Side /\ c.price \in Price
      /\ c.qty \in 1..MaxQuantity /\ c.qty \in 0..MaxQuantity /\ c.price \in Price \cup {NoPrice}
      /\ t \in Side /\ Opposite(t) = c.side
  BY CommandFields
<1>2. /\ MaxOrders[i] \in Nat /\ h.events \in Nat /\ h.feed \in Nat
      /\ b.used <= MaxOrders[i] /\ b \in BookType /\ Sound(b) /\ IsFiniteSet(b.index) /\ b.used \in Nat
  BY HeldFacts
<1>3. left = c.qty - Min2(c.qty, Offered(b, t, c.price))
  BY ExecutableIsOffered
<1>4. r = IF c.id \in b.index THEN Refused(h, "DuplicateOrderId")
          ELSE IF left > 0 /\ MaxQuantity - b.total[c.side][c.price] < left
            THEN Refused(h, "PriceLevelQuantityOverflow")
          ELSE IF left > 0 /\ b.used = MaxOrders[i] THEN Refused(h, "PoolExhausted")
          ELSE IF left > 0
            THEN RestsAfter(h, g, c.id, c.side, c.price, 1, 0)
          ELSE Outcome(h, m.held, "Filled", m.trades, 1 + Len(m.trades), m.quotes)
  BY DEF Add
<1>5. /\ HeldOk(i, m.held) /\ Running(m.held, {}, 0)
      /\ m.left \in 0..MaxQuantity
      /\ m.trades \in Seq(OrderId \X Nat) /\ Len(m.trades) \in Nat /\ m.quotes \in Nat
      /\ m.held.book.index \subseteq b.index
      /\ m.held.book.used <= b.used /\ m.held.book.used \in Nat /\ b.used \in Nat
      /\ \A p \in Price : m.held.book.total[Opposite(t)][p] = b.total[Opposite(t)][p]
      /\ m.left = c.qty - Min2(c.qty, Offered(b, t, c.price))
      /\ \/ m.left = 0 \/ m.held.book.best[t] = NoPrice
         \/ ~Crosses(t, m.held.book.best[t], c.price)
      /\ m \in MatchType
  <2> DEFINE price == c.price
             qty == c.qty
  <2>1. m = Matched(h, t, qty, price)
    OBVIOUS
  <2>2. t \in Side /\ price \in Price \cup {NoPrice} /\ qty \in 0..MaxQuantity
    BY <1>1
  <2>3. MaxOrders[i] \in Nat
    BY <1>2
  <2> HIDE DEF m, t, price, qty
  <2>4. HeldOk(i, m.held) /\ MatchOf(h, t, price, qty, {}, 0, m)
    BY <2>1, <2>2, <2>3, HeldMatchRuns
  <2> QED BY <2>4 DEF MatchOf, Advances, b, price, qty
<1>6. m = [held |-> m.held, left |-> m.left, trades |-> m.trades, quotes |-> m.quotes]
  BY <1>5 DEF MatchType
<1> HIDE DEF m
<1>7. CASE ~(c.id \in b.index) /\ left > 0 /\ ~(MaxQuantity - b.total[c.side][c.price] < left)
           /\ ~(b.used = MaxOrders[i])
  <2>1. r = RestsAfter(h, g, c.id, c.side, c.price, 1, 0)
    BY <1>4, <1>7
  <2>2. /\ g.held = [m.held EXCEPT !.book.used = @ + 1] /\ g.left = m.left
        /\ g.trades = m.trades /\ g.quotes = m.quotes
    BY <1>6
  <2>3. m.held.book.seq \in 0..MaxSequence
    BY <1>5 DEF Running, HeldType, BookType
  <2> DEFINE d == g.held
  <2>4. d = [m.held EXCEPT !.book.used = @ + 1]
    BY <2>2
  <2> HIDE DEF d
  <2>5. /\ Running(d, {}, 1) /\ d.book.used = m.held.book.used + 1
        /\ d.book.index = m.held.book.index /\ d.book.total = m.held.book.total
        /\ d.book.best = m.held.book.best
    BY <2>3, <2>4, <1>5, SlotTaken
  <2>6. /\ Running(g.held, {}, 1)
        /\ g.trades \in Seq(OrderId \X Nat) /\ g.quotes \in Nat
        /\ c.id \notin g.held.book.index
        /\ g.left \in 1..MaxQuantity
    BY <2>2, <2>5, <1>3, <1>5, <1>7 DEF d
  <2>7. g.left <= MaxQuantity - g.held.book.total[c.side][c.price]
    <3>1. g.held.book.total[c.side][c.price] = b.total[c.side][c.price]
      BY <2>5, <1>1, <1>5 DEF d
    <3>2. b.total[c.side][c.price] \in 0..MaxQuantity /\ left \in Int /\ g.left = left
      BY <2>2, <1>1, <1>2, <1>3, <1>5, WidthAssumption DEF BookType
    <3> DEFINE total == b.total[c.side][c.price]
    <3> HIDE DEF total, left
    <3> QED BY <3>1, <3>2, <1>7, WidthAssumption DEF total
  <2>8. \/ g.held.book.best[t] = NoPrice
        \/ ~Crosses(t, g.held.book.best[t], c.price)
    BY <2>2, <2>5, <2>6, <1>5 DEF d
  <2> DEFINE id == c.id
             s == c.side
             p == c.price
  <2>9. PICK out, before, quotes : out = {} /\ before = 1 /\ quotes = 0
    OBVIOUS
  <2>10. Running(g.held, out, 1)
    BY <2>6, <2>9
  <2>17. id \in OrderId /\ s \in Side /\ p \in Price
    BY <1>1
  <2>18. id \notin g.held.book.index
    BY <2>6
  <2>19. out \subseteq {id}
    BY <2>9
  <2>20. h.events \in Nat /\ h.feed \in Nat
    BY <1>2
  <2>21. before \in Nat /\ quotes \in Nat
    BY <2>9
  <2>11. g.left <= MaxQuantity - g.held.book.total[s][p]
    BY <2>7
  <2>12. \/ g.held.book.best[Opposite(s)] = NoPrice
         \/ ~Crosses(Opposite(s), g.held.book.best[Opposite(s)], p)
    BY <2>8
  <2>13. r = RestsAfter(h, g, id, s, p, before, quotes)
    BY <2>1, <2>9
  <2>14. g.trades \in Seq(OrderId \X Nat) /\ g.quotes \in Nat /\ g.left \in 1..MaxQuantity
    BY <2>6
  <2>15. g.held.book.used <= MaxOrders[i]
    <3>1. b.used < MaxOrders[i]
      BY <1>2, <1>7
    <3> QED BY <3>1, <2>5, <1>2, <1>5 DEF d
  <2> HIDE DEF id, s, p, g, d, b
  <2>22. MayRest(g.held.book, id, s, p, g.left)
    BY <2>11, <2>12, <2>14, <2>18 DEF MayRest
  <2>23. g.trades \in Seq(OrderId \X Nat)
    BY <2>14
  <2>24. g.quotes \in Nat
    BY <2>14
  <2>16. ToRest(h, g, out, id, s, p)
    BY <2>10, <2>17, <2>19, <2>20, <2>22, <2>23, <2>24 DEF ToRest
  <2> QED BY <2>13, <2>15, <2>16, <2>21, RestsOk
<1>8. CASE ~(left > 0) /\ ~(c.id \in b.index)
  <2> DEFINE n == 1 + Len(m.trades)
  <2>1. r = Outcome(h, m.held, "Filled", m.trades, n, m.quotes)
    BY <1>4, <1>8
  <2>2. n \in Nat
    BY <1>5
  <2> HIDE DEF n
  <2> QED BY <2>1, <2>2, <1>2, <1>5, OutcomeOk
<1> HIDE DEF left, g
<1>9. CASE \E status : r = Refused(h, status)
  BY <1>9, RefusedRuns
<1> QED
  BY <1>4, <1>7, <1>8, <1>9

(* match_market_order.                                                     *)
LEMMA MarketOk ==
  ASSUME NEW i \in Instrument, NEW h, HeldOk(i, h), NEW c \in Command, NEW r, r = Market(h, c)
  PROVE  HeldOk(i, r.held)
<1> DEFINE t == Opposite(c.side)
           m == Matched(h, t, c.qty, NoPrice)
<1>1. c.qty \in 0..MaxQuantity /\ t \in Side
  BY CommandFields
<1>2. MaxOrders[i] \in Nat /\ h.events \in Nat /\ h.feed \in Nat
  BY HeldFacts
<1>3. PICK limit : limit = NoPrice
  OBVIOUS
<1>4. limit \in Price \cup {NoPrice} /\ m = Matched(h, t, c.qty, limit)
  BY <1>3
<1> DEFINE st == TradeStatus(m, "NoLiquidity")
           n == Len(m.trades)
<1>5. r = Outcome(h, m.held, st, m.trades, n, m.quotes)
  BY DEF Market
<1> HIDE DEF m, t
<1>6. HeldOk(i, m.held) /\ n \in Nat /\ m.quotes \in Nat
  <2> DEFINE qty == c.qty
  <2>1. t \in Side /\ qty \in 0..MaxQuantity /\ limit \in Price \cup {NoPrice}
    BY <1>1, <1>4
  <2>2. MaxOrders[i] \in Nat
    BY <1>2
  <2>3. m = Matched(h, t, qty, limit)
    BY <1>4
  <2> HIDE DEF qty
  <2>4. HeldOk(i, m.held) /\ MatchOf(h, t, limit, qty, {}, 0, m)
    BY <2>1, <2>2, <2>3, HeldMatchRuns
  <2> QED BY <2>4 DEF MatchOf, Advances, n
<1> HIDE DEF st, n
<1> QED
  BY <1>2, <1>5, <1>6, OutcomeOk

(* h forgets order id; its book becomes c.                                 *)
Gone(h, id, c) == [h EXCEPT !.book = c, !.initial[id] = 0, !.partly = @ \ {id}]

(* An order that is gone leaves no lifecycle behind.                       *)
LEMMA GoneIs ==
  ASSUME NEW h \in HeldType, NEW id \in OrderId, NEW c \in BookType, NEW g, g = Gone(h, id, c)
  PROVE  /\ g \in HeldType /\ g.book = c /\ g.events = h.events /\ g.feed = h.feed
         /\ g.initial[id] = 0 /\ g.partly = h.partly \ {id}
         /\ \A y \in OrderId : y # id => g.initial[y] = h.initial[y]
<1>1. /\ h.initial \in [OrderId -> 0..MaxQuantity] /\ h.partly \subseteq OrderId
      /\ h.events \in Nat /\ h.feed \in Nat
  BY DEF HeldType
<1>2. /\ g.book = c /\ g.events = h.events /\ g.feed = h.feed
      /\ g.initial = [h.initial EXCEPT ![id] = 0] /\ g.partly = h.partly \ {id}
      /\ g = [book |-> g.book, initial |-> g.initial, partly |-> g.partly,
              events |-> g.events, feed |-> g.feed]
  BY DEF HeldType, Gone
<1>3. g.initial \in [OrderId -> 0..MaxQuantity] /\ g.initial[id] = 0
      /\ \A y \in OrderId : y # id => g.initial[y] = h.initial[y]
  BY <1>1, <1>2, WidthAssumption
<1> QED
  BY <1>1, <1>2, <1>3 DEF HeldType

(* cancel_order.                                                           *)
LEMMA CancelOk ==
  ASSUME NEW i \in Instrument, NEW h, HeldOk(i, h), NEW c \in Command, NEW r, r = Cancel(h, c)
  PROVE  HeldOk(i, r.held)
<1>1. CASE c.id \notin h.book.index
  <2>1. PICK status : status = "UnknownOrderId"
    OBVIOUS
  <2>2. r = Refused(h, status)
    BY <1>1, <2>1 DEF Cancel
  <2> QED BY <2>2, RefusedRuns
<1>2. CASE c.id \in h.book.index
  <2> DEFINE id == c.id
             b == h.book
             d == Removed(b, id)
             g == Gone(h, id, d)
             quotes == Posts(b, d, b.order[id].side)
  <2>1. r = Outcome(h, g, "Cancelled", <<>>, 1, quotes)
    BY <1>2 DEF Cancel, Gone
  <2>2. quotes \in Nat
    BY PostsAre
  <2>3. /\ h \in HeldType /\ b \in BookType /\ h.events \in Nat /\ h.feed \in Nat
        /\ Kept(b) /\ Sound(b) /\ Sums(b) /\ Sequenced(b)
        /\ b.index \subseteq OrderId /\ b.used = Cardinality(b.index)
        /\ Cardinality(b.index) \in Nat /\ b.used > 0 /\ b.used \in Nat
        /\ MaxOrders[i] \in Nat /\ b.used <= MaxOrders[i]
        /\ Lifecycles(h, {})
    BY <1>2, HeldFacts
  <2>4. id \in b.index /\ id \in OrderId
    BY <1>2, <2>3
  <2> HIDE DEF id, b
  <2>5. /\ Sound(d) /\ Sums(d) /\ SameBut(b, d, id) /\ d.index = b.index \ {id}
        /\ \E s, p, n : Leaves(b, d, id, s, p, n)
    BY <2>3, <2>4, RemovedSums
  <2>6. Removable(b, id)
    BY <2>3, <2>4, TotalHasOrder DEF Removable
  <2>7. Kept(d) /\ Shrinks(b, d)
    <3>1. b.used >= Cardinality(b.index)
      BY <2>3
    <3> QED BY <3>1, <2>3, <2>4, <2>6, RemovedKept
  <2>8. d.seq = b.seq /\ d.order[id] = Blank
    <3>1. d = Removed(b, id)
      OBVIOUS
    <3> HIDE DEF d
    <3>2. Removed(b, id).seq = b.seq
      BY <2>3, <2>4, ChangesKeepCounter
    <3>3. Removed(b, id).order[id] = Blank
      BY <2>3, <2>4, RemovedBlank
    <3> QED BY <3>1, <3>2, <3>3
  <2>9. d.used = b.used - 1
    BY <2>3, <2>4, <2>6, RemovedSound
  <2>10. Cardinality(d.index) = Cardinality(b.index) - 1
    BY <2>3, <2>4, <2>5, RemovedCount
  <2>11. Sequenced(d)
    <3>1. PICK s, p, n : Leaves(b, d, id, s, p, n)
      BY <2>5
    <3> HIDE DEF d
    <3> QED BY <3>1, <2>3, <2>4, <2>5, <2>8, LeavesSequenced
  <2>12. d \in BookType
    BY <2>5 DEF Sound
  <2> HIDE DEF d
  <2>13. /\ g \in HeldType /\ g.book = d
         /\ g.initial[id] = 0 /\ g.partly = h.partly \ {id}
         /\ \A y \in OrderId : y # id => g.initial[y] = h.initial[y]
    BY <2>3, <2>4, <2>12, GoneIs
  <2> HIDE DEF g, quotes
  <2>14. Lifecycles(g, {})
    <3>1. PICK out : out = {}
      OBVIOUS
    <3>2. Lifecycles(h, out) /\ out \subseteq out /\ h.book.index \subseteq OrderId
      BY <3>1, <2>3 DEF b
    <3>3. /\ SameBut(h.book, g.book, id) /\ g.book.index = h.book.index \ {id}
          /\ g.book.order[id] = Blank
      BY <2>5, <2>8, <2>13 DEF b
    <3>4. Lifecycles(g, out)
      BY <3>2, <3>3, <2>4, <2>13, GoneLifecycles
    <3> QED BY <3>1, <3>4
  <2>15. HeldOk(i, g)
    <3>1. d.used = Cardinality(d.index) + 0 /\ d.used <= MaxOrders[i]
      BY <2>3, <2>9, <2>10
    <3> QED BY <3>1, <2>5, <2>7, <2>11, <2>13, <2>14 DEF HeldOk, Running
  <2> QED BY <2>1, <2>2, <2>3, <2>15, OutcomeOk
<1> QED
  BY <1>1, <1>2

(* modify and replace, when the order keeps its place.                     *)
LEMMA ReduceOk ==
  ASSUME NEW i \in Instrument, NEW h, HeldOk(i, h), NEW c \in Command,
         c.id \in h.book.index, c.qty <= h.book.order[c.id].qty, NEW r, r = Reduce(h, c)
  PROVE  HeldOk(i, r.held)
<1> DEFINE id == c.id
           qty == c.qty
           b == h.book
           d == Reduced(b, id, qty)
           g == [h EXCEPT !.book = d]
           quotes == Posts(b, d, b.order[id].side)
<1>1. /\ h \in HeldType /\ b \in BookType /\ h.events \in Nat /\ h.feed \in Nat
      /\ h.initial \in [OrderId -> 0..MaxQuantity]
      /\ Kept(b) /\ Sound(b) /\ Sums(b) /\ Sequenced(b)
      /\ b.index \subseteq OrderId /\ b.used = Cardinality(b.index)
      /\ MaxOrders[i] \in Nat /\ b.used <= MaxOrders[i]
      /\ Lifecycles(h, {})
  BY HeldFacts
<1>2. id \in b.index /\ id \in OrderId /\ qty \in 1..MaxQuantity /\ qty \in 0..MaxQuantity
      /\ qty <= b.order[id].qty
  BY CommandFields
<1>3. \/ r = Outcome(h, h, "Accepted", <<>>, 1, 0)
      \/ r = Outcome(h, g, "Accepted", <<>>, 1, quotes)
  BY DEF Reduce
<1>4. quotes \in Nat
  BY PostsAre
<1>5. g \in HeldType /\ g = [h EXCEPT !.book = d]
  <2>1. d \in BookType
    BY <1>1, <1>2, ReducedShortens DEF Sound
  <2> HIDE DEF d
  <2> QED BY <2>1, <1>1 DEF HeldType
<1> HIDE DEF id, qty, b, quotes
<1>6. Sound(d) /\ Sums(d) /\ d.order[id].qty = qty
  BY <1>1, <1>2, ReducedShortens
<1>7. PICK s, p, x : Shortened(b, d, id, s, p, x)
  BY <1>1, <1>2, ReducedShortens
<1>8. /\ b.order[id] \in Order /\ b.order[id].qty \in 1..MaxQuantity
      /\ b.order[id].qty - qty <= b.total[b.order[id].side][b.order[id].price]
  <2>1. b.order[id] \in Order /\ b.order[id].qty \in 0..MaxQuantity
        /\ b.total[b.order[id].side][b.order[id].price] \in 0..MaxQuantity
    BY <1>1, <1>2, OrderPlace DEF Order
  <2>2. b.order[id].qty <= b.total[b.order[id].side][b.order[id].price]
    BY <1>1, <1>2, TotalHasOrder DEF Removable
  <2> DEFINE y == b.order[id].qty
             z == b.total[b.order[id].side][b.order[id].price]
  <2>3. y \in 0..MaxQuantity /\ z \in 0..MaxQuantity /\ y <= z /\ qty <= y /\ qty \in 1..MaxQuantity
    BY <2>1, <2>2, <1>2
  <2> HIDE DEF y, z
  <2>4. y - qty <= z /\ y \in 1..MaxQuantity
    BY <2>3, WidthAssumption
  <2> QED BY <2>1, <2>4 DEF y, z
<1>9. Kept(d) /\ Shrinks(b, d)
  BY <1>1, <1>2, <1>8, ReducedKept
<1>10. d.seq = b.seq
  BY <1>1, <1>2, ChangesKeepCounter
<1>11. d.used = b.used
  BY <1>1, <1>2, <1>8, ReducedSound
<1> HIDE DEF d
<1>12. d.index = b.index /\ SameBut(b, d, id)
       /\ d.order[id] = [b.order[id] EXCEPT !.qty = b.order[id].qty - x]
  BY <1>7 DEF Shortened
<1>13. Sequenced(d)
  BY <1>1, <1>2, <1>7, <1>10, ShortenedSequenced
<1>14. /\ g.book = d /\ g.initial = h.initial /\ g.partly = h.partly
  BY <1>1, <1>5 DEF HeldType
<1> HIDE DEF g
<1>15. Lifecycles(g, {})
  <2>1. ASSUME NEW y \in d.index
        PROVE  /\ d.order[y].qty \in 1..h.initial[y] /\ d.order[y].owner = Anonymous
               /\ y \in h.partly => d.order[y].qty < h.initial[y]
    <3>1. y \in OrderId /\ h.initial[y] \in Nat
      BY <1>1, <1>12, <2>1, WidthAssumption
    <3>2. /\ b.order[y].qty \in 1..h.initial[y] /\ b.order[y].owner = Anonymous
          /\ y \in h.partly => b.order[y].qty < h.initial[y]
      BY <1>1, <1>12, <2>1 DEF Lifecycles, b
    <3>3. CASE y = id
      <4>1. d.order[id].owner = b.order[id].owner
        BY <1>8, <1>12 DEF Order
      <4>2. qty \in Nat /\ qty >= 1 /\ qty <= b.order[id].qty /\ b.order[id].qty \in Nat
        BY <1>2, <1>8, WidthAssumption
      <4> QED BY <3>1, <3>2, <3>3, <4>1, <4>2, <1>6
    <3>4. CASE y # id
      BY <3>1, <3>2, <3>4, <1>12 DEF SameBut
    <3> QED BY <3>3, <3>4
  <2>2. ASSUME NEW y \in OrderId \ d.index
        PROVE  h.initial[y] = 0 /\ y \notin h.partly /\ d.order[y] = Blank
    <3>1. y \in OrderId \ b.index /\ y # id
      BY <1>2, <1>12, <2>2
    <3>2. h.initial[y] = 0 /\ y \notin h.partly /\ b.order[y] = Blank
      BY <1>1, <3>1 DEF Lifecycles, b
    <3> QED BY <3>1, <3>2, <1>12 DEF SameBut
  <2> QED BY <2>1, <2>2, <1>14 DEF Lifecycles
<1>16. HeldOk(i, g)
  <2>1. Cardinality(b.index) \in Nat
    BY <1>1, FS_CardinalityType DEF Kept
  <2>2. d.used = Cardinality(d.index) + 0 /\ d.used <= MaxOrders[i]
    BY <2>1, <1>1, <1>11, <1>12
  <2> QED BY <2>2, <1>5, <1>6, <1>9, <1>13, <1>14, <1>15 DEF HeldOk, Running
<1> QED
  BY <1>1, <1>3, <1>4, <1>16, OutcomeOk

(* modify_order_quantity.                                                  *)
LEMMA ModifyOk ==
  ASSUME NEW i \in Instrument, NEW h, HeldOk(i, h), NEW c \in Command, NEW r, r = Modify(h, c)
  PROVE  HeldOk(i, r.held)
<1>1. CASE \E status : r = Refused(h, status)
  BY <1>1, RefusedRuns
<1>2. CASE c.id \in h.book.index /\ ~(c.qty > h.book.order[c.id].qty)
  <2>1. r = Reduce(h, c)
    BY <1>2 DEF Modify
  <2>2. c.qty <= h.book.order[c.id].qty
    <3>1. c.qty \in 1..MaxQuantity /\ h.book.order[c.id].qty \in 1..MaxQuantity
      BY <1>2, HeldFacts, CommandFields
    <3> DEFINE x == c.qty
               y == h.book.order[c.id].qty
    <3>2. x \in 1..MaxQuantity /\ y \in 1..MaxQuantity /\ ~(x > y)
      BY <3>1, <1>2
    <3> HIDE DEF x, y
    <3>3. x <= y
      BY <3>2, WidthAssumption
    <3> QED BY <3>3 DEF x, y
  <2> QED BY <1>2, <2>1, <2>2, ReduceOk
<1> QED
  BY <1>1, <1>2 DEF Modify

(* g is h without order id, whose slot is kept; its book is d.             *)
OutOf(h, g, d, id) ==
  /\ Running(g, {id}, 1) /\ g.book = d /\ d.index = h.book.index \ {id}
  /\ d.used = h.book.used

(* A replaced order is out of the book, its slot kept for it.              *)
LEMMA OutRuns ==
  ASSUME NEW i \in Instrument, NEW h, HeldOk(i, h), NEW id \in h.book.index,
         NEW d, d = Unindexed(Unlinked(h.book, id), id), NEW g, g = Gone(h, id, d)
  PROVE  OutOf(h, g, d, id)
<1> DEFINE b == h.book
<1>1. /\ h \in HeldType /\ b \in BookType /\ h.events \in Nat /\ h.feed \in Nat
      /\ Kept(b) /\ Sound(b) /\ Sums(b) /\ Sequenced(b) /\ Uncrossed(b) /\ IsFiniteSet(b.index)
      /\ b.index \subseteq OrderId /\ b.used = Cardinality(b.index)
      /\ Cardinality(b.index) \in Nat /\ b.used \in Nat
      /\ Lifecycles(h, {})
  BY HeldFacts
<1>2. id \in b.index /\ id \in OrderId /\ d = Unindexed(Unlinked(b, id), id)
  BY <1>1
<1> HIDE DEF b
<1>3. Removable(b, id)
  BY <1>1, <1>2, TotalHasOrder
<1>4. /\ Sound(d) /\ d.index = b.index \ {id} /\ d.used = b.used /\ d.order = b.order
      /\ \A t \in Side : Occupied(d, t) \subseteq Occupied(b, t)
  BY <1>1, <1>2, <1>3, UnlinkedSound
<1>5. PICK s, p, n : Leaves(b, d, id, s, p, n)
  BY <1>1, <1>2, UnlinkedChanges
<1>6. SameBut(b, d, id)
  BY <1>4 DEF SameBut
<1>7. d \in BookType
  BY <1>4 DEF Sound
<1>8. Sums(d)
  BY <1>1, <1>2, <1>5, <1>6, <1>7, LeavesSums
<1>9. d.seq = b.seq
  BY <1>1, <1>2, ChangesKeepCounter
<1>10. Sequenced(d)
  BY <1>1, <1>2, <1>4, <1>5, <1>6, <1>9, LeavesSequenced
<1>11. Kept(d)
  <2>1. Uncrossed(d)
    BY <1>1, <1>4, UncrossedShrinks
  <2>2. IsFiniteSet(d.index)
    BY <1>1, <1>4, FS_Subset
  <2> QED BY <1>4, <2>1, <2>2 DEF Kept
<1>12. d.used = Cardinality(d.index) + 1
  <2>1. Cardinality(b.index \ {id}) = Cardinality(b.index) - 1
    BY <1>1, <1>2, RemovedCount
  <2> QED BY <2>1, <1>1, <1>4
<1>13. /\ g \in HeldType /\ g.book = d
       /\ g.initial[id] = 0 /\ g.partly = h.partly \ {id}
       /\ \A y \in OrderId : y # id => g.initial[y] = h.initial[y]
  BY <1>1, <1>2, <1>7, GoneIs
<1>14. Lifecycles(g, {id})
  <2>1. PICK out, kept : out = {} /\ kept = {id}
    OBVIOUS
  <2>2. Lifecycles(h, out) /\ out \subseteq kept /\ id \in kept /\ h.book.index \subseteq OrderId
    BY <2>1, <1>1 DEF b
  <2>3. SameBut(h.book, g.book, id) /\ g.book.index = h.book.index \ {id}
    BY <1>4, <1>6, <1>13 DEF b
  <2>4. Lifecycles(g, kept)
    BY <2>2, <2>3, <1>2, <1>13, GoneLifecycles
  <2> QED BY <2>1, <2>4
<1> QED
  BY <1>4, <1>8, <1>10, <1>11, <1>12, <1>13, <1>14 DEF Running, OutOf, b

(* The slot of an order that was filled goes back to the pool.             *)
LEMMA SlotReturned ==
  ASSUME NEW h, NEW id \in OrderId, Running(h, {id}, 1), id \notin h.book.index,
         NEW g, g = [h EXCEPT !.book = Released(@, id)]
  PROVE  Running(g, {}, 0) /\ g.book.used = h.book.used - 1
<1> DEFINE b == h.book
           d == Released(b, id)
<1>1. PICK out, k : out = {id} /\ k = 1
  OBVIOUS
<1>2. k \in Nat /\ Running(h, out, k)
  BY <1>1
<1>3. /\ h \in HeldType /\ b \in BookType
      /\ Kept(b) /\ Sound(b) /\ Sums(b) /\ Sequenced(b) /\ Uncrossed(b) /\ IsFiniteSet(b.index)
      /\ b.index \subseteq OrderId /\ b.used = Cardinality(b.index) + k
      /\ Cardinality(b.index) \in Nat /\ b.used \in Nat
  BY <1>2, RunningFacts
<1>4. Lifecycles(h, {id})
  BY DEF Running
<1>5. b.used > 0 /\ b.used = Cardinality(b.index) + 1 /\ id \notin b.index /\ d = Released(b, id)
  BY <1>1, <1>3
<1>6. /\ g.book = d /\ g.initial = h.initial /\ g.partly = h.partly
      /\ g.events = h.events /\ g.feed = h.feed
      /\ g = [book |-> g.book, initial |-> g.initial, partly |-> g.partly,
              events |-> g.events, feed |-> g.feed]
  BY <1>3 DEF HeldType
<1> HIDE DEF b, d
<1>7. /\ Sound(d) /\ d.index = b.index /\ d.used = b.used - 1 /\ d.level = b.level
      /\ \A t \in Side : Occupied(d, t) = Occupied(b, t)
  BY <1>3, <1>5, ReleasedSound
<1>8. Sums(d)
  BY <1>3, <1>5, ReleasedSums
<1>9. SameBut(b, d, id)
  BY <1>3, <1>5, ReleasedChanges
<1>10. d.seq = b.seq
  BY <1>3, <1>5, ChangesKeepCounter
<1>11. d.order[id] = Blank
  BY <1>3, <1>5 DEF Released, BookType
<1>12. \A y \in b.index : d.order[y] = b.order[y]
  BY <1>3, <1>5, <1>9 DEF SameBut
<1>13. Sequenced(d)
  <2>1. \A t \in Side, q \in Price : \A j \in DOMAIN b.level[t][q] : b.level[t][q][j] \in b.index
    BY <1>3, Queued
  <2> QED BY <2>1, <1>3, <1>7, <1>10, <1>12 DEF Sequenced, InLine, Apart, Numbered
<1>14. Kept(d)
  <2>1. Uncrossed(d)
    BY <1>3, <1>7 DEF Uncrossed, Side
  <2> QED BY <2>1, <1>3, <1>7 DEF Kept
<1>15. d.used = Cardinality(d.index) + 0
  BY <1>3, <1>5, <1>7
<1>16. Lifecycles(g, {})
  <2>1. ASSUME NEW y \in OrderId \ d.index
        PROVE  h.initial[y] = 0 /\ y \notin h.partly /\ d.order[y] = Blank
    <3>1. h.initial[y] = 0 /\ y \notin h.partly /\ (y \notin {id} => b.order[y] = Blank)
      BY <1>4, <1>7, <2>1 DEF Lifecycles, b
    <3> QED BY <3>1, <1>9, <1>11 DEF SameBut
  <2>2. ASSUME NEW y \in d.index
        PROVE  /\ d.order[y].qty \in 1..h.initial[y] /\ d.order[y].owner = Anonymous
               /\ y \in h.partly => d.order[y].qty < h.initial[y]
    BY <1>4, <1>7, <1>12, <2>2 DEF Lifecycles, b
  <2> QED BY <2>1, <2>2, <1>6 DEF Lifecycles
<1>17. g \in HeldType
  BY <1>3, <1>6, <1>7 DEF HeldType, Sound
<1> QED
  BY <1>6, <1>7, <1>8, <1>13, <1>14, <1>15, <1>16, <1>17 DEF Running, b

(* replace_order, when the order goes to the end of a queue.               *)
LEMMA ReenterOk ==
  ASSUME NEW i \in Instrument, NEW h, HeldOk(i, h), NEW c \in Command,
         c.id \in h.book.index, NEW r, r = Reenter(h, c)
  PROVE  HeldOk(i, r.held)
<1> DEFINE id == c.id
           qty == c.qty
           p == c.price
           b == h.book
           o == b.order[id]
           s == o.side
           t == Opposite(s)
           d == Unindexed(Unlinked(b, id), id)
           g == Gone(h, id, d)
           quotes == Posts(b, d, s)
           m == Matched(g, t, qty, p)
<1>1. /\ h \in HeldType /\ b \in BookType /\ h.events \in Nat /\ h.feed \in Nat
      /\ Sound(b) /\ b.used \in Nat /\ MaxOrders[i] \in Nat /\ b.used <= MaxOrders[i]
      /\ b.index \subseteq OrderId
  BY HeldFacts
<1>2. /\ id \in h.book.index /\ id \in OrderId /\ p \in Price /\ p \in Price \cup {NoPrice}
      /\ qty \in 0..MaxQuantity
  BY CommandFields, <1>1
<1>3. s \in Side /\ t \in Side /\ Opposite(t) = s
  <2>1. s \in Side
    BY <1>1, <1>2, OrderPlace
  <2> QED BY <2>1 DEF Opposite, Side
<1>4. r = IF MaxQuantity - d.total[s][p] < m.left
          THEN Refused(h, "PriceLevelQuantityOverflow")
          ELSE IF m.left > 0 THEN RestsAfter(h, m, id, s, p, 2, quotes)
          ELSE Outcome(h, [m.held EXCEPT !.book = Released(@, id)], "Filled", m.trades,
                       2 + Len(m.trades), quotes + m.quotes)
  BY DEF Reenter, Gone
<1>5. quotes \in Nat
  BY PostsAre
<1>6. Running(g, {id}, 1) /\ g.book = d /\ d.index = b.index \ {id} /\ d.used = b.used
  <2>1. d = Unindexed(Unlinked(h.book, id), id)
    OBVIOUS
  <2>2. g = Gone(h, id, d)
    OBVIOUS
  <2>3. id \in h.book.index
    BY <1>2
  <2>4. b = h.book
    OBVIOUS
  <2> HIDE DEF d, g, id, b
  <2>5. OutOf(h, g, d, id)
    BY <2>1, <2>2, <2>3, OutRuns
  <2> QED BY <2>4, <2>5 DEF OutOf
<1> HIDE DEF g
<1>7. m = Matched(g, t, qty, p)
  OBVIOUS
<1> HIDE DEF m, t, qty, p, d, id, s, quotes
<1>8. PICK out, k : out = {id} /\ k = 1
  OBVIOUS
<1>9. MatchOf(g, t, p, qty, out, k, m)
  <2>1. Running(g, out, k) /\ k \in Nat
    BY <1>6, <1>8
  <2> QED BY <2>1, <1>2, <1>3, <1>7, MatchRuns
<1>10. /\ Running(m.held, {id}, 1) /\ m.left \in 0..MaxQuantity
       /\ m.trades \in Seq(OrderId \X Nat) /\ Len(m.trades) \in Nat /\ m.quotes \in Nat
       /\ id \notin m.held.book.index
       /\ m.held.book.used <= b.used /\ m.held.book.used \in Nat
       /\ m.held.book.total[s][p] = d.total[s][p]
  BY <1>2, <1>3, <1>6, <1>8, <1>9 DEF MatchOf, Advances
<1>11. m.held.book.used <= MaxOrders[i]
  BY <1>1, <1>10
<1>12. CASE ~(MaxQuantity - d.total[s][p] < m.left) /\ m.left > 0
  <2>1. r = RestsAfter(h, m, id, s, p, 2, quotes)
    BY <1>4, <1>12
  <2>2. PICK before : before = 2
    OBVIOUS
  <2>3. before \in Nat /\ r = RestsAfter(h, m, id, s, p, before, quotes)
    BY <2>1, <2>2
  <2>4. ToRest(h, m, out, id, s, p)
    <3>1. MayRest(m.held.book, id, s, p, m.left)
      <4>1. m.held.book.total[s][p] \in 0..MaxQuantity
        <5>1. m.held.book \in BookType
          BY <1>10 DEF Running, HeldType
        <5> QED BY <5>1, <1>2, <1>3 DEF BookType
      <4> DEFINE x == m.held.book.total[s][p]
                 y == m.left
      <4>2. x \in 0..MaxQuantity /\ y \in 0..MaxQuantity /\ ~(MaxQuantity - x < y) /\ y > 0
        BY <4>1, <1>10, <1>12
      <4> HIDE DEF x, y
      <4>3. y \in 1..MaxQuantity /\ y <= MaxQuantity - x
        BY <4>2, WidthAssumption
      <4>4. y # 0
        BY <4>3
      <4>5. \/ m.held.book.best[t] = NoPrice
            \/ ~Crosses(t, m.held.book.best[t], p)
        BY <4>4, <1>9 DEF MatchOf, y
      <4> QED BY <4>3, <4>5, <1>10 DEF MayRest, x, y, t
    <3>2. Running(m.held, out, 1) /\ out \subseteq {id}
      BY <1>8, <1>10
    <3> QED BY <3>1, <3>2, <1>1, <1>2, <1>3, <1>10 DEF ToRest
  <2> QED BY <2>3, <2>4, <1>5, <1>11, RestsOk
<1>13. CASE ~(MaxQuantity - d.total[s][p] < m.left) /\ ~(m.left > 0)
  <2> DEFINE f == [m.held EXCEPT !.book = Released(@, id)]
             n == 2 + Len(m.trades)
             q == quotes + m.quotes
  <2>1. r = Outcome(h, f, "Filled", m.trades, n, q)
    BY <1>4, <1>13
  <2>2. n \in Nat /\ q \in Nat
    BY <1>5, <1>10
  <2>3. f = [m.held EXCEPT !.book = Released(@, id)]
    OBVIOUS
  <2> DEFINE mh == m.held
  <2>4. f = [mh EXCEPT !.book = Released(@, id)] /\ Running(mh, {id}, 1) /\ id \notin mh.book.index
        /\ mh.book.used <= MaxOrders[i] /\ mh.book.used \in Nat
    BY <1>10, <1>11
  <2> HIDE DEF f, n, q, mh
  <2>5. Running(f, {}, 0) /\ f.book.used = mh.book.used - 1
    BY <2>4, <1>2, SlotReturned
  <2>6. HeldOk(i, f)
    BY <2>4, <2>5, <1>1 DEF HeldOk
  <2> QED BY <2>1, <2>2, <2>6, <1>1, OutcomeOk
<1>14. CASE \E status : r = Refused(h, status)
  BY <1>14, RefusedRuns
<1> QED
  BY <1>4, <1>12, <1>13, <1>14

(* replace_order.                                                          *)
LEMMA ReplaceOk ==
  ASSUME NEW i \in Instrument, NEW h, HeldOk(i, h), NEW c \in Command, NEW r, r = Replace(h, c)
  PROVE  HeldOk(i, r.held)
<1>1. CASE \E status : r = Refused(h, status)
  BY <1>1, RefusedRuns
<1>2. CASE c.id \in h.book.index /\ c.qty <= h.book.order[c.id].qty /\ r = Reduce(h, c)
  BY <1>2, ReduceOk
<1>3. CASE c.id \in h.book.index /\ r = Reenter(h, c)
  BY <1>3, ReenterOk
<1> QED
  BY <1>1, <1>2, <1>3 DEF Replace

(* Every command leaves a book.                                            *)
LEMMA ExecutedOk ==
  ASSUME NEW i \in Instrument, NEW h, HeldOk(i, h), NEW c \in Command, NEW r, r = Executed(i, h, c)
  PROVE  HeldOk(i, r.held)
<1>1. c.op \in {"add", "market", "cancel", "modify", "replace"}
  BY CommandFields
<1>2. CASE c.op = "add"
  <2>1. r = Add(i, h, c)
    BY <1>2 DEF Executed
  <2> QED BY <2>1, AddOk
<1>3. CASE c.op = "market"
  <2>1. r = Market(h, c)
    BY <1>3 DEF Executed
  <2> QED BY <2>1, MarketOk
<1>4. CASE c.op = "cancel"
  <2>1. r = Cancel(h, c)
    BY <1>4 DEF Executed
  <2> QED BY <2>1, CancelOk
<1>5. CASE c.op = "modify"
  <2>1. r = Modify(h, c)
    BY <1>5 DEF Executed
  <2> QED BY <2>1, ModifyOk
<1>6. CASE c.op = "replace"
  <2>1. r = Replace(h, c)
    BY <1>6 DEF Executed
  <2> QED BY <2>1, ReplaceOk
<1> QED
  BY <1>1, <1>2, <1>3, <1>4, <1>5, <1>6

-----------------------------------------------------------------------------
(* dispatch                                                                *)

(* An engine between two commands.                                         *)
EngineOk(e) ==
  Routed(e) /\ \A n \in DOMAIN e.ids : HeldOk(e.ids[n], e.held[n])

(* e with g for the instrument of index k.                                 *)
Holding(e, k, g) == [e EXCEPT !.held[k] = g]

(* f has the instruments of e at the same indices.                         *)
SameRoutes(e, f) == f.ids = e.ids /\ f.lookup = e.lookup /\ f.valid = e.valid

(* An engine with another sound book at one index is as good, and the      *)
(* same elsewhere.                                                         *)
LEMMA HoldingIs ==
  ASSUME NEW e, EngineOk(e), NEW k \in DOMAIN e.ids, NEW g, HeldOk(e.ids[k], g),
         NEW f, f = Holding(e, k, g)
  PROVE  /\ EngineOk(f) /\ SameRoutes(e, f)
         /\ f.held[k] = g /\ DOMAIN f.held = DOMAIN e.held
         /\ \A n \in DOMAIN e.ids : n # k => f.held[n] = e.held[n]
<1>1. /\ e \in EngineType /\ Len(e.held) = Len(e.ids)
      /\ e.held \in Seq(HeldType) /\ e.ids \in Seq(Instrument)
  BY DEF EngineOk, Routed, EngineType
<1>2. DOMAIN e.held = DOMAIN e.ids /\ DOMAIN e.held = 1..Len(e.held) /\ Len(e.held) \in Nat
  BY <1>1
<1>3. /\ f.valid = e.valid /\ f.ids = e.ids /\ f.lookup = e.lookup
      /\ f.held = [e.held EXCEPT ![k] = g]
      /\ f = [valid |-> f.valid, ids |-> f.ids, held |-> f.held, lookup |-> f.lookup]
  BY <1>1 DEF EngineType, Holding
<1>4. g \in HeldType
  BY DEF HeldOk, Running
<1>5. /\ f.held \in Seq(HeldType) /\ Len(f.held) = Len(e.held) /\ DOMAIN f.held = DOMAIN e.held
      /\ f.held[k] = g /\ \A n \in DOMAIN e.ids : n # k => f.held[n] = e.held[n]
  <2> DEFINE held == e.held
             new == [held EXCEPT ![k] = g]
  <2>1. held \in Seq(HeldType) /\ k \in DOMAIN held
    BY <1>1, <1>2
  <2> HIDE DEF held
  <2>2. /\ new \in Seq(HeldType) /\ Len(new) = Len(held) /\ DOMAIN new = DOMAIN held
        /\ new[k] = g /\ \A n \in DOMAIN held : n # k => new[n] = held[n]
    BY <2>1, <1>4
  <2> HIDE DEF new
  <2>3. f.held = new
    BY <1>3 DEF new, held
  <2> QED BY <2>2, <2>3, <1>2 DEF held
<1>6. f \in EngineType
  BY <1>1, <1>3, <1>5 DEF EngineType
<1>7. Routed(f)
  BY <1>1, <1>3, <1>5, <1>6 DEF EngineOk, Routed
<1> QED
  BY <1>3, <1>5, <1>7 DEF EngineOk, SameRoutes

(* An index that is found is that of the instrument.                       *)
LEMMA FoundIs ==
  ASSUME NEW e, Routed(e), NEW i \in Instrument, LookupIndex(e, i) # 0
  PROVE  LookupIndex(e, i) \in DOMAIN e.ids /\ e.ids[LookupIndex(e, i)] = i
<1>1. PICK k \in DOMAIN e.ids : e.ids[k] = i
  BY LookupFindsNothing
<1>2. LookupIndex(e, i) = k
  BY <1>1, LookupFinds
<1> QED
  BY <1>1, <1>2

(* dispatch changes the book of one instrument, to a book.                 *)
LEMMA DispatchOk ==
  ASSUME NEW e, EngineOk(e), NEW c \in Command, NEW f, f = Dispatch(e, c).engine
  PROVE  EngineOk(f) /\ SameRoutes(e, f)
<1> DEFINE i == c.instrument
           k == LookupIndex(e, i)
           r == Executed(i, e.held[k], c)
<1>1. CASE k = 0
  BY <1>1 DEF Dispatch, SameRoutes
<1>2. CASE k # 0
  <2>1. i \in Instrument /\ Routed(e)
    BY CommandFields DEF EngineOk
  <2>2. k \in DOMAIN e.ids /\ e.ids[k] = i
    BY <1>2, <2>1, FoundIs
  <2>3. HeldOk(i, e.held[k])
    BY <2>2 DEF EngineOk
  <2>4. f = Holding(e, k, r.held)
    BY <1>2 DEF Dispatch, Dispatched, Holding
  <2> DEFINE h == e.held[k]
             g == r.held
  <2>5. r = Executed(i, h, c) /\ HeldOk(i, h)
    BY <2>3
  <2> HIDE DEF r, i, k, h
  <2>6. HeldOk(i, g)
    BY <2>1, <2>5, ExecutedOk
  <2> HIDE DEF g
  <2>7. HeldOk(e.ids[k], g) /\ f = Holding(e, k, g)
    BY <2>2, <2>4, <2>6 DEF g
  <2> QED BY <2>2, <2>7, HoldingIs
<1> QED
  BY <1>1, <1>2

(* What the routes of an engine come to.                                   *)
LEMMA RoutesLead ==
  ASSUME NEW e, Routed(e), NEW i \in Instrument
  PROVE  IF i \in Range(e.ids)
         THEN LookupIndex(e, i) \in DOMAIN e.ids /\ e.ids[LookupIndex(e, i)] = i
         ELSE LookupIndex(e, i) = 0
<1>1. CASE i \in Range(e.ids)
  <2>1. PICK k \in DOMAIN e.ids : e.ids[k] = i
    BY <1>1 DEF Range
  <2> QED BY <1>1, <2>1, LookupFinds
<1>2. CASE i \notin Range(e.ids)
  <2>1. \A k \in DOMAIN e.ids : e.ids[k] # i
    BY <1>2 DEF Range
  <2> QED BY <1>2, <2>1, LookupFindsNothing
<1> QED
  BY <1>1, <1>2

(* A book between two commands is one.                                     *)
LEMMA OkIsBook ==
  ASSUME NEW i \in Instrument, NEW h, HeldOk(i, h)
  PROVE  IsBook(i, h)
<1> DEFINE b == h.book
<1>1. /\ Sound(b) /\ Sums(b) /\ Sequenced(b) /\ Uncrossed(b)
      /\ b.used = Cardinality(b.index) /\ b.used <= MaxOrders[i]
      /\ Lifecycles(h, {})
  BY HeldFacts
<1>2. /\ BestIsCached(b) /\ IndexedAreQueued(b) /\ QueuedAreIndexed(b)
  BY <1>1 DEF Sound
<1> HIDE DEF b
<1>3. \A s \in Side, p \in Price :
        /\ b.total[s][p] = QuantityOf(b, b.level[s][p])
        /\ \A m, n \in DOMAIN b.level[s][p] :
             m < n => b.order[b.level[s][p][m]].seq <= b.order[b.level[s][p][n]].seq
  BY <1>1 DEF Sums, Sequenced, InLine
<1>4. \A id \in b.index :
        /\ b.order[id].qty \in 1..h.initial[id]
        /\ b.order[id].seq \in 1..b.seq
        /\ id \in h.partly => b.order[id].qty < h.initial[id]
  BY <1>1 DEF Sequenced, Numbered, Lifecycles, b
<1>5. \A id, other \in b.index :
        id # other /\ b.order[id].seq = b.order[other].seq => b.order[id].seq = MaxSequence
  BY <1>1 DEF Sequenced, Apart
<1> QED
  BY <1>1, <1>2, <1>3, <1>4, <1>5 DEF IsBook, b

(* Nothing is held at first.                                               *)
LEMMA EmptyHeldOk ==
  ASSUME NEW i \in Instrument
  PROVE  HeldOk(i, EmptyHeld)
<1>1. /\ EmptyHeld.book = EmptyBook /\ EmptyHeld.initial = [id \in OrderId |-> 0]
      /\ EmptyHeld.partly = {}
  BY DEF EmptyHeld
<1>2. Kept(EmptyBook) /\ EmptyBook.used = 0 /\ EmptyBook.index = {}
  BY EmptyBookKept
<1>3. Sequenced(EmptyBook)
  <2>1. InLine(EmptyBook)
    BY DEF InLine, EmptyBook
  <2> QED BY <2>1, <1>2 DEF Sequenced, Apart, Numbered
<1>4. Lifecycles(EmptyHeld, {})
  <2>1. \A id \in OrderId : EmptyBook.order[id] = Blank
    BY DEF EmptyBook
  <2> QED BY <2>1, <1>1, <1>2 DEF Lifecycles
<1>5. EmptyBook.used = Cardinality(EmptyBook.index) + 0
  BY <1>2, FS_EmptySet
<1>6. MaxOrders[i] \in Nat
  BY InstrumentAssumption
<1> QED
  BY <1>1, <1>2, <1>3, <1>4, <1>5, <1>6, EmptyHeldTyped, EmptyBookSums DEF HeldOk, Running

(* A constructed engine holds nothing.                                     *)
LEMMA ConstructedOk ==
  ASSUME NEW ids \in Seq(Instrument), NEW m, m = Len(Configured), NEW lasts \in 0..Len(ids),
         NEW e, e = Constructed(ids, m, lasts)
  PROVE  EngineOk(e) /\ (e = FailedEngine \/ IsNew(e, ids))
<1>1. Routed(e) /\ (e = FailedEngine \/ IsNew(e, ids))
  BY ConstructedIs
<1>2. ASSUME NEW n \in DOMAIN e.ids PROVE HeldOk(e.ids[n], e.held[n])
  <2>1. CASE e = FailedEngine
    <3>1. e.ids = <<>>
      BY <2>1, FailedRouted
    <3> QED BY <3>1, <1>2
  <2>2. CASE IsNew(e, ids)
    <3>1. e.held[n] = EmptyHeld /\ e.ids[n] \in Instrument
      BY <2>2, <1>1, <1>2 DEF IsNew, Routed, EngineType
    <3> QED BY <3>1, EmptyHeldOk
  <2> QED BY <1>1, <2>1, <2>2
<1> QED
  BY <1>1, <1>2 DEF EngineOk

-----------------------------------------------------------------------------
(* Engines with the same books                                             *)

(* e and f hold the same for the same instruments, at whatever indices.    *)
SameBooks(e, f) ==
  Range(e.ids) = Range(f.ids) /\ \A i \in Range(e.ids) : Held(e, i) = Held(f, i)

(* What an engine holds for the instrument of an index is the book of      *)
(* that index.                                                             *)
LEMMA HeldIs ==
  ASSUME NEW e, EngineOk(e), NEW n \in DOMAIN e.ids
  PROVE  /\ Held(e, e.ids[n]) = e.held[n] /\ e.ids[n] \in Instrument
         /\ e.ids[n] \in Range(e.ids) /\ HeldOk(e.ids[n], e.held[n])
<1>1. Routed(e) /\ e.ids \in Seq(Instrument)
  BY DEF EngineOk, Routed, EngineType
<1>2. LookupIndex(e, e.ids[n]) = n
  BY <1>1, LookupFinds
<1>3. e.ids[n] \in Instrument
  <2>1. n \in 1..Len(e.ids)
    BY <1>1, LenProperties
  <2> QED BY <2>1, <1>1, ElementOfSeq
<1> QED
  BY <1>2, <1>3 DEF Held, Range, EngineOk

(* Each instrument of an engine has its index.                             *)
LEMMA FoundAt ==
  ASSUME NEW e, EngineOk(e), NEW i \in Range(e.ids)
  PROVE  \E n \in DOMAIN e.ids : /\ i = e.ids[n] /\ LookupIndex(e, i) = n /\ Held(e, i) = e.held[n]
                                 /\ i \in Instrument /\ HeldOk(i, Held(e, i)) /\ n # 0
<1>1. PICK n \in DOMAIN e.ids : i = e.ids[n]
  BY DEF Range
<1>2. Routed(e) /\ e.ids \in Seq(Instrument)
  BY DEF EngineOk, Routed, EngineType
<1>3. LookupIndex(e, i) = n
  BY <1>1, <1>2, LookupFinds
<1>4. n # 0
  BY <1>2, LenProperties
<1> QED
  BY <1>1, <1>3, <1>4, HeldIs

(* What the checksum takes in of what is held.                             *)
HeldSum(h) ==
  [seq |-> h.book.seq, feed |-> h.feed, total |-> h.book.total,
   level |-> [s \in Side |-> [p \in Price |->
                [n \in DOMAIN h.book.level[s][p] |-> Stored(h, h.book.level[s][p][n])]]]]

(* The checksum by instrument.                                             *)
LEMMA ChecksumIs ==
  ASSUME NEW e
  PROVE  Checksum(e) = [i \in Range(e.ids) |-> HeldSum(Held(e, i))]
  BY DEF Checksum, HeldSum

(* Engines with the same books have the same checksum.                     *)
LEMMA SameChecksum ==
  ASSUME NEW e, NEW f, SameBooks(e, f)
  PROVE  Checksum(e) = Checksum(f)
<1>1. Range(e.ids) = Range(f.ids) /\ \A i \in Range(e.ids) : Held(e, i) = Held(f, i)
  BY DEF SameBooks
<1>2. \A i \in Range(e.ids) : HeldSum(Held(e, i)) = HeldSum(Held(f, i))
  BY <1>1
<1> HIDE DEF HeldSum
<1>3. [i \in Range(e.ids) |-> HeldSum(Held(e, i))] = [i \in Range(f.ids) |-> HeldSum(Held(f, i))]
  BY <1>1, <1>2
<1> QED
  BY <1>3, ChecksumIs

(* Engines with the same books are at the same market-data sequence.       *)
LEMMA SameFeed ==
  ASSUME NEW e, EngineOk(e), NEW f, EngineOk(f), SameBooks(e, f), NEW i \in Instrument
  PROVE  MarketDataSequence(e, i) = MarketDataSequence(f, i)
<1>1. Range(e.ids) = Range(f.ids) /\ \A j \in Range(e.ids) : Held(e, j) = Held(f, j)
  BY DEF SameBooks
<1>2. Routed(e) /\ Routed(f)
  BY DEF EngineOk
<1>3. CASE i \in Range(e.ids)
  <2>1. LookupIndex(e, i) # 0
    BY <1>3, FoundAt
  <2>2. LookupIndex(f, i) # 0
    BY <1>1, <1>3, FoundAt
  <2> QED BY <2>1, <2>2, <1>1, <1>3 DEF MarketDataSequence
<1>4. CASE i \notin Range(e.ids)
  <2>1. LookupIndex(e, i) = 0 /\ LookupIndex(f, i) = 0
    BY <1>1, <1>2, <1>4, RoutesLead
  <2> QED BY <2>1 DEF MarketDataSequence
<1> QED
  BY <1>3, <1>4

(* d is what dispatch makes of command c, when r is what the book does.    *)
Follows(e, c, r, d) ==
  /\ d.status = r.status /\ d.trades = r.trades /\ d.events = r.events /\ d.quotes = r.quotes
  /\ d.first = IF r.held.events = Held(e, c.instrument).events THEN 0
               ELSE Held(e, c.instrument).events + 1
  /\ d.engine.ids = e.ids /\ Held(d.engine, c.instrument) = r.held
  /\ \A j \in Range(e.ids) : j # c.instrument => Held(d.engine, j) = Held(e, j)

(* dispatch does to the engine what the command does to its instrument's   *)
(* book, and reports it.                                                   *)
LEMMA DispatchFollows ==
  ASSUME NEW e, EngineOk(e), NEW c \in Command, c.instrument \in Range(e.ids),
         NEW r, r = Executed(c.instrument, Held(e, c.instrument), c),
         NEW d, d = Dispatch(e, c)
  PROVE  Follows(e, c, r, d)
<1> DEFINE i == c.instrument
           h == Held(e, i)
<1>1. PICK n \in DOMAIN e.ids : /\ i = e.ids[n] /\ LookupIndex(e, i) = n /\ h = e.held[n]
                                /\ i \in Instrument /\ HeldOk(i, h) /\ n # 0
  BY FoundAt
<1>2. d = Dispatched(e, n, r)
  BY <1>1 DEF Dispatch
<1>3. /\ d.status = r.status /\ d.trades = r.trades /\ d.events = r.events /\ d.quotes = r.quotes
      /\ d.first = IF r.held.events = h.events THEN 0 ELSE h.events + 1
      /\ d.engine = Holding(e, n, r.held)
  BY <1>1, <1>2 DEF Dispatched, Holding
<1>4. r = Executed(i, h, c)
  OBVIOUS
<1> DEFINE g == r.held
           f == d.engine
<1> HIDE DEF h
<1>5. HeldOk(i, g)
  BY <1>1, <1>4, ExecutedOk
<1> HIDE DEF g
<1>6. HeldOk(e.ids[n], g) /\ f = Holding(e, n, g)
  BY <1>1, <1>3, <1>5 DEF g
<1> HIDE DEF f
<1>7. /\ EngineOk(f) /\ SameRoutes(e, f) /\ f.held[n] = g
      /\ \A m \in DOMAIN e.ids : m # n => f.held[m] = e.held[m]
  BY <1>1, <1>6, HoldingIs
<1>8. f.ids = e.ids
  BY <1>7 DEF SameRoutes
<1>9. Held(f, i) = g
  <2>1. n \in DOMAIN f.ids /\ f.ids[n] = i
    BY <1>1, <1>8
  <2> QED BY <2>1, <1>7, HeldIs
<1>10. ASSUME NEW j \in Range(e.ids), j # i PROVE Held(f, j) = Held(e, j)
  <2>1. PICK m \in DOMAIN e.ids : j = e.ids[m]
    BY DEF Range
  <2>2. m # n /\ f.held[m] = e.held[m]
    BY <2>1, <1>1, <1>7, <1>10
  <2>3. Held(e, j) = e.held[m]
    BY <2>1, HeldIs
  <2>4. m \in DOMAIN f.ids /\ f.ids[m] = j
    BY <2>1, <1>8
  <2>5. Held(f, j) = f.held[m]
    BY <2>4, <1>7, HeldIs
  <2> QED BY <2>2, <2>3, <2>5
<1> QED
  BY <1>3, <1>8, <1>9, <1>10 DEF Follows, f, g, h

(* Engines with the same books answer a command alike.                     *)
LEMMA SameRecord ==
  ASSUME NEW e, EngineOk(e), NEW f, EngineOk(f), SameBooks(e, f), NEW c \in Command, NEW n
  PROVE  /\ Record(e, c, n) = Record(f, c, n)
         /\ SameBooks(Dispatch(e, c).engine, Dispatch(f, c).engine)
<1> DEFINE i == c.instrument
           d == Dispatch(e, c)
           g == Dispatch(f, c)
<1>1. Range(e.ids) = Range(f.ids) /\ \A j \in Range(e.ids) : Held(e, j) = Held(f, j)
  BY DEF SameBooks
<1>2. i \in Instrument /\ Routed(e) /\ Routed(f)
  BY CommandFields DEF EngineOk
<1>3. /\ EngineOk(d.engine) /\ EngineOk(g.engine)
      /\ d.engine.ids = e.ids /\ g.engine.ids = f.ids
  <2> DEFINE x == d.engine
             y == g.engine
  <2>1. x = Dispatch(e, c).engine /\ y = Dispatch(f, c).engine
    OBVIOUS
  <2> HIDE DEF x, y
  <2>2. EngineOk(x) /\ SameRoutes(e, x) /\ EngineOk(y) /\ SameRoutes(f, y)
    BY <2>1, DispatchOk
  <2> QED BY <2>2 DEF SameRoutes, x, y
<1>4. /\ SameBooks(d.engine, g.engine)
      /\ d.status = g.status /\ d.trades = g.trades /\ d.events = g.events
      /\ d.quotes = g.quotes /\ d.first = g.first
  <2>1. CASE i \in Range(e.ids)
    <3> DEFINE r == Executed(i, Held(e, i), c)
    <3>1. r = Executed(c.instrument, Held(e, c.instrument), c)
          /\ r = Executed(c.instrument, Held(f, c.instrument), c)
      BY <1>1, <2>1
    <3>2. d = Dispatch(e, c) /\ g = Dispatch(f, c)
      OBVIOUS
    <3> HIDE DEF r, d, g
    <3>3. Follows(e, c, r, d)
      BY <2>1, <3>1, <3>2, DispatchFollows
    <3>4. Follows(f, c, r, g)
      BY <1>1, <2>1, <3>1, <3>2, DispatchFollows
    <3>5. ASSUME NEW j \in Range(e.ids) PROVE Held(d.engine, j) = Held(g.engine, j)
      BY <1>1, <3>3, <3>4 DEF Follows
    <3>6. SameBooks(d.engine, g.engine)
      BY <1>1, <1>3, <3>5 DEF SameBooks
    <3>7. /\ d.status = g.status /\ d.trades = g.trades /\ d.events = g.events
          /\ d.quotes = g.quotes /\ d.first = g.first
      BY <1>1, <2>1, <3>3, <3>4 DEF Follows
    <3> QED BY <3>6, <3>7
  <2>2. CASE i \notin Range(e.ids)
    <3>1. LookupIndex(e, i) = 0 /\ LookupIndex(f, i) = 0
      BY <1>1, <1>2, <2>2, RoutesLead
    <3>2. /\ d = [engine |-> e, status |-> "UnknownInstrument", trades |-> <<>>,
                  events |-> 0, quotes |-> 0, first |-> 0]
          /\ g = [engine |-> f, status |-> "UnknownInstrument", trades |-> <<>>,
                  events |-> 0, quotes |-> 0, first |-> 0]
      BY <3>1 DEF Dispatch
    <3> QED BY <3>2
  <2> QED BY <2>1, <2>2
<1>5. Checksum(e) = Checksum(f)
  BY SameChecksum
<1>6. MarketDataSequence(e, i) = MarketDataSequence(f, i)
  BY <1>2, SameFeed
<1> DEFINE x == d.engine
           y == g.engine
<1>7. EngineOk(x) /\ EngineOk(y) /\ SameBooks(x, y)
  BY <1>3, <1>4
<1> HIDE DEF x, y
<1>8. Checksum(x) = Checksum(y)
  BY <1>7, SameChecksum
<1>9. MarketDataSequence(x, i) = MarketDataSequence(y, i)
  BY <1>2, <1>7, SameFeed
<1>10. Record(e, c, n) = Record(f, c, n)
  <2>1. /\ Record(e, c, n) = RecordOf(e, c, n, d)
        /\ Record(f, c, n) = RecordOf(f, c, n, g)
    BY DEF Record
  <2> HIDE DEF d, g
  <2> QED BY <2>1, <1>4, <1>5, <1>6, <1>8, <1>9 DEF RecordOf, x, y
<1> QED
  BY <1>7, <1>10 DEF x, y

=============================================================================
