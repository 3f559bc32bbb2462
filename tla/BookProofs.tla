----------------------------- MODULE BookProofs -----------------------------
(***************************************************************************)
(* Lemmas on the operators of Book: each change of a book record keeps the *)
(* structure of a book (types, cached best prices, index and queues), does *)
(* not cross it, and moves slots and orders together.                      *)
(***************************************************************************)
EXTENDS Book, QueueLemmas, FiniteSetTheorems

(* A side that is not empty has a price no other price is better than.     *)
LEMMA BestOfProperties ==
  ASSUME NEW s \in Side, NEW P \in SUBSET Price, P # {}
  PROVE  BestOf(s, P) \in P /\ \A q \in P : ~Better(s, q, BestOf(s, P))
<1>1. \E p \in P : \A q \in P : ~Better(s, q, p)
  BY PriceAssumption DEF Better, Side
<1>2. QED
  BY <1>1 DEF BestOf

-----------------------------------------------------------------------------
(* The book operators preserve the structure of a book.                    *)

Sound(b) ==
  /\ b \in BookType
  /\ BestIsCached(b)
  /\ IndexedAreQueued(b)
  /\ QueuedAreIndexed(b)

(* The node of an indexed order names a side, a price and a level that     *)
(* exist.                                                                  *)
LEMMA OrderPlace ==
  ASSUME NEW b, Sound(b), NEW id \in b.index
  PROVE  /\ id \in OrderId
         /\ b.order[id] \in Order
         /\ b.order[id].side \in Side
         /\ b.order[id].price \in Price
         /\ b.level[b.order[id].side][b.order[id].price] \in Seq(OrderId)
         /\ b.total[b.order[id].side][b.order[id].price] \in 0..MaxQuantity
<1>1. b \in BookType /\ IndexedAreQueued(b)
  BY DEF Sound
<1>2. id \in OrderId /\ b.order[id] \in Order
  BY <1>1 DEF BookType
<1>3. b.order[id].side \in Side
  BY <1>2 DEF Order
<1>4. b.order[id].price \in Price
  BY <1>1 DEF IndexedAreQueued
<1>5. \A s \in Side, p \in Price : b.level[s][p] \in Seq(OrderId) /\ b.total[s][p] \in 0..MaxQuantity
  BY <1>1 DEF BookType
<1> QED
  BY <1>2, <1>3, <1>4, <1>5

(* Taking an order out of its level and out of the id index (remove_order, *)
(* then erase) keeps the structure of the book.                            *)
LEMMA UnlinkedSound ==
  ASSUME NEW b, Sound(b), NEW id \in b.index, Removable(b, id),
         NEW c, c = Unindexed(Unlinked(b, id), id)
  PROVE  /\ Sound(c)
         /\ c.index = b.index \ {id}
         /\ c.used = b.used
         /\ c.order = b.order
         /\ \A t \in Side : Occupied(c, t) \subseteq Occupied(b, t)
<1>0. PICK s, p : s = b.order[id].side /\ p = b.order[id].price
  OBVIOUS
<1> DEFINE fifo == b.level[s][p]
<1>1. /\ id \in OrderId
      /\ b.order[id] \in Order
      /\ s \in Side /\ p \in Price
      /\ fifo \in Seq(OrderId)
      /\ b.total[s][p] \in 0..MaxQuantity
  BY <1>0, OrderPlace
<1>2. b \in BookType /\ BestIsCached(b) /\ IndexedAreQueued(b) /\ QueuedAreIndexed(b)
  BY DEF Sound
<1> DEFINE i == CHOOSE j \in DOMAIN fifo : fifo[j] = id
           rest == RemoveAt(fifo, i)
<1>3. i \in DOMAIN fifo /\ fifo[i] = id
  BY <1>0, <1>2 DEF IndexedAreQueued
<1>fields. /\ c.level = [b.level EXCEPT ![s][p] = rest]
      /\ c.total = [b.total EXCEPT ![s][p] = @ - b.order[id].qty]
      /\ c.best = [b.best EXCEPT ![s] = BestAfterRemove(b, s, p, rest)]
      /\ c.order = b.order
      /\ c.index = b.index \ {id}
      /\ c.used = b.used
      /\ c.seq = b.seq
      /\ c \in [level: {c.level}, total: {c.total}, best: {c.best}, order: {c.order},
                index: {c.index}, used: {c.used}, seq: {c.seq}]
  BY <1>0, <1>2 DEF Unindexed, Unlinked, BookType
<1>same. c.order = b.order /\ c.index = b.index \ {id}
  BY <1>fields
<1> HIDE DEF i
<1>4. /\ rest \in Seq(OrderId)
      /\ Len(rest) = Len(fifo) - 1
      /\ \A j \in DOMAIN rest : rest[j] = IF j < i THEN fifo[j] ELSE fifo[j + 1]
  BY <1>1, <1>3, RemoveAtProperties
<1>5. /\ DOMAIN fifo = 1..Len(fifo) /\ DOMAIN rest = 1..(Len(fifo) - 1)
      /\ Len(fifo) \in Nat /\ i \in 1..Len(fifo)
  BY <1>1, <1>3, <1>4, LenProperties
<1>6. b.order[id].qty \in 0..MaxQuantity /\ b.order[id].qty <= b.total[s][p]
  BY <1>0, <1>1 DEF Removable, Order
<1> HIDE DEF fifo, rest
<1>7. /\ c.level \in [Side -> [Price -> Seq(OrderId)]]
      /\ c.level[s][p] = rest
      /\ \A t \in Side, q \in Price :
           ~(t = s /\ q = p) => c.level[t][q] = b.level[t][q]
  BY <1>1, <1>2, <1>fields, <1>4 DEF BookType
<1>8. c.total \in [Side -> [Price -> 0..MaxQuantity]]
  <2>1. b.total[s][p] - b.order[id].qty \in 0..MaxQuantity
    BY <1>1, <1>6, WidthAssumption
  <2> QED
    BY <1>1, <1>2, <1>fields, <2>1 DEF BookType
<1>9. /\ p \in Occupied(b, s)
      /\ Occupied(c, s) = IF rest = <<>> THEN Occupied(b, s) \ {p} ELSE Occupied(b, s)
      /\ \A t \in Side \ {s} : Occupied(c, t) = Occupied(b, t)
  <2>1. fifo # <<>>
    BY <1>1, <1>3, <1>5
  <2> QED
    BY <1>1, <1>7, <2>1 DEF Occupied, fifo
<1>10. BestIsCached(c)
  <2> SUFFICES ASSUME NEW t \in Side
               PROVE  IF Occupied(c, t) = {}
                      THEN c.best[t] = NoPrice
                      ELSE /\ c.best[t] \in Occupied(c, t)
                           /\ \A q \in Occupied(c, t) : ~Better(t, q, c.best[t])
    BY DEF BestIsCached
  <2>0. /\ b.best \in [Side -> Price \cup {NoPrice}]
        /\ IF Occupied(b, t) = {}
           THEN b.best[t] = NoPrice
           ELSE /\ b.best[t] \in Occupied(b, t)
                /\ \A q \in Occupied(b, t) : ~Better(t, q, b.best[t])
    BY <1>2 DEF BestIsCached, BookType
  <2>1. CASE t # s
    BY <2>0, <2>1, <1>9, <1>fields
  <2>2. CASE t = s /\ rest = <<>> /\ b.best[s] = p
    <3>1. c.best[s] = BestOf(s, Occupied(c, s))
      BY <2>0, <2>2, <1>9, <1>1, <1>fields DEF BestAfterRemove
    <3>2. Occupied(c, s) \in SUBSET Price
      BY DEF Occupied
    <3>3. CASE Occupied(c, s) = {}
      BY <2>2, <3>1, <3>3 DEF BestOf
    <3>4. CASE Occupied(c, s) # {}
      <4>1. /\ BestOf(s, Occupied(c, s)) \in Occupied(c, s)
            /\ \A q \in Occupied(c, s) : ~Better(s, q, BestOf(s, Occupied(c, s)))
        BY <1>1, <3>2, <3>4, BestOfProperties
      <4> QED
        BY <2>2, <3>1, <3>4, <4>1
    <3> QED
      BY <3>3, <3>4
  <2>3. CASE t = s /\ ~(rest = <<>> /\ b.best[s] = p)
    <3>1. c.best[s] = b.best[s]
      BY <2>0, <2>3, <1>1, <1>fields DEF BestAfterRemove
    <3> QED
      BY <2>0, <2>3, <3>1, <1>9
  <2> QED
    BY <2>1, <2>2, <2>3
<1>11. c.best \in [Side -> Price \cup {NoPrice}]
  <2>1. \A t \in Side : c.best[t] \in Price \cup {NoPrice}
    BY <1>10 DEF BestIsCached, Occupied
  <2>2. c.best = [t \in Side |-> c.best[t]]
    BY <1>2, <1>fields DEF BookType
  <2> QED
    BY <2>1, <2>2
<1>12. c \in BookType
  BY <1>2, <1>7, <1>8, <1>11, <1>fields DEF BookType
<1>13. IndexedAreQueued(c)
  <2> SUFFICES ASSUME NEW x \in b.index, x # id
               PROVE  /\ b.order[x].price \in Price
                      /\ \E j \in DOMAIN c.level[b.order[x].side][b.order[x].price] :
                           c.level[b.order[x].side][b.order[x].price][j] = x
    BY <1>same, SMTT(30) DEF IndexedAreQueued
  <2>1. /\ b.order[x].side \in Side
        /\ b.order[x].price \in Price
    BY OrderPlace
  <2>2. PICK j \in DOMAIN b.level[b.order[x].side][b.order[x].price] :
          b.level[b.order[x].side][b.order[x].price][j] = x
    BY <1>2 DEF IndexedAreQueued
  <2>3. CASE b.order[x].side = s /\ b.order[x].price = p
    <3>1. j \in DOMAIN fifo /\ fifo[j] = x /\ j # i
      BY <2>2, <2>3, <1>3 DEF fifo
    <3>2. CASE j < i
      <4>1. j \in DOMAIN rest /\ rest[j] = x
        BY <3>1, <3>2, <1>4, <1>5
      <4> QED
        BY <4>1, <2>1, <2>3, <1>7
    <3>3. CASE j > i
      <4>1. j - 1 \in DOMAIN rest /\ ~(j - 1 < i) /\ (j - 1) + 1 = j
        BY <3>1, <3>3, <1>5
      <4>2. rest[j - 1] = x
        BY <4>1, <3>1, <1>4
      <4> QED
        BY <4>1, <4>2, <2>1, <2>3, <1>7
    <3>4. j < i \/ j > i
      BY <3>1, <1>5
    <3> QED
      BY <3>2, <3>3, <3>4
  <2>4. CASE ~(b.order[x].side = s /\ b.order[x].price = p)
    BY <2>1, <2>2, <2>4, <1>7
  <2> QED
    BY <2>3, <2>4
<1>14. QueuedAreIndexed(c)
  <2> SUFFICES ASSUME NEW t \in Side, NEW q \in Price, NEW k \in DOMAIN c.level[t][q]
               PROVE  LET x == c.level[t][q][k]
                      IN /\ x \in b.index \ {id}
                         /\ b.order[x].side = t
                         /\ b.order[x].price = q
                         /\ \A j \in DOMAIN c.level[t][q] : c.level[t][q][j] = x => j = k
    BY <1>same DEF QueuedAreIndexed
  <2>1. CASE ~(t = s /\ q = p)
    <3>1. c.level[t][q] = b.level[t][q]
      BY <1>7, <2>1
    <3>2. LET x == c.level[t][q][k]
          IN /\ x \in b.index
             /\ b.order[x].side = t
             /\ b.order[x].price = q
             /\ \A j \in DOMAIN c.level[t][q] : c.level[t][q][j] = x => j = k
      BY <3>1, <1>2 DEF QueuedAreIndexed
    <3> QED
      BY <3>2, <2>1, <1>0
  <2>2. CASE t = s /\ q = p
    <3> DEFINE old(j) == IF j < i THEN j ELSE j + 1
    <3>1. \A j \in DOMAIN rest : old(j) \in DOMAIN fifo /\ old(j) # i /\ rest[j] = fifo[old(j)]
      BY <1>4, <1>5
    <3>2. \A j \in DOMAIN rest : old(j) = old(k) => j = k
      BY <2>2, <1>5, <1>7
    <3>3. \A m \in DOMAIN fifo :
            /\ fifo[m] \in b.index
            /\ b.order[fifo[m]].side = s
            /\ b.order[fifo[m]].price = p
            /\ \A j \in DOMAIN fifo : fifo[j] = fifo[m] => j = m
      BY <1>1, <1>2 DEF QueuedAreIndexed, fifo
    <3>4. c.level[t][q] = rest /\ k \in DOMAIN rest
      BY <2>2, <1>7
    <3> HIDE DEF old
    <3>5. rest[k] # id
      BY <3>1, <3>3, <3>4, <1>3
    <3>6. \A j \in DOMAIN rest : rest[j] = rest[k] => j = k
      <4> TAKE j \in DOMAIN rest
      <4> HAVE rest[j] = rest[k]
      <4>1. old(j) = old(k)
        BY <3>1, <3>3, <3>4
      <4> QED
        BY <4>1, <3>2
    <3> QED
      BY <3>1, <3>3, <3>4, <3>5, <3>6, <2>2
  <2> QED
    BY <2>1, <2>2
<1>15. \A t \in Side : Occupied(c, t) \subseteq Occupied(b, t)
  BY <1>9
<1> QED
  BY <1>fields, <1>10, <1>12, <1>13, <1>14, <1>15 DEF Sound

(* Clearing and releasing the node of an order that is not in the index    *)
(* keeps the structure.                                                    *)
LEMMA ReleasedSound ==
  ASSUME NEW b, Sound(b), NEW id \in OrderId, id \notin b.index, b.used > 0,
         NEW c, c = Released(b, id)
  PROVE  /\ Sound(c)
         /\ c.index = b.index
         /\ c.used = b.used - 1
         /\ c.level = b.level
         /\ \A t \in Side : Occupied(c, t) = Occupied(b, t)
<1>1. b \in BookType /\ BestIsCached(b) /\ IndexedAreQueued(b) /\ QueuedAreIndexed(b)
  BY DEF Sound
<1>2. Blank \in Order
  BY WidthAssumption, ParticipantAssumption DEF Blank, Order, Side
<1>3. /\ c \in BookType
      /\ c.level = b.level
      /\ c.best = b.best
      /\ c.index = b.index
      /\ c.used = b.used - 1
      /\ \A x \in b.index : c.order[x] = b.order[x]
  <2>1. /\ c.order = [b.order EXCEPT ![id] = Blank]
        /\ c.used = b.used - 1
        /\ c.level = b.level
        /\ c.total = b.total
        /\ c.best = b.best
        /\ c.index = b.index
        /\ c.seq = b.seq
        /\ c \in [level: {c.level}, total: {c.total}, best: {c.best}, order: {c.order},
                  index: {c.index}, used: {c.used}, seq: {c.seq}]
    BY <1>1 DEF Released, BookType
  <2>2. c.order \in [OrderId -> Order]
    BY <2>1, <1>1, <1>2 DEF BookType
  <2>3. c.used \in Nat
    BY <2>1, <1>1 DEF BookType
  <2>4. c \in BookType
    BY <2>1, <2>2, <2>3, <1>1 DEF BookType
  <2>5. \A x \in b.index : c.order[x] = b.order[x]
    BY <2>1, <1>1 DEF BookType
  <2> QED
    BY <2>1, <2>4, <2>5
<1>4. \A t \in Side : Occupied(c, t) = Occupied(b, t)
  BY <1>3 DEF Occupied
<1>5. BestIsCached(c)
  BY <1>1, <1>3, <1>4 DEF BestIsCached
<1>6. IndexedAreQueued(c)
  <2>1. /\ IndexedAreQueued(b)
        /\ c.level = b.level /\ c.index = b.index
        /\ \A x \in b.index : c.order[x] = b.order[x]
    BY <1>1, <1>3
  <2> QED
    BY <2>1, SMTT(30) DEF IndexedAreQueued
<1>7. QueuedAreIndexed(c)
  BY <1>1, <1>3 DEF QueuedAreIndexed
<1> QED
  BY <1>3, <1>4, <1>5, <1>6, <1>7 DEF Sound

(* The whole removal of a resting order keeps the structure.               *)
LEMMA RemovedSound ==
  ASSUME NEW b, Sound(b), NEW id \in b.index, Removable(b, id), b.used > 0,
         NEW c, c = Removed(b, id)
  PROVE  /\ Sound(c)
         /\ c.index = b.index \ {id}
         /\ c.used = b.used - 1
         /\ \A t \in Side : Occupied(c, t) \subseteq Occupied(b, t)
<1> DEFINE u == Unindexed(Unlinked(b, id), id)
<1>1. /\ Sound(u)
      /\ u.index = b.index \ {id}
      /\ u.used = b.used
      /\ \A t \in Side : Occupied(u, t) \subseteq Occupied(b, t)
  BY UnlinkedSound
<1>2. id \in OrderId
  BY OrderPlace
<1>3. c = Released(u, id)
  BY DEF Removed
<1> HIDE DEF u
<1>4. /\ Sound(c)
      /\ c.index = u.index
      /\ c.used = u.used - 1
      /\ \A t \in Side : Occupied(c, t) = Occupied(u, t)
  BY <1>1, <1>2, <1>3, ReleasedSound
<1> QED
  BY <1>1, <1>4

Requantified(b, id, qty, s, p, total) ==
  [b EXCEPT !.order[id].qty = qty, !.total[s][p] = total]

(* An order's quantity and a level's total may be changed freely: the      *)
(* structure does not depend on them.                                      *)
LEMMA RequantifiedSound ==
  ASSUME NEW b, Sound(b), NEW id \in b.index,
         NEW qty \in 0..MaxQuantity, NEW total \in 0..MaxQuantity,
         NEW s \in Side, NEW p \in Price,
         NEW c, c = Requantified(b, id, qty, s, p, total)
  PROVE  /\ Sound(c)
         /\ c.index = b.index
         /\ c.used = b.used
         /\ c.level = b.level
         /\ c.best = b.best
         /\ \A t \in Side : Occupied(c, t) = Occupied(b, t)
         /\ \A x \in OrderId : /\ c.order[x].side = b.order[x].side
                               /\ c.order[x].price = b.order[x].price
         /\ c.order[id].qty = qty
         /\ c.total[s][p] = total
<1>1. /\ b \in BookType /\ BestIsCached(b) /\ IndexedAreQueued(b) /\ QueuedAreIndexed(b)
      /\ b.index \subseteq OrderId
  BY DEF Sound, BookType
<1>2. [b.order[id] EXCEPT !.qty = qty] \in Order
  BY <1>1 DEF BookType, Order
<1>3. /\ c.order = [b.order EXCEPT ![id] = [b.order[id] EXCEPT !.qty = qty]]
      /\ c.total = [b.total EXCEPT ![s][p] = total]
      /\ c.level = b.level
      /\ c.best = b.best
      /\ c.index = b.index
      /\ c.used = b.used
      /\ c.seq = b.seq
      /\ c \in [level: {c.level}, total: {c.total}, best: {c.best}, order: {c.order},
                index: {c.index}, used: {c.used}, seq: {c.seq}]
  BY <1>1 DEF BookType, Requantified
<1>4. /\ c.order \in [OrderId -> Order]
      /\ \A x \in OrderId : /\ c.order[x].side = b.order[x].side
                            /\ c.order[x].price = b.order[x].price
      /\ c.order[id].qty = qty
  <2>1. b.order \in [OrderId -> Order] /\ id \in OrderId /\ b.order[id] \in Order
    BY <1>1 DEF BookType
  <2>2. /\ [b.order[id] EXCEPT !.qty = qty].side = b.order[id].side
        /\ [b.order[id] EXCEPT !.qty = qty].price = b.order[id].price
        /\ [b.order[id] EXCEPT !.qty = qty].qty = qty
    BY <2>1 DEF Order
  <2>3. c.order[id] = [b.order[id] EXCEPT !.qty = qty]
    BY <2>1, <1>3
  <2>4. \A x \in OrderId \ {id} : c.order[x] = b.order[x]
    BY <2>1, <1>3
  <2>5. c.order \in [OrderId -> Order]
    BY <2>1, <1>2, <1>3
  <2> QED
    BY <2>2, <2>3, <2>4, <2>5
<1>5. c.total \in [Side -> [Price -> 0..MaxQuantity]] /\ c.total[s][p] = total
  BY <1>1, <1>3 DEF BookType
<1>6. c \in BookType
  BY <1>1, <1>3, <1>4, <1>5 DEF BookType
<1>7. \A t \in Side : Occupied(c, t) = Occupied(b, t)
  BY <1>3 DEF Occupied
<1>8. BestIsCached(c)
  BY <1>1, <1>3, <1>7 DEF BestIsCached
<1>9. IndexedAreQueued(c)
  <2> SUFFICES ASSUME NEW x \in c.index
               PROVE  /\ c.order[x].price \in Price
                      /\ \E i \in DOMAIN c.level[c.order[x].side][c.order[x].price] :
                           c.level[c.order[x].side][c.order[x].price][i] = x
    BY DEF IndexedAreQueued
  <2>0. x \in b.index
    BY <1>3
  <2>1. c.order[x].side = b.order[x].side /\ c.order[x].price = b.order[x].price
    BY <2>0, <1>1, <1>4
  <2>2. /\ b.order[x].price \in Price
        /\ \E i \in DOMAIN b.level[b.order[x].side][b.order[x].price] :
             b.level[b.order[x].side][b.order[x].price][i] = x
    BY <2>0, <1>1 DEF IndexedAreQueued
  <2>3. c.level[c.order[x].side][c.order[x].price] = b.level[b.order[x].side][b.order[x].price]
    BY <2>1, <1>3
  <2> QED
    BY <2>1, <2>2, <2>3
<1>10. QueuedAreIndexed(c)
  <2> SUFFICES ASSUME NEW t \in Side, NEW q \in Price, NEW k \in DOMAIN b.level[t][q]
               PROVE  LET x == b.level[t][q][k]
                      IN /\ x \in b.index
                         /\ c.order[x].side = t
                         /\ c.order[x].price = q
                         /\ \A j \in DOMAIN b.level[t][q] : b.level[t][q][j] = x => j = k
    BY <1>3 DEF QueuedAreIndexed
  <2>1. LET x == b.level[t][q][k]
        IN /\ x \in b.index
           /\ b.order[x].side = t
           /\ b.order[x].price = q
           /\ \A j \in DOMAIN b.level[t][q] : b.level[t][q][j] = x => j = k
    BY <1>1 DEF QueuedAreIndexed
  <2> QED
    BY <2>1, <1>1, <1>4
<1> QED
  BY <1>3, <1>4, <1>5, <1>6, <1>7, <1>8, <1>9, <1>10 DEF Sound

(* reduce_order keeps the structure.                                       *)
LEMMA ReducedSound ==
  ASSUME NEW b, Sound(b), NEW id \in b.index, NEW qty \in 0..MaxQuantity,
         qty <= b.order[id].qty,
         b.order[id].qty - qty <= b.total[b.order[id].side][b.order[id].price],
         NEW c, c = Reduced(b, id, qty)
  PROVE  /\ Sound(c)
         /\ c.index = b.index
         /\ c.used = b.used
         /\ \A t \in Side : Occupied(c, t) \subseteq Occupied(b, t)
<1> DEFINE s == b.order[id].side
           p == b.order[id].price
           total == b.total[s][p] - (b.order[id].qty - qty)
<1>1. c = Requantified(b, id, qty, s, p, total)
  BY DEF Reduced, Requantified
<1>2. /\ b.order[id].qty \in 0..MaxQuantity
      /\ s \in Side /\ p \in Price
      /\ b.total[s][p] \in 0..MaxQuantity
  BY OrderPlace DEF Order
<1>3. total \in 0..MaxQuantity
  BY <1>2, WidthAssumption
<1> HIDE DEF s, p, total
<1> QED
  BY <1>1, <1>2, <1>3, RequantifiedSound

(* The front order of the best level is an indexed order of that side and  *)
(* price.                                                                  *)
LEMMA FrontIsIndexed ==
  ASSUME NEW b, Sound(b), NEW s \in Side, b.best[s] # NoPrice
  PROVE  /\ b.best[s] \in Price
         /\ Head(b.level[s][b.best[s]]) \in b.index
         /\ b.order[Head(b.level[s][b.best[s]])].side = s
         /\ b.order[Head(b.level[s][b.best[s]])].price = b.best[s]
         /\ b.total[s][b.best[s]] \in 0..MaxQuantity
<1>1. b \in BookType /\ BestIsCached(b) /\ QueuedAreIndexed(b)
  BY DEF Sound
<1>2. b.best[s] \in Occupied(b, s)
  BY <1>1 DEF BestIsCached
<1>3. b.best[s] \in Price /\ b.level[s][b.best[s]] # <<>>
  BY <1>2 DEF Occupied
<1>4. b.level[s][b.best[s]] \in Seq(OrderId)
  BY <1>1, <1>3 DEF BookType
<1>5. /\ 1 \in DOMAIN b.level[s][b.best[s]]
      /\ Head(b.level[s][b.best[s]]) = b.level[s][b.best[s]][1]
  BY <1>3, <1>4, EmptySeq, LenProperties
<1>6. b.total[s][b.best[s]] \in 0..MaxQuantity
  BY <1>1, <1>3 DEF BookType
<1>7. LET id == b.level[s][b.best[s]][1]
      IN id \in b.index /\ b.order[id].side = s /\ b.order[id].price = b.best[s]
  BY <1>1, <1>3, <1>5, SMTT(30) DEF QueuedAreIndexed
<1> QED
  BY <1>3, <1>5, <1>6, <1>7

(* fill_front, with the removal of an exhausted front order, keeps the     *)
(* structure and removes at most that order.                               *)
LEMMA FilledFrontSound ==
  ASSUME NEW b, Sound(b), NEW s \in Side, b.best[s] # NoPrice, b.used > 0,
         NEW x \in Nat, x <= b.order[Head(b.level[s][b.best[s]])].qty,
         NEW c, c = FilledFront(b, s, x)
  PROVE  /\ Sound(c)
         /\ \/ c.index = b.index /\ c.used = b.used
            \/ \E id \in b.index : c.index = b.index \ {id} /\ c.used = b.used - 1
         /\ \A t \in Side : Occupied(c, t) \subseteq Occupied(b, t)
<1> DEFINE p == b.best[s]
           id == Head(b.level[s][p])
           qty == b.order[id].qty - x
           total == (b.total[s][p] - x) % (MaxQuantity + 1)
           after == Requantified(b, id, qty, s, p, total)
<1>1. c = IF after.order[id].qty = 0 THEN Removed(after, id) ELSE after
  BY DEF FilledFront, Requantified
<1>2. /\ p \in Price /\ id \in b.index
      /\ b.order[id].side = s /\ b.order[id].price = p
      /\ b.total[s][p] \in 0..MaxQuantity
  BY FrontIsIndexed
<1>3. b.order[id].qty \in 0..MaxQuantity
  BY <1>2, OrderPlace DEF Order
<1>4. qty \in 0..MaxQuantity
  <2>1. x <= b.order[id].qty
    OBVIOUS
  <2> HIDE DEF id
  <2> QED
    BY <2>1, <1>3, WidthAssumption
<1>5. total \in 0..MaxQuantity
  <2>1. b.total[s][p] - x \in Int /\ MaxQuantity + 1 \in Nat \ {0}
    <3> DEFINE held == b.total[s][p]
    <3>1. held \in 0..MaxQuantity
      BY <1>2
    <3> HIDE DEF held
    <3>2. held - x \in Int /\ MaxQuantity + 1 \in Nat \ {0}
      BY <3>1, WidthAssumption
    <3> QED
      BY <3>2 DEF held
  <2>2. (b.total[s][p] - x) % (MaxQuantity + 1) \in 0..((MaxQuantity + 1) - 1)
    BY <2>1, ModRange
  <2> QED
    BY <2>2, WidthAssumption
<1>6. after = Requantified(b, id, qty, s, p, total)
  OBVIOUS
<1> HIDE DEF p, id, qty, total, after
<1>7. /\ Sound(after)
      /\ after.index = b.index
      /\ after.used = b.used
      /\ \A t \in Side : Occupied(after, t) = Occupied(b, t)
      /\ after.order[id].side = s
      /\ after.order[id].price = p
      /\ after.order[id].qty = qty
      /\ after.total[s][p] = total
  <2>1. id \in OrderId
    BY <1>2, OrderPlace
  <2> QED
    BY <2>1, <1>2, <1>4, <1>5, <1>6, RequantifiedSound
<1>8. c = IF after.order[id].qty = 0 THEN Removed(after, id) ELSE after
  BY <1>1
<1>9. CASE qty = 0
  <2>1. Removable(after, id)
    BY <1>5, <1>7, <1>9 DEF Removable
  <2>2. c = Removed(after, id)
    BY <1>7, <1>8, <1>9
  <2>3. /\ Sound(c)
        /\ c.index = after.index \ {id}
        /\ c.used = after.used - 1
        /\ \A t \in Side : Occupied(c, t) \subseteq Occupied(after, t)
    BY <2>1, <2>2, <1>2, <1>7, RemovedSound
  <2> QED
    BY <2>3, <1>2, <1>7
<1>10. CASE qty # 0
  BY <1>7, <1>8, <1>10
<1> QED
  BY <1>9, <1>10

(* Resting an order that is not in the book, where its level has room for  *)
(* its quantity, keeps the structure and adds one price at most.           *)
LEMMA RestedSound ==
  ASSUME NEW b, Sound(b), NEW id \in OrderId, id \notin b.index,
         NEW s \in Side, NEW p \in Price, NEW qty \in 0..MaxQuantity,
         qty <= MaxQuantity - b.total[s][p],
         NEW owner \in Participant,
         NEW c, c = Rested(b, id, s, p, qty, owner)
  PROVE  /\ Sound(c)
         /\ c.index = b.index \cup {id}
         /\ c.used = b.used
         /\ Occupied(c, s) = Occupied(b, s) \cup {p}
         /\ \A t \in Side \ {s} : Occupied(c, t) = Occupied(b, t)
<1>1. /\ b \in BookType /\ BestIsCached(b) /\ IndexedAreQueued(b) /\ QueuedAreIndexed(b)
      /\ b.index \subseteq OrderId
      /\ b.total[s][p] \in 0..MaxQuantity
      /\ b.level[s][p] \in Seq(OrderId)
  BY DEF Sound, BookType
<1>2. NextSequence(b) \in 0..MaxSequence
  <2>1. b.seq \in 0..MaxSequence
    BY <1>1 DEF BookType
  <2> QED
    BY <2>1, WidthAssumption DEF NextSequence, Min2
<1>3. PICK node, fifo, seq, total :
        /\ node = [side |-> s, price |-> p, qty |-> qty, seq |-> seq, owner |-> owner]
        /\ fifo = Append(b.level[s][p], id)
        /\ seq = NextSequence(b)
        /\ total = b.total[s][p] + qty
  OBVIOUS
<1>4. /\ node \in Order
      /\ node.side = s /\ node.price = p
  BY <1>2, <1>3 DEF Order
<1>5. /\ fifo \in Seq(OrderId)
      /\ fifo # <<>>
      /\ DOMAIN fifo = 1..(Len(b.level[s][p]) + 1)
      /\ DOMAIN b.level[s][p] = 1..Len(b.level[s][p])
      /\ Len(b.level[s][p]) \in Nat
      /\ \A i \in 1..Len(b.level[s][p]) : fifo[i] = b.level[s][p][i]
      /\ fifo[Len(b.level[s][p]) + 1] = id
  BY <1>1, <1>3, AppendProperties, LenProperties, SMTT(30)
<1>6. total \in 0..MaxQuantity
  BY <1>1, <1>3, WidthAssumption, SMTT(30)
<1>7. /\ c.order = [b.order EXCEPT ![id] = node]
      /\ c.level = [b.level EXCEPT ![s][p] = fifo]
      /\ c.total = [b.total EXCEPT ![s][p] = total]
      /\ c.best = [b.best EXCEPT ![s] = BestAfterAdd(b, s, p)]
      /\ c.index = b.index \cup {id}
      /\ c.used = b.used
      /\ c.seq = seq
      /\ c \in [level: {c.level}, total: {c.total}, best: {c.best}, order: {c.order},
                index: {c.index}, used: {c.used}, seq: {c.seq}]
  BY <1>1, <1>3 DEF Rested, BookType
<1>8. /\ c.level \in [Side -> [Price -> Seq(OrderId)]]
      /\ c.level[s][p] = fifo
      /\ \A t \in Side, q \in Price :
           ~(t = s /\ q = p) => c.level[t][q] = b.level[t][q]
  BY <1>1, <1>5, <1>7 DEF BookType
<1>9. /\ c.order \in [OrderId -> Order]
      /\ c.order[id] = node
      /\ \A x \in b.index : c.order[x] = b.order[x]
  BY <1>1, <1>4, <1>7 DEF BookType
<1>10. c.total \in [Side -> [Price -> 0..MaxQuantity]]
  BY <1>1, <1>6, <1>7 DEF BookType
<1>11. BestAfterAdd(b, s, p) \in Price \cup {NoPrice}
  BY <1>1 DEF BestAfterAdd, BookType
<1>12. c.best \in [Side -> Price \cup {NoPrice}]
  BY <1>1, <1>7, <1>11 DEF BookType
<1>13. c \in BookType
  <2>1. c.index \in SUBSET OrderId /\ c.used \in Nat /\ c.seq \in 0..MaxSequence
    BY <1>1, <1>2, <1>3, <1>7 DEF BookType
  <2> QED
    BY <2>1, <1>7, <1>8, <1>9, <1>10, <1>12 DEF BookType
<1>14. /\ Occupied(c, s) = Occupied(b, s) \cup {p}
       /\ \A t \in Side \ {s} : Occupied(c, t) = Occupied(b, t)
  BY <1>5, <1>8 DEF Occupied
<1>15. BestIsCached(c)
  <2> SUFFICES ASSUME NEW t \in Side
               PROVE  IF Occupied(c, t) = {}
                      THEN c.best[t] = NoPrice
                      ELSE /\ c.best[t] \in Occupied(c, t)
                           /\ \A q \in Occupied(c, t) : ~Better(t, q, c.best[t])
    BY DEF BestIsCached
  <2>1. /\ b.best \in [Side -> Price \cup {NoPrice}]
        /\ IF Occupied(b, t) = {}
           THEN b.best[t] = NoPrice
           ELSE /\ b.best[t] \in Occupied(b, t)
                /\ \A q \in Occupied(b, t) : ~Better(t, q, b.best[t])
    BY <1>1 DEF BestIsCached, BookType
  <2>2. CASE t # s
    BY <2>1, <2>2, <1>7, <1>14
  <2>3. CASE t = s
    <3>1. c.best[s] = BestAfterAdd(b, s, p)
      BY <2>1, <1>7
    <3>2. Occupied(b, s) \subseteq Int /\ p \in Int
      BY PriceAssumption DEF Occupied
    <3>3. NoPrice \notin Occupied(b, s)
      BY PriceAssumption DEF Occupied
    <3>4. \A q \in Occupied(b, s) \cup {p} : ~Better(s, q, BestAfterAdd(b, s, p))
      BY <2>1, <2>3, <3>2, <3>3 DEF BestAfterAdd, Better
    <3>5. BestAfterAdd(b, s, p) \in Occupied(b, s) \cup {p}
      BY <2>1, <2>3 DEF BestAfterAdd
    <3> QED
      BY <2>3, <3>1, <3>4, <3>5, <1>14
  <2> QED
    BY <2>2, <2>3
<1>16. IndexedAreQueued(c)
  <2> SUFFICES ASSUME NEW x \in c.index
               PROVE  /\ c.order[x].price \in Price
                      /\ \E i \in DOMAIN c.level[c.order[x].side][c.order[x].price] :
                           c.level[c.order[x].side][c.order[x].price][i] = x
    BY DEF IndexedAreQueued
  <2>1. CASE x = id
    <3>1. Len(b.level[s][p]) + 1 \in DOMAIN fifo
      BY <1>5
    <3>2. /\ c.order[x].price = p
          /\ c.level[c.order[x].side][c.order[x].price] = fifo
      BY <2>1, <1>4, <1>8, <1>9
    <3> QED
      BY <2>1, <3>1, <3>2, <1>5
  <2>2. CASE x \in b.index
    <3>1. b.order[x].side \in Side /\ b.order[x].price \in Price
      BY <2>2, OrderPlace
    <3>2. PICK i \in DOMAIN b.level[b.order[x].side][b.order[x].price] :
            b.level[b.order[x].side][b.order[x].price][i] = x
      BY <2>2, <1>1 DEF IndexedAreQueued
    <3>3. i \in DOMAIN c.level[b.order[x].side][b.order[x].price]
          /\ c.level[b.order[x].side][b.order[x].price][i] = x
      <4>1. CASE b.order[x].side = s /\ b.order[x].price = p
        <5>1. i \in 1..Len(b.level[s][p]) /\ b.level[s][p][i] = x
          BY <4>1, <3>2, <1>5
        <5>2. i \in DOMAIN fifo /\ fifo[i] = x
          BY <5>1, <1>5
        <5> QED
          BY <4>1, <5>2, <1>8
      <4>2. CASE ~(b.order[x].side = s /\ b.order[x].price = p)
        BY <4>2, <3>1, <3>2, <1>8
      <4> QED
        BY <4>1, <4>2
    <3>4. c.order[x] = b.order[x]
      BY <2>2, <1>9
    <3> QED
      BY <3>1, <3>3, <3>4
  <2> QED
    BY <2>1, <2>2, <1>7
<1>17. QueuedAreIndexed(c)
  <2> SUFFICES ASSUME NEW t \in Side, NEW q \in Price, NEW k \in DOMAIN c.level[t][q]
               PROVE  LET x == c.level[t][q][k]
                      IN /\ x \in c.index
                         /\ c.order[x].side = t
                         /\ c.order[x].price = q
                         /\ \A j \in DOMAIN c.level[t][q] : c.level[t][q][j] = x => j = k
    BY DEF QueuedAreIndexed
  <2>1. \A m \in DOMAIN b.level[t][q] :
          /\ b.level[t][q][m] \in b.index
          /\ c.order[b.level[t][q][m]].side = t
          /\ c.order[b.level[t][q][m]].price = q
          /\ \A j \in DOMAIN b.level[t][q] : b.level[t][q][j] = b.level[t][q][m] => j = m
    BY <1>1, <1>9 DEF QueuedAreIndexed
  <2>2. CASE ~(t = s /\ q = p)
    <3>1. c.level[t][q] = b.level[t][q]
      BY <2>2, <1>8
    <3> QED
      BY <2>1, <3>1, <1>7
  <2>3. CASE t = s /\ q = p
    <3>1. c.level[t][q] = fifo
      BY <2>3, <1>8
    <3>2. CASE k \in 1..Len(b.level[s][p])
      <4>1. /\ fifo[k] = b.level[s][p][k]
            /\ fifo[k] # id
            /\ fifo[k] \in b.index
            /\ c.order[fifo[k]].side = s
            /\ c.order[fifo[k]].price = p
        BY <2>1, <2>3, <3>2, <1>5, SMTT(30)
      <4>2. \A j \in DOMAIN fifo : fifo[j] = fifo[k] => j = k
        BY <2>1, <2>3, <3>2, <4>1, <1>5, SMTT(30)
      <4> QED
        BY <2>3, <3>1, <4>1, <4>2, <1>7
    <3>3. CASE k = Len(b.level[s][p]) + 1
      <4>1. fifo[k] = id
        BY <3>3, <1>5
      <4>2. \A j \in DOMAIN fifo : fifo[j] = id => j = k
        BY <2>1, <2>3, <3>3, <1>5, SMTT(30)
      <4> QED
        BY <2>3, <3>1, <4>1, <4>2, <1>4, <1>7, <1>9
    <3> QED
      BY <3>1, <3>2, <3>3, <1>5
  <2> QED
    BY <2>2, <2>3
<1> QED
  BY <1>7, <1>13, <1>14, <1>15, <1>16, <1>17 DEF Sound

-----------------------------------------------------------------------------
(* Uncrossed books, and books whose counts balance.                        *)

(* A book cannot become crossed by losing levels.                          *)
LEMMA UncrossedShrinks ==
  ASSUME NEW b, Uncrossed(b), NEW c,
         \A t \in Side : Occupied(c, t) \subseteq Occupied(b, t)
  PROVE  Uncrossed(c)
  BY DEF Uncrossed, Side

(* A book stays uncrossed when an order rests at a price that the best     *)
(* opposite price does not cross: the exit condition of the matching loop. *)
LEMMA UncrossedGrows ==
  ASSUME NEW b, Sound(b), Uncrossed(b), NEW s \in Side, NEW p \in Price,
         \/ b.best[Opposite(s)] = NoPrice
         \/ ~Crosses(Opposite(s), b.best[Opposite(s)], p),
         NEW c, Occupied(c, s) = Occupied(b, s) \cup {p},
         \A t \in Side \ {s} : Occupied(c, t) = Occupied(b, t)
  PROVE  Uncrossed(c)
<1>1. /\ Opposite(s) \in Side \ {s}
      /\ p # NoPrice /\ p \in Int
      /\ Occupied(b, Opposite(s)) \subseteq Int
      /\ NoPrice \notin Occupied(b, Opposite(s))
  BY PriceAssumption DEF Opposite, Side, Occupied
<1>2. IF Occupied(b, Opposite(s)) = {}
      THEN b.best[Opposite(s)] = NoPrice
      ELSE /\ b.best[Opposite(s)] \in Occupied(b, Opposite(s))
           /\ \A q \in Occupied(b, Opposite(s)) : ~Better(Opposite(s), q, b.best[Opposite(s)])
  BY <1>1 DEF Sound, BestIsCached
<1>3. CASE s = "Buy"
  <2>1. \A ask \in Occupied(b, "Sell") : p < ask
    BY <1>1, <1>2, <1>3 DEF Opposite, Crosses, Better
  <2>2. Occupied(c, "Buy") = Occupied(b, "Buy") \cup {p} /\ Occupied(c, "Sell") = Occupied(b, "Sell")
    BY <1>3 DEF Side
  <2> QED
    BY <2>1, <2>2 DEF Uncrossed
<1>4. CASE s = "Sell"
  <2>1. \A bid \in Occupied(b, "Buy") : bid < p
    BY <1>1, <1>2, <1>4 DEF Opposite, Crosses, Better
  <2>2. Occupied(c, "Sell") = Occupied(b, "Sell") \cup {p} /\ Occupied(c, "Buy") = Occupied(b, "Buy")
    BY <1>4 DEF Side
  <2> QED
    BY <2>1, <2>2 DEF Uncrossed
<1> QED
  BY <1>3, <1>4 DEF Side

(* Everything the invariants say of the book alone.                        *)
Kept(b) == Sound(b) /\ Uncrossed(b) /\ IsFiniteSet(b.index)

(* c has no more orders or slots than b, and as many slots without an      *)
(* indexed order.                                                          *)
Shrinks(b, c) ==
  /\ c.index \subseteq b.index
  /\ c.used <= b.used
  /\ Cardinality(c.index) <= Cardinality(b.index)
  /\ c.used - Cardinality(c.index) = b.used - Cardinality(b.index)

(* One order fewer in the index is one fewer in its count, and there is a  *)
(* slot to release.                                                        *)
LEMMA RemovedCount ==
  ASSUME NEW b, Kept(b), NEW id \in b.index, b.used >= Cardinality(b.index)
  PROVE  /\ Cardinality(b.index) \in Nat
         /\ b.used \in Nat
         /\ b.used > 0
         /\ IsFiniteSet(b.index \ {id})
         /\ Cardinality(b.index \ {id}) = Cardinality(b.index) - 1
<1>1. IsFiniteSet(b.index) /\ b.used \in Nat
  BY DEF Kept, Sound, BookType
<1>2. Cardinality(b.index) \in Nat
  BY <1>1, FS_CardinalityType
<1>3. /\ IsFiniteSet(b.index \ {id})
      /\ Cardinality(b.index \ {id}) = Cardinality(b.index) - 1
  BY <1>1, FS_RemoveElement
<1>4. Cardinality(b.index \ {id}) \in Nat
  BY <1>3, FS_CardinalityType
<1> QED
  BY <1>1, <1>2, <1>3, <1>4

(* A removal returns exactly one slot for the order it takes out.          *)
LEMMA RemovedKept ==
  ASSUME NEW b, Kept(b), NEW id \in b.index, Removable(b, id),
         b.used >= Cardinality(b.index), NEW c, c = Removed(b, id)
  PROVE  Kept(c) /\ Shrinks(b, c)
<1>1. Sound(b) /\ Uncrossed(b) /\ IsFiniteSet(b.index)
  BY DEF Kept
<1>2. /\ Cardinality(b.index) \in Nat
      /\ b.used \in Nat
      /\ b.used > 0
      /\ IsFiniteSet(b.index \ {id})
      /\ Cardinality(b.index \ {id}) = Cardinality(b.index) - 1
  BY RemovedCount
<1>3. /\ Sound(c)
      /\ c.index = b.index \ {id}
      /\ c.used = b.used - 1
      /\ \A t \in Side : Occupied(c, t) \subseteq Occupied(b, t)
  BY <1>1, <1>2, RemovedSound
<1>4. Uncrossed(c)
  BY <1>1, <1>3, UncrossedShrinks
<1> QED
  BY <1>2, <1>3, <1>4 DEF Kept, Shrinks

(* A reduction takes no order and no slot.                                 *)
LEMMA ReducedKept ==
  ASSUME NEW b, Kept(b), NEW id \in b.index, NEW qty \in 0..MaxQuantity,
         qty <= b.order[id].qty,
         b.order[id].qty - qty <= b.total[b.order[id].side][b.order[id].price],
         NEW c, c = Reduced(b, id, qty)
  PROVE  Kept(c) /\ Shrinks(b, c)
<1>1. Sound(b) /\ Uncrossed(b) /\ IsFiniteSet(b.index)
  BY DEF Kept
<1>2. /\ Sound(c)
      /\ c.index = b.index
      /\ c.used = b.used
      /\ \A t \in Side : Occupied(c, t) \subseteq Occupied(b, t)
  BY <1>1, ReducedSound
<1>3. Uncrossed(c)
  BY <1>1, <1>2, UncrossedShrinks
<1>4. b.used \in Nat /\ Cardinality(b.index) \in Nat
  BY <1>1, FS_CardinalityType DEF Sound, BookType
<1> QED
  BY <1>1, <1>2, <1>3, <1>4 DEF Kept, Shrinks

(* A fill returns exactly one slot for an order it exhausts.               *)
LEMMA FilledFrontKept ==
  ASSUME NEW b, Kept(b), NEW s \in Side, b.best[s] # NoPrice,
         b.used >= Cardinality(b.index),
         NEW x \in Nat, x <= b.order[Head(b.level[s][b.best[s]])].qty,
         NEW c, c = FilledFront(b, s, x)
  PROVE  Kept(c) /\ Shrinks(b, c)
<1>1. Sound(b) /\ Uncrossed(b) /\ IsFiniteSet(b.index)
  BY DEF Kept
<1>2. Head(b.level[s][b.best[s]]) \in b.index
  BY <1>1, FrontIsIndexed
<1>3. b.used \in Nat /\ b.used > 0 /\ Cardinality(b.index) \in Nat
  BY <1>2, RemovedCount
<1>4. /\ Sound(c)
      /\ \/ c.index = b.index /\ c.used = b.used
         \/ \E id \in b.index : c.index = b.index \ {id} /\ c.used = b.used - 1
      /\ \A t \in Side : Occupied(c, t) \subseteq Occupied(b, t)
  <2>1. Sound(b) /\ b.used > 0
    BY <1>1, <1>3
  <2> QED
    BY <2>1, FilledFrontSound, SMTT(30)
<1>5. Uncrossed(c)
  BY <1>1, <1>4, UncrossedShrinks
<1>6. CASE c.index = b.index /\ c.used = b.used
  BY <1>1, <1>3, <1>4, <1>5, <1>6 DEF Kept, Shrinks
<1>7. CASE \E id \in b.index : c.index = b.index \ {id} /\ c.used = b.used - 1
  <2>1. PICK id \in b.index : c.index = b.index \ {id} /\ c.used = b.used - 1
    BY <1>7
  <2>2. /\ IsFiniteSet(b.index \ {id})
        /\ Cardinality(b.index \ {id}) = Cardinality(b.index) - 1
    BY RemovedCount
  <2> QED
    BY <2>1, <2>2, <1>3, <1>4, <1>5 DEF Kept, Shrinks
<1> QED
  BY <1>4, <1>6, <1>7

(* A new book satisfies everything.                                        *)
LEMMA EmptyBookKept ==
  Kept(EmptyBook) /\ EmptyBook.used = 0 /\ EmptyBook.index = {}
<1>1. Blank \in Order
  BY WidthAssumption, ParticipantAssumption DEF Blank, Order, Side
<1>2. <<>> \in Seq(OrderId)
  BY EmptySeq
<1>3. EmptyBook \in BookType
  BY <1>1, <1>2, WidthAssumption DEF EmptyBook, BookType
<1>4. \A s \in Side : Occupied(EmptyBook, s) = {}
  BY DEF EmptyBook, Occupied
<1>5. BestIsCached(EmptyBook)
  BY <1>4 DEF EmptyBook, BestIsCached
<1>6. IndexedAreQueued(EmptyBook)
  BY DEF EmptyBook, IndexedAreQueued
<1>7. QueuedAreIndexed(EmptyBook)
  <2>1. \A s \in Side, p \in Price : EmptyBook.level[s][p] = <<>>
    BY DEF EmptyBook
  <2>2. DOMAIN <<>> = {}
    BY EmptySeq
  <2> QED
    BY <2>1, <2>2 DEF QueuedAreIndexed
<1>8. Uncrossed(EmptyBook)
  BY <1>4 DEF Uncrossed, Side
<1>9. EmptyBook.used = 0 /\ EmptyBook.index = {}
  BY DEF EmptyBook
<1>10. IsFiniteSet(EmptyBook.index)
  BY <1>9, FS_EmptySet
<1> QED
  BY <1>3, <1>5, <1>6, <1>7, <1>8, <1>9, <1>10 DEF Kept, Sound

(* A book that differs in used or seq only.                                *)
Recounted(b, used, seq) == [b EXCEPT !.used = used, !.seq = seq]

(* Drawing a sequence number or a slot does not touch the structure.       *)
LEMMA SlotsAndSequence ==
  ASSUME NEW b, Kept(b), NEW used \in Nat, NEW seq \in 0..MaxSequence,
         NEW c, c = Recounted(b, used, seq)
  PROVE  /\ Kept(c)
         /\ c.index = b.index
         /\ c.used = used
         /\ c.level = b.level /\ c.total = b.total /\ c.best = b.best
<1>1. Sound(b) /\ Uncrossed(b) /\ IsFiniteSet(b.index) /\ b \in BookType
  BY DEF Kept, Sound
<1>2. /\ c \in BookType
      /\ c.index = b.index /\ c.used = used
      /\ c.level = b.level /\ c.total = b.total /\ c.best = b.best /\ c.order = b.order
  BY <1>1 DEF BookType, Recounted
<1>3. \A t \in Side : Occupied(c, t) = Occupied(b, t)
  BY <1>2 DEF Occupied
<1>4. BestIsCached(c)
  BY <1>1, <1>2, <1>3 DEF Sound, BestIsCached
<1>5. IndexedAreQueued(c)
  <2>1. /\ IndexedAreQueued(b)
        /\ c.level = b.level /\ c.index = b.index /\ c.order = b.order
    BY <1>1, <1>2 DEF Sound
  <2> QED
    BY <2>1, SMTT(30) DEF IndexedAreQueued
<1>6. QueuedAreIndexed(c)
  BY <1>1, <1>2 DEF Sound, QueuedAreIndexed
<1>7. Uncrossed(c)
  BY <1>1, <1>3, UncrossedShrinks
<1> QED
  BY <1>1, <1>2, <1>4, <1>5, <1>6, <1>7 DEF Kept, Sound

-----------------------------------------------------------------------------
(* What the operators change.                                              *)

(* A multiple of n, and a difference of multiples, is one.                 *)
LEMMA DifferenceOfMultiples ==
  ASSUME NEW n \in Nat \ {0}, NEW a \in Int, NEW b \in Int, a % n = 0, b % n = 0
  PROVE  (a - b) % n = 0
<1>1. ASSUME NEW k \in Int PROVE (n * k) % n = 0
  OBVIOUS
<1>2. ASSUME NEW m \in Int, m % n = 0 PROVE m = n * (m \div n) /\ m \div n \in Int
  BY <1>2
<1> DEFINE i == a \div n
           j == b \div n
<1>3. a = n * i /\ b = n * j /\ i \in Int /\ j \in Int
  BY <1>2
<1> HIDE DEF i, j
<1>4. a - b = n * (i - j) /\ i - j \in Int
  BY <1>3
<1> QED
  BY <1>1, <1>4

(* Books b and c have the same queues and totals, except at level p of     *)
(* side s.                                                                 *)
SameElsewhere(b, c, s, p) ==
  \A t \in Side, q \in Price :
    ~(t = s /\ q = p) => c.level[t][q] = b.level[t][q] /\ c.total[t][q] = b.total[t][q]

(* Books b and c have the same nodes, except that of id.                   *)
SameBut(b, c, id) == \A x \in OrderId : x # id => c.order[x] = b.order[x]

(* Order id, at place i of level p on side s, has left the level.          *)
Leaves(b, c, id, s, p, i) ==
  /\ s \in Side /\ p \in Price
  /\ b.order[id].side = s /\ b.order[id].price = p
  /\ i \in DOMAIN b.level[s][p] /\ b.level[s][p][i] = id
  /\ c.level[s][p] = RemoveAt(b.level[s][p], i)
  /\ c.total[s][p] = b.total[s][p] - b.order[id].qty
  /\ SameElsewhere(b, c, s, p)
  /\ \A t \in Side : t # s => c.best[t] = b.best[t]

(* remove_order and erase.                                                 *)
LEMMA UnlinkedChanges ==
  ASSUME NEW b, Sound(b), NEW id \in b.index,
         NEW c, c = Unindexed(Unlinked(b, id), id)
  PROVE  /\ \E s, p, i : Leaves(b, c, id, s, p, i)
         /\ c.order = b.order
<1>0. PICK s, p : s = b.order[id].side /\ p = b.order[id].price
  OBVIOUS
<1> DEFINE fifo == b.level[s][p]
           i == CHOOSE j \in DOMAIN fifo : fifo[j] = id
           rest == RemoveAt(fifo, i)
           total == b.total[s][p] - b.order[id].qty
           best == BestAfterRemove(b, s, p, rest)
<1>1. s \in Side /\ p \in Price
  BY <1>0, OrderPlace
<1>2. b \in BookType /\ IndexedAreQueued(b)
  BY DEF Sound
<1>3. i \in DOMAIN fifo /\ fifo[i] = id
  BY <1>0, <1>2 DEF IndexedAreQueued
<1>4. /\ c.level = [b.level EXCEPT ![s][p] = rest]
      /\ c.total = [b.total EXCEPT ![s][p] = total]
      /\ c.best = [b.best EXCEPT ![s] = best]
      /\ c.order = b.order
  BY <1>0, <1>2 DEF Unindexed, Unlinked, BookType
<1> HIDE DEF i, rest, total, best
<1>5. /\ c.level[s][p] = rest /\ c.total[s][p] = total
      /\ SameElsewhere(b, c, s, p)
      /\ \A t \in Side : t # s => c.best[t] = b.best[t]
  BY <1>1, <1>2, <1>4 DEF BookType, SameElsewhere
<1>6. Leaves(b, c, id, s, p, i)
  BY <1>0, <1>1, <1>3, <1>5 DEF Leaves, rest, total
<1> QED
  BY <1>4, <1>6

(* A released node is blank; nothing else changes.                         *)
LEMMA ReleasedChanges ==
  ASSUME NEW b, b \in BookType, NEW id \in OrderId, NEW c, c = Released(b, id)
  PROVE  /\ c.level = b.level /\ c.total = b.total /\ c.best = b.best
         /\ SameBut(b, c, id)
<1>1. /\ c.order = [b.order EXCEPT ![id] = Blank]
      /\ c.level = b.level /\ c.total = b.total /\ c.best = b.best
  BY DEF Released, BookType
<1> QED
  BY <1>1 DEF BookType, SameBut

(* The whole removal of a resting order.                                   *)
LEMMA RemovedChanges ==
  ASSUME NEW b, Sound(b), NEW id \in b.index, Removable(b, id), NEW c, c = Removed(b, id)
  PROVE  /\ \E s, p, i : Leaves(b, c, id, s, p, i)
         /\ SameBut(b, c, id)
<1> DEFINE u == Unindexed(Unlinked(b, id), id)
<1>1. PICK s, p, i : Leaves(b, u, id, s, p, i)
  BY UnlinkedChanges
<1>2. u.order = b.order /\ Sound(u)
  BY UnlinkedChanges, UnlinkedSound
<1>3. id \in OrderId /\ u \in BookType
  BY <1>2, OrderPlace DEF Sound
<1>4. c = Released(u, id)
  BY DEF Removed
<1> HIDE DEF u
<1>5. /\ c.level = u.level /\ c.total = u.total /\ c.best = u.best
      /\ SameBut(u, c, id)
  BY <1>3, <1>4, ReleasedChanges
<1>6. Leaves(b, c, id, s, p, i)
  BY <1>1, <1>5 DEF Leaves, SameElsewhere
<1>7. SameBut(b, c, id)
  BY <1>2, <1>5 DEF SameBut
<1> QED
  BY <1>6, <1>7

(* A new quantity of an order and a new total of a level.                  *)
LEMMA RequantifiedChanges ==
  ASSUME NEW b, Sound(b), NEW id \in b.index,
         NEW qty \in 0..MaxQuantity, NEW total \in 0..MaxQuantity,
         NEW s \in Side, NEW p \in Price,
         NEW c, c = Requantified(b, id, qty, s, p, total)
  PROVE  /\ c.level = b.level /\ c.best = b.best
         /\ c.total[s][p] = total
         /\ SameElsewhere(b, c, s, p)
         /\ SameBut(b, c, id)
         /\ c.order[id] = [b.order[id] EXCEPT !.qty = qty]
         /\ c.order[id].qty = qty
<1>1. b \in BookType /\ id \in OrderId /\ b.order[id] \in Order
  BY OrderPlace DEF Sound
<1>2. /\ c.order = [b.order EXCEPT ![id].qty = qty]
      /\ c.total = [b.total EXCEPT ![s][p] = total]
      /\ c.level = b.level /\ c.best = b.best
  BY <1>1 DEF Requantified, BookType
<1>3. c.total[s][p] = total /\ SameElsewhere(b, c, s, p)
  BY <1>1, <1>2 DEF BookType, SameElsewhere
<1>4. SameBut(b, c, id) /\ c.order[id] = [b.order[id] EXCEPT !.qty = qty]
  BY <1>1, <1>2 DEF BookType, SameBut
<1>5. c.order[id].qty = qty
  BY <1>1, <1>4 DEF Order
<1> QED
  BY <1>2, <1>3, <1>4, <1>5

(* Resting an order.                                                       *)
LEMMA RestedChanges ==
  ASSUME NEW b, b \in BookType, NEW id \in OrderId, NEW s \in Side, NEW p \in Price,
         NEW qty, NEW owner, NEW c, c = Rested(b, id, s, p, qty, owner)
  PROVE  /\ c.level[s][p] = Append(b.level[s][p], id)
         /\ c.total[s][p] = b.total[s][p] + qty
         /\ SameElsewhere(b, c, s, p)
         /\ SameBut(b, c, id)
         /\ c.order[id].qty = qty
<1> DEFINE node == [side |-> s, price |-> p, qty |-> qty,
                    seq |-> NextSequence(b), owner |-> owner]
           fifo == Append(b.level[s][p], id)
           total == b.total[s][p] + qty
<1>1. /\ c.order = [b.order EXCEPT ![id] = node]
      /\ c.level = [b.level EXCEPT ![s][p] = fifo]
      /\ c.total = [b.total EXCEPT ![s][p] = total]
  BY DEF Rested, BookType
<1>2. node.qty = qty
  OBVIOUS
<1> HIDE DEF node, fifo, total
<1>3. c.level[s][p] = fifo /\ c.total[s][p] = total /\ SameElsewhere(b, c, s, p)
  BY <1>1 DEF BookType, SameElsewhere
<1>4. SameBut(b, c, id) /\ c.order[id].qty = qty
  BY <1>1, <1>2 DEF BookType, SameBut
<1> QED
  BY <1>3, <1>4 DEF fifo, total

-----------------------------------------------------------------------------
(* The totals of the levels.                                               *)

(* Every level's total is the sum of the quantities queued there.          *)
Sums(b) == \A s \in Side, p \in Price : b.total[s][p] = QuantityOf(b, b.level[s][p])

(* The quantities of the nodes, as a function to add up.                   *)
QuantitiesOf(b) == [id \in OrderId |-> b.order[id].qty]

(* The sum a level's total stands for.                                     *)
LEMMA QuantityIsAdded ==
  ASSUME NEW b, NEW fifo
  PROVE  QuantityOf(b, fifo) = Added(fifo, QuantitiesOf(b))
  BY DEF QuantityOf, QuantitiesOf, Added, FoldLeft, MapThenFoldSet

(* The quantities are naturals.                                            *)
LEMMA QuantitiesAreWhole ==
  ASSUME NEW b, b \in BookType
  PROVE  /\ Whole(QuantitiesOf(b), OrderId)
         /\ \A x \in OrderId : /\ QuantitiesOf(b)[x] \in Nat
                               /\ QuantitiesOf(b)[x] = b.order[x].qty
<1>1. \A x \in OrderId : b.order[x].qty \in 0..MaxQuantity
  BY DEF BookType, Order
<1> QED
  BY <1>1, WidthAssumption DEF QuantitiesOf, Whole

(* A level whose orders keep their quantities keeps its sum.               *)
LEMMA SumKept ==
  ASSUME NEW b, NEW c, b \in BookType, c \in BookType, NEW fifo \in Seq(OrderId),
         \A i \in DOMAIN fifo : c.order[fifo[i]].qty = b.order[fifo[i]].qty
  PROVE  QuantityOf(c, fifo) = QuantityOf(b, fifo)
<1> DEFINE f == QuantitiesOf(b)
           g == QuantitiesOf(c)
<1>1. Whole(f, OrderId)
  BY QuantitiesAreWhole
<1>2. \A i \in DOMAIN fifo : g[fifo[i]] = f[fifo[i]]
  <2> TAKE i \in DOMAIN fifo
  <2>1. fifo[i] \in OrderId
    BY ElementOfSeq
  <2> QED
    BY <2>1, QuantitiesAreWhole
<1>3. QuantityOf(b, fifo) = Added(fifo, f) /\ QuantityOf(c, fifo) = Added(fifo, g)
  BY QuantityIsAdded
<1> HIDE DEF f, g
<1> QED
  BY <1>1, <1>2, <1>3, AddedAgree

(* A level's total is at least the quantity of each of its orders.         *)
LEMMA TotalHasOrder ==
  ASSUME NEW b, Sound(b), Sums(b), NEW id \in b.index
  PROVE  /\ Removable(b, id)
         /\ b.order[id].qty \in 0..MaxQuantity
         /\ b.total[b.order[id].side][b.order[id].price] \in 0..MaxQuantity
<1> DEFINE s == b.order[id].side
           p == b.order[id].price
           fifo == b.level[s][p]
           f == QuantitiesOf(b)
<1>1. /\ s \in Side /\ p \in Price /\ fifo \in Seq(OrderId) /\ id \in OrderId
      /\ b.total[s][p] \in 0..MaxQuantity
      /\ b.order[id].qty \in 0..MaxQuantity
  BY OrderPlace DEF Order
<1>2. PICK i \in DOMAIN fifo : fifo[i] = id
  BY DEF Sound, IndexedAreQueued
<1>3. \A x \in OrderId : f[x] \in Nat /\ f[x] = b.order[x].qty
  BY QuantitiesAreWhole DEF Sound
<1>4. b.total[s][p] = Added(fifo, f)
  BY <1>1, QuantityIsAdded DEF Sums
<1>5. f[id] = b.order[id].qty
  BY <1>1, <1>3
<1>6. \A x \in OrderId : f[x] \in Nat
  BY <1>3
<1> HIDE DEF f, fifo
<1>7. Added(fifo, f) \in Nat /\ Added(fifo, f) >= f[fifo[i]]
  BY <1>1, <1>2, <1>6, AddedMember
<1>8. b.total[s][p] >= b.order[id].qty
  BY <1>2, <1>4, <1>5, <1>7
<1> HIDE DEF s, p
<1>9. b.order[id].qty <= b.total[s][p]
  BY <1>1, <1>8, WidthAssumption
<1> QED
  BY <1>1, <1>9 DEF Removable, s, p

(* An order that leaves takes its quantity off the total of its level.     *)
LEMMA LeavesSums ==
  ASSUME NEW b, Sound(b), Sums(b), NEW id \in b.index, NEW c, c \in BookType,
         NEW s, NEW p, NEW i, Leaves(b, c, id, s, p, i), SameBut(b, c, id)
  PROVE  Sums(c)
<1>1. b \in BookType /\ QueuedAreIndexed(b) /\ id \in OrderId
  BY OrderPlace DEF Sound
<1>2. /\ s \in Side /\ p \in Price
      /\ b.order[id].side = s /\ b.order[id].price = p
      /\ i \in DOMAIN b.level[s][p] /\ b.level[s][p][i] = id
      /\ c.level[s][p] = RemoveAt(b.level[s][p], i)
      /\ c.total[s][p] = b.total[s][p] - b.order[id].qty
      /\ SameElsewhere(b, c, s, p)
  BY DEF Leaves
<1> SUFFICES ASSUME NEW t \in Side, NEW q \in Price
             PROVE  c.total[t][q] = QuantityOf(c, c.level[t][q])
  BY DEF Sums
<1> DEFINE fifo == b.level[t][q]
<1>3. /\ fifo \in Seq(OrderId) /\ b.total[t][q] = QuantityOf(b, fifo)
      /\ c.level[t][q] \in Seq(OrderId)
  BY <1>1 DEF BookType, Sums
<1>4. \A k \in DOMAIN fifo :
        /\ fifo[k] \in OrderId
        /\ b.order[fifo[k]].side = t /\ b.order[fifo[k]].price = q
        /\ \A j \in DOMAIN fifo : fifo[j] = fifo[k] => j = k
  BY <1>1, <1>3, ElementOfSeq DEF QueuedAreIndexed
<1>5. CASE ~(t = s /\ q = p)
  <2>1. c.level[t][q] = fifo /\ c.total[t][q] = b.total[t][q]
    BY <1>2, <1>5 DEF SameElsewhere
  <2>2. \A k \in DOMAIN fifo : c.order[fifo[k]].qty = b.order[fifo[k]].qty
    <3> TAKE k \in DOMAIN fifo
    <3>1. fifo[k] # id /\ fifo[k] \in OrderId
      BY <1>2, <1>4, <1>5
    <3> QED
      BY <3>1 DEF SameBut
  <2> HIDE DEF fifo
  <2>3. QuantityOf(c, fifo) = QuantityOf(b, fifo)
    BY <2>2, <1>1, <1>3, SumKept
  <2> QED
    BY <2>1, <2>3, <1>3
<1>6. CASE t = s /\ q = p
  <2> DEFINE rest == RemoveAt(fifo, i)
             f == QuantitiesOf(b)
  <2>1. i \in DOMAIN fifo /\ fifo[i] = id /\ c.level[t][q] = rest
        /\ c.total[t][q] = b.total[t][q] - b.order[id].qty
    BY <1>2, <1>6
  <2>2. rest \in Seq(OrderId) /\ Len(rest) = Len(fifo) - 1
        /\ \A j \in DOMAIN rest : rest[j] = IF j < i THEN fifo[j] ELSE fifo[j + 1]
    <3> HIDE DEF fifo
    <3> QED
      BY <2>1, <1>3, RemoveAtProperties
  <2>3. \A j \in DOMAIN rest : c.order[rest[j]].qty = b.order[rest[j]].qty
    <3> TAKE j \in DOMAIN rest
    <3> DEFINE k == IF j < i THEN j ELSE j + 1
    <3>1. DOMAIN rest = 1..(Len(fifo) - 1) /\ DOMAIN fifo = 1..Len(fifo) /\ Len(fifo) \in Nat
      <4> HIDE DEF fifo, rest
      <4> QED
        BY <2>2, <1>3, LenProperties
    <3>2. k \in DOMAIN fifo /\ k # i
      BY <3>1, <2>1
    <3>3. rest[j] = fifo[k]
      BY <2>2
    <3> HIDE DEF k
    <3>4. fifo[k] # id /\ fifo[k] \in OrderId
      BY <3>2, <2>1, <1>4
    <3> QED
      BY <3>3, <3>4 DEF SameBut
  <2>4. Whole(f, OrderId) /\ f[id] = b.order[id].qty
    BY <1>1, QuantitiesAreWhole
  <2>5. QuantityOf(b, fifo) = Added(fifo, f) /\ QuantityOf(b, rest) = Added(rest, f)
    BY QuantityIsAdded
  <2> HIDE DEF f, fifo
  <2>6. Added(RemoveAt(fifo, i), f) = Added(fifo, f) - f[fifo[i]]
    BY <2>1, <2>4, <1>3, AddedRemove
  <2>7. Added(rest, f) = Added(fifo, f) - f[id]
    BY <2>6, <2>1
  <2> HIDE DEF rest
  <2>8. QuantityOf(c, rest) = QuantityOf(b, rest)
    BY <2>2, <2>3, <1>1, SumKept
  <2> QED
    BY <2>1, <2>4, <2>5, <2>7, <2>8, <1>3
<1> QED
  BY <1>5, <1>6

(* Releasing a node that is queued nowhere changes no total.               *)
LEMMA ReleasedSums ==
  ASSUME NEW b, Sound(b), Sums(b), NEW id \in OrderId, id \notin b.index, b.used > 0,
         NEW c, c = Released(b, id)
  PROVE  Sums(c)
<1>1. b \in BookType /\ c \in BookType /\ QueuedAreIndexed(b)
  BY ReleasedSound DEF Sound
<1>2. c.level = b.level /\ c.total = b.total /\ SameBut(b, c, id)
  BY <1>1, ReleasedChanges
<1> SUFFICES ASSUME NEW s \in Side, NEW p \in Price
             PROVE  QuantityOf(c, b.level[s][p]) = QuantityOf(b, b.level[s][p])
  BY <1>2 DEF Sums
<1>3. b.level[s][p] \in Seq(OrderId)
  BY <1>1 DEF BookType
<1>4. \A k \in DOMAIN b.level[s][p] :
        c.order[b.level[s][p][k]].qty = b.order[b.level[s][p][k]].qty
  <2> TAKE k \in DOMAIN b.level[s][p]
  <2>1. b.level[s][p][k] \in OrderId /\ b.level[s][p][k] # id
    BY <1>1, <1>3, ElementOfSeq DEF QueuedAreIndexed
  <2> QED
    BY <2>1, <1>2 DEF SameBut
<1> QED
  BY <1>1, <1>3, <1>4, SumKept

(* Order id has lost x of its quantity, and its level as much.             *)
Shortened(b, c, id, s, p, x) ==
  /\ s \in Side /\ p \in Price
  /\ b.order[id].side = s /\ b.order[id].price = p
  /\ c.level = b.level /\ c.best = b.best /\ c.index = b.index
  /\ c.total[s][p] = b.total[s][p] - x
  /\ SameElsewhere(b, c, s, p)
  /\ SameBut(b, c, id)
  /\ c.order[id] = [b.order[id] EXCEPT !.qty = b.order[id].qty - x]
  /\ c.order[id].qty = b.order[id].qty - x

(* A reduction takes as much off the total as off the order.               *)
LEMMA ShortenedSums ==
  ASSUME NEW b, Sound(b), Sums(b), NEW id \in b.index, NEW c, c \in BookType,
         NEW s, NEW p, NEW x \in Int, Shortened(b, c, id, s, p, x)
  PROVE  Sums(c)
<1>1. b \in BookType /\ QueuedAreIndexed(b) /\ IndexedAreQueued(b) /\ id \in OrderId
  BY OrderPlace DEF Sound
<1>2. /\ s \in Side /\ p \in Price
      /\ b.order[id].side = s /\ b.order[id].price = p
      /\ c.level = b.level
      /\ c.total[s][p] = b.total[s][p] - x
      /\ SameElsewhere(b, c, s, p)
      /\ SameBut(b, c, id)
      /\ c.order[id].qty = b.order[id].qty - x
  BY DEF Shortened
<1> SUFFICES ASSUME NEW t \in Side, NEW q \in Price
             PROVE  c.total[t][q] = QuantityOf(c, b.level[t][q])
  BY <1>2 DEF Sums
<1> DEFINE fifo == b.level[t][q]
<1>3. fifo \in Seq(OrderId) /\ b.total[t][q] = QuantityOf(b, fifo)
  BY <1>1 DEF BookType, Sums
<1>4. \A k \in DOMAIN fifo :
        /\ fifo[k] \in OrderId
        /\ b.order[fifo[k]].side = t /\ b.order[fifo[k]].price = q
        /\ \A j \in DOMAIN fifo : fifo[j] = fifo[k] => j = k
  BY <1>1, <1>3, ElementOfSeq DEF QueuedAreIndexed
<1>5. CASE ~(t = s /\ q = p)
  <2>1. c.total[t][q] = b.total[t][q]
    BY <1>2, <1>5 DEF SameElsewhere
  <2>2. \A k \in DOMAIN fifo : c.order[fifo[k]].qty = b.order[fifo[k]].qty
    <3> TAKE k \in DOMAIN fifo
    <3>1. fifo[k] # id /\ fifo[k] \in OrderId
      BY <1>2, <1>4, <1>5
    <3> QED
      BY <3>1, <1>2 DEF SameBut
  <2> HIDE DEF fifo
  <2>3. QuantityOf(c, fifo) = QuantityOf(b, fifo)
    BY <2>2, <1>1, <1>3, SumKept
  <2> QED
    BY <2>1, <2>3, <1>3 DEF fifo
<1>6. CASE t = s /\ q = p
  <2> DEFINE f == QuantitiesOf(b)
             g == QuantitiesOf(c)
  <2>1. PICK i \in DOMAIN fifo : fifo[i] = id
    BY <1>1, <1>2, <1>6 DEF IndexedAreQueued
  <2>2. /\ Whole(f, OrderId) /\ Whole(g, OrderId)
        /\ \A y \in OrderId : f[y] = b.order[y].qty /\ g[y] = c.order[y].qty
        /\ f[id] \in Nat
    BY <1>1, QuantitiesAreWhole
  <2>3. AgreeBut(g, f, fifo, i)
    <3> SUFFICES ASSUME NEW k \in DOMAIN fifo, k # i PROVE g[fifo[k]] = f[fifo[k]]
      BY DEF AgreeBut
    <3>1. fifo[k] # id /\ fifo[k] \in OrderId
      BY <2>1, <1>4
    <3> QED
      BY <3>1, <2>2, <1>2 DEF SameBut
  <2>4. QuantityOf(b, fifo) = Added(fifo, f) /\ QuantityOf(c, fifo) = Added(fifo, g)
    BY QuantityIsAdded
  <2>5. f[id] = b.order[id].qty /\ g[id] = b.order[id].qty - x
    BY <2>2, <1>1, <1>2
  <2> HIDE DEF f, g, fifo
  <2>7. Added(fifo, g) = Added(fifo, f) + g[fifo[i]] - f[fifo[i]]
    BY <2>1, <2>2, <2>3, <1>3, AddedUpdate
  <2>8. Added(fifo, f) \in Int /\ f[id] \in Int /\ g[id] \in Int
    <3>1. b.total[t][q] \in 0..MaxQuantity
      BY <1>1 DEF BookType
    <3> QED
      BY <3>1, <2>2, <2>4, <1>1, <1>3 DEF Whole
  <2>9. Added(fifo, g) = Added(fifo, f) + g[id] - f[id]
    BY <2>1, <2>7
  <2>10. c.total[t][q] = Added(fifo, f) - x
    BY <2>4, <1>2, <1>3, <1>6
  <2>11. ASSUME NEW a \in Int, NEW d \in Int, NEW e \in Int, e = d - x
         PROVE  a + e - d = a - x
    BY <2>11
  <2>12. c.total[t][q] = QuantityOf(c, fifo)
    BY <2>4, <2>5, <2>7, <2>8, <2>9, <2>10, <2>11
  <2> QED
    BY <2>12 DEF fifo
<1> QED
  BY <1>5, <1>6

(* reduce_order takes off the total what it takes off the order.           *)
LEMMA ReducedShortens ==
  ASSUME NEW b, Sound(b), Sums(b), NEW id \in b.index, NEW qty \in 0..MaxQuantity,
         qty <= b.order[id].qty, NEW c, c = Reduced(b, id, qty)
  PROVE  /\ Sound(c) /\ Sums(c)
         /\ \E s, p, x : Shortened(b, c, id, s, p, x)
         /\ c.order[id].qty = qty
<1> DEFINE s == b.order[id].side
           p == b.order[id].price
           x == b.order[id].qty - qty
           total == b.total[s][p] - x
<1>1. /\ b.order[id].qty \in 0..MaxQuantity
      /\ b.order[id].qty <= b.total[s][p] /\ b.total[s][p] \in 0..MaxQuantity
  BY TotalHasOrder DEF Removable
<1>2. s \in Side /\ p \in Price
  BY OrderPlace
<1>3. c = Requantified(b, id, qty, s, p, total)
  BY DEF Reduced, Requantified
<1>4. b.order[id].side = s /\ b.order[id].price = p
  OBVIOUS
<1> HIDE DEF s, p
<1>5. total \in 0..MaxQuantity /\ x \in Int /\ b.order[id].qty - x = qty
  BY <1>1, WidthAssumption
<1>6. total = b.total[s][p] - x
  OBVIOUS
<1> HIDE DEF x, total
<1>7. Sound(c) /\ c.index = b.index
  BY <1>2, <1>3, <1>5, RequantifiedSound
<1>8. /\ c.level = b.level /\ c.best = b.best
      /\ c.total[s][p] = total
      /\ SameElsewhere(b, c, s, p)
      /\ SameBut(b, c, id)
      /\ c.order[id] = [b.order[id] EXCEPT !.qty = qty]
      /\ c.order[id].qty = qty
  BY <1>2, <1>3, <1>5, RequantifiedChanges
<1>9. Shortened(b, c, id, s, p, x)
  BY <1>2, <1>4, <1>5, <1>6, <1>7, <1>8 DEF Shortened
<1>10. Sums(c)
  BY <1>5, <1>7, <1>9, ShortenedSums DEF Sound
<1> QED
  BY <1>7, <1>8, <1>9, <1>10

(* A whole removal takes the order's quantity off the total.               *)
LEMMA RemovedSums ==
  ASSUME NEW b, Sound(b), Sums(b), NEW id \in b.index, b.used > 0,
         NEW c, c = Removed(b, id)
  PROVE  /\ Sound(c) /\ Sums(c)
         /\ \E s, p, i : Leaves(b, c, id, s, p, i)
         /\ SameBut(b, c, id)
         /\ c.index = b.index \ {id}
<1>1. Removable(b, id)
  BY TotalHasOrder
<1>2. Sound(c) /\ c.index = b.index \ {id}
  BY <1>1, RemovedSound
<1>3. (\E s, p, i : Leaves(b, c, id, s, p, i)) /\ SameBut(b, c, id)
  BY <1>1, RemovedChanges
<1>4. PICK s, p, i : Leaves(b, c, id, s, p, i)
  BY <1>3
<1>5. Sums(c)
  BY <1>2, <1>3, <1>4, LeavesSums DEF Sound
<1> QED
  BY <1>2, <1>3, <1>5

(* The order at the front of the best level of a side.                     *)
FrontOf(b, s) == Head(b.level[s][b.best[s]])

(* fill_front takes x off the front order and the total, without wrapping; *)
(* an order filled whole leaves.                                           *)
LEMMA FilledFrontSums ==
  ASSUME NEW b, Sound(b), Sums(b), NEW s \in Side, b.best[s] # NoPrice, b.used > 0,
         NEW x \in Nat, x <= b.order[FrontOf(b, s)].qty,
         NEW c, c = FilledFront(b, s, x)
  PROVE  /\ Sound(c) /\ Sums(c)
         /\ x # b.order[FrontOf(b, s)].qty => Shortened(b, c, FrontOf(b, s), s, b.best[s], x)
         /\ x = b.order[FrontOf(b, s)].qty =>
              /\ \E i : Leaves(b, c, FrontOf(b, s), s, b.best[s], i)
              /\ SameBut(b, c, FrontOf(b, s))
              /\ c.index = b.index \ {FrontOf(b, s)}
<1> DEFINE p == b.best[s]
           id == Head(b.level[s][p])
           qty == b.order[id].qty - x
           total == (b.total[s][p] - x) % (MaxQuantity + 1)
           after == Requantified(b, id, qty, s, p, total)
<1>1. c = IF after.order[id].qty = 0 THEN Removed(after, id) ELSE after
  BY DEF FilledFront, Requantified
<1>2. /\ p \in Price /\ id \in b.index
      /\ b.order[id].side = s /\ b.order[id].price = p
  BY FrontIsIndexed
<1>3. FrontOf(b, s) = id /\ b.best[s] = p
  BY DEF FrontOf
<1>4. after = Requantified(b, id, qty, s, p, total)
  OBVIOUS
<1>5. qty = b.order[id].qty - x /\ total = (b.total[s][p] - x) % (MaxQuantity + 1)
  OBVIOUS
<1> HIDE DEF p, id, after, qty, total
<1>6. /\ b.order[id].qty \in 0..MaxQuantity
      /\ b.order[id].qty <= b.total[s][p] /\ b.total[s][p] \in 0..MaxQuantity
  BY <1>2, TotalHasOrder DEF Removable
<1>7. qty \in 0..MaxQuantity /\ b.total[s][p] - x \in 0..MaxQuantity
  BY <1>3, <1>5, <1>6, WidthAssumption
<1>8. total = b.total[s][p] - x /\ total \in 0..MaxQuantity
  <2>1. ASSUME NEW n \in Nat, NEW m \in 0..n PROVE m % (n + 1) = m
    OBVIOUS
  <2> QED
    BY <2>1, <1>5, <1>7, WidthAssumption
<1>9. /\ Sound(after) /\ after.index = b.index /\ after.used = b.used
      /\ \A y \in OrderId : /\ after.order[y].side = b.order[y].side
                            /\ after.order[y].price = b.order[y].price
  <2>1. id \in OrderId
    BY <1>2, OrderPlace
  <2> QED
    BY <2>1, <1>2, <1>4, <1>7, <1>8, RequantifiedSound
<1>10. /\ after.level = b.level /\ after.best = b.best
       /\ after.total[s][p] = total
       /\ SameElsewhere(b, after, s, p)
       /\ SameBut(b, after, id)
       /\ after.order[id] = [b.order[id] EXCEPT !.qty = qty]
       /\ after.order[id].qty = qty
  BY <1>2, <1>4, <1>7, <1>8, RequantifiedChanges
<1>11. Shortened(b, after, id, s, p, x)
  BY <1>2, <1>5, <1>8, <1>9, <1>10 DEF Shortened
<1>12. Sums(after)
  BY <1>2, <1>9, <1>11, ShortenedSums DEF Sound
<1>13. CASE x # b.order[id].qty
  <2>1. qty # 0
    BY <1>5, <1>6, <1>13
  <2>2. c = after
    BY <2>1, <1>1, <1>10
  <2> QED
    BY <2>2, <1>3, <1>9, <1>11, <1>12, <1>13
<1>14. CASE x = b.order[id].qty
  <2>1. qty = 0
    BY <1>5, <1>6, <1>14
  <2>2. c = Removed(after, id) /\ id \in after.index /\ after.used > 0
    BY <2>1, <1>1, <1>2, <1>9, <1>10
  <2>3. /\ Sound(c) /\ Sums(c)
        /\ \E t, q, i : Leaves(after, c, id, t, q, i)
        /\ SameBut(after, c, id)
        /\ c.index = after.index \ {id}
    BY <2>2, <1>9, <1>12, RemovedSums
  <2>4. PICK t, q, i : Leaves(after, c, id, t, q, i)
    BY <2>3
  <2>5. t = s /\ q = p
    <3>1. id \in OrderId
      BY <1>2, OrderPlace
    <3> QED
      BY <3>1, <2>4, <1>2, <1>9 DEF Leaves
  <2>6. /\ i \in DOMAIN b.level[s][p] /\ b.level[s][p][i] = id
        /\ c.level[s][p] = RemoveAt(b.level[s][p], i)
        /\ c.total[s][p] = total - qty
        /\ SameElsewhere(after, c, s, p)
        /\ \A u \in Side : u # s => c.best[u] = after.best[u]
    BY <2>4, <2>5, <1>10 DEF Leaves
  <2>7. c.total[s][p] = b.total[s][p] - b.order[id].qty
    BY <2>1, <2>6, <1>6, <1>8, <1>14
  <2>8. SameElsewhere(b, c, s, p) /\ \A u \in Side : u # s => c.best[u] = b.best[u]
    BY <2>6, <1>10 DEF SameElsewhere
  <2>9. Leaves(b, c, id, s, p, i)
    BY <2>6, <2>7, <2>8, <1>2 DEF Leaves
  <2>10. SameBut(b, c, id)
    BY <2>3, <1>10 DEF SameBut
  <2> QED
    BY <2>3, <2>9, <2>10, <1>3, <1>9, <1>14
<1> QED
  BY <1>13, <1>14

(* A resting order adds its quantity to the total.                         *)
LEMMA RestedSums ==
  ASSUME NEW b, Sound(b), Sums(b), NEW id \in OrderId, id \notin b.index,
         NEW s \in Side, NEW p \in Price, NEW qty \in 0..MaxQuantity,
         qty <= MaxQuantity - b.total[s][p],
         NEW owner \in Participant,
         NEW c, c = Rested(b, id, s, p, qty, owner)
  PROVE  Sums(c) /\ SameBut(b, c, id) /\ c.order[id].qty = qty
<1>1. b \in BookType /\ QueuedAreIndexed(b)
  BY DEF Sound
<1>2. /\ c.level[s][p] = Append(b.level[s][p], id)
      /\ c.total[s][p] = b.total[s][p] + qty
      /\ SameElsewhere(b, c, s, p)
      /\ SameBut(b, c, id)
      /\ c.order[id].qty = qty
  BY <1>1, RestedChanges
<1>3. c \in BookType
  BY RestedSound DEF Sound
<1> SUFFICES ASSUME NEW t \in Side, NEW q \in Price
             PROVE  c.total[t][q] = QuantityOf(c, c.level[t][q])
  BY <1>2 DEF Sums
<1> DEFINE fifo == b.level[t][q]
           f == QuantitiesOf(b)
           g == QuantitiesOf(c)
<1>4. fifo \in Seq(OrderId) /\ b.total[t][q] = QuantityOf(b, fifo)
  BY <1>1 DEF BookType, Sums
<1>5. \A k \in DOMAIN fifo : c.order[fifo[k]].qty = b.order[fifo[k]].qty
  <2> TAKE k \in DOMAIN fifo
  <2>1. fifo[k] \in OrderId /\ fifo[k] # id
    BY <1>1, <1>4, ElementOfSeq DEF QueuedAreIndexed
  <2> QED
    BY <2>1, <1>2 DEF SameBut
<1>6. QuantityOf(c, fifo) = QuantityOf(b, fifo)
  <2> HIDE DEF fifo
  <2> QED
    BY <1>1, <1>3, <1>4, <1>5, SumKept
<1>7. CASE ~(t = s /\ q = p)
  BY <1>2, <1>4, <1>6, <1>7 DEF SameElsewhere
<1>8. CASE t = s /\ q = p
  <2>1. Whole(g, OrderId) /\ g[id] = qty
    BY <1>2, <1>3, QuantitiesAreWhole
  <2>2. /\ QuantityOf(c, fifo) = Added(fifo, g)
        /\ QuantityOf(c, Append(fifo, id)) = Added(Append(fifo, id), g)
    BY QuantityIsAdded
  <2>3. c.level[t][q] = Append(fifo, id) /\ c.total[t][q] = b.total[t][q] + qty
    BY <1>2, <1>8
  <2> HIDE DEF g, fifo
  <2>4. Added(Append(fifo, id), g) = Added(fifo, g) + g[id]
    BY <2>1, <1>4, AddedAppend
  <2> QED
    BY <2>1, <2>2, <2>3, <2>4, <1>4, <1>6
<1> QED
  BY <1>7, <1>8

(* Nothing rests in a new book, and nothing is added up.                   *)
LEMMA EmptyBookSums == Sums(EmptyBook)
<1> SUFFICES ASSUME NEW s \in Side, NEW p \in Price
             PROVE  EmptyBook.total[s][p] = QuantityOf(EmptyBook, EmptyBook.level[s][p])
  BY DEF Sums
<1>1. EmptyBook.level[s][p] = <<>> /\ EmptyBook.total[s][p] = 0
  BY DEF EmptyBook
<1> QED
  BY <1>1, QuantityIsAdded, AddedEmpty

-----------------------------------------------------------------------------
(* What a walk over one side of a book foresees.                           *)

(* The orders that rest on side s, and the price of an order.              *)
OnSide(b, s) == {id \in b.index : b.order[id].side = s}
PriceOf(b, id) == b.order[id].price

(* The walk reaches the indexed orders of the side whose price crosses.    *)
LEMMA SweepIsWithinReach ==
  ASSUME NEW b, Sound(b), NEW s \in Side, NEW limit
  PROVE  /\ CrossingPrices(b, s, limit) = {p \in Occupied(b, s) : Crosses(s, p, limit)}
         /\ Sweep(b, s, limit) = {id \in OnSide(b, s) : Crosses(s, PriceOf(b, id), limit)}
<1>1. /\ b \in BookType /\ BestIsCached(b) /\ IndexedAreQueued(b) /\ QueuedAreIndexed(b)
      /\ NoPrice \notin Occupied(b, s)
  BY PriceAssumption DEF Sound, Occupied
<1>2. CrossingPrices(b, s, limit) = {p \in Occupied(b, s) : Crosses(s, p, limit)}
  BY <1>1 DEF CrossingPrices, BestIsCached
<1>3. ASSUME NEW id \in Sweep(b, s, limit)
      PROVE  id \in OnSide(b, s) /\ Crosses(s, PriceOf(b, id), limit)
  <2>1. PICK p \in CrossingPrices(b, s, limit) : id \in ToSet(b.level[s][p])
    BY <1>3 DEF Sweep
  <2>2. p \in Price /\ Crosses(s, p, limit)
    BY <2>1, <1>2 DEF Occupied
  <2>3. PICK i \in DOMAIN b.level[s][p] : b.level[s][p][i] = id
    BY <2>1 DEF ToSet
  <2>4. id \in b.index /\ b.order[id].side = s /\ b.order[id].price = p
    BY <2>2, <2>3, <1>1 DEF QueuedAreIndexed
  <2> QED
    BY <2>2, <2>4 DEF OnSide, PriceOf
<1>4. ASSUME NEW id \in OnSide(b, s), Crosses(s, PriceOf(b, id), limit)
      PROVE  id \in Sweep(b, s, limit)
  <2> DEFINE p == PriceOf(b, id)
             fifo == b.level[s][p]
  <2>1. id \in b.index /\ b.order[id].side = s /\ b.order[id].price = p
    BY DEF OnSide, PriceOf
  <2>2. p \in Price /\ fifo \in Seq(OrderId)
    BY <2>1, OrderPlace
  <2>3. PICK i \in DOMAIN fifo : fifo[i] = id
    BY <2>1, <1>1 DEF IndexedAreQueued
  <2>4. id \in ToSet(fifo)
    BY <2>3 DEF ToSet
  <2>5. fifo # <<>>
    <3> HIDE DEF fifo
    <3> QED
      BY <2>2, <2>3, EmptySeq
  <2>6. p \in CrossingPrices(b, s, limit)
    BY <2>2, <2>5, <1>2, <1>4 DEF Occupied
  <2> QED
    BY <2>4, <2>6 DEF Sweep
<1> QED
  BY <1>2, <1>3, <1>4 DEF OnSide

(* Every order has one place in its FIFO, and no other order has it.       *)
LEMMA PlaceOfOrder ==
  ASSUME NEW b, Sound(b), NEW id \in b.index
  PROVE  /\ b.order[id].side \in Side /\ b.order[id].price \in Price
         /\ Place(b, id) \in DOMAIN b.level[b.order[id].side][b.order[id].price]
         /\ b.level[b.order[id].side][b.order[id].price][Place(b, id)] = id
         /\ Place(b, id) \in Nat /\ Place(b, id) >= 1
<1> DEFINE fifo == b.level[b.order[id].side][b.order[id].price]
<1>1. b.order[id].side \in Side /\ b.order[id].price \in Price /\ fifo \in Seq(OrderId)
  BY OrderPlace
<1>2. \E i \in DOMAIN fifo : fifo[i] = id
  BY DEF Sound, IndexedAreQueued
<1>3. Place(b, id) \in DOMAIN fifo /\ fifo[Place(b, id)] = id
  BY <1>2 DEF Place
<1>4. Place(b, id) \in Nat /\ Place(b, id) >= 1
  <2> HIDE DEF fifo
  <2>1. DOMAIN fifo = 1..Len(fifo) /\ Len(fifo) \in Nat
    BY <1>1, LenProperties
  <2> QED
    BY <2>1, <1>3
<1> QED
  BY <1>1, <1>3, <1>4

(* Where an order is found is its place.                                   *)
LEMMA PlaceIs ==
  ASSUME NEW b, Sound(b), NEW s \in Side, NEW p \in Price,
         NEW i \in DOMAIN b.level[s][p]
  PROVE  /\ b.level[s][p][i] \in b.index
         /\ b.order[b.level[s][p][i]].side = s
         /\ b.order[b.level[s][p][i]].price = p
         /\ Place(b, b.level[s][p][i]) = i
<1> DEFINE id == b.level[s][p][i]
<1>1. /\ id \in b.index /\ b.order[id].side = s /\ b.order[id].price = p
      /\ \A j \in DOMAIN b.level[s][p] : b.level[s][p][j] = id => j = i
  BY DEF Sound, QueuedAreIndexed
<1>2. Place(b, id) = CHOOSE j \in DOMAIN b.level[s][p] : b.level[s][p][j] = id
  BY <1>1 DEF Place
<1> QED
  BY <1>1, <1>2

(* Price-time priority as a relation on the orders of one side.            *)
Before(b, s) == {r \in OnSide(b, s) \X OnSide(b, s) : Ahead(b, r[1], r[2])}

(* Before is the relation Ahead, of the orders of one side.                *)
LEMMA BeforeIsAhead ==
  ASSUME NEW b, NEW s, NEW x \in OnSide(b, s), NEW y \in OnSide(b, s)
  PROVE  <<x, y>> \in Before(b, s) <=> Ahead(b, x, y)
  BY DEF Before

(* It ranks them.                                                          *)
LEMMA BeforeRanks ==
  ASSUME NEW b, Sound(b), NEW s \in Side
  PROVE  Ranks(Before(b, s), OnSide(b, s))
<1>1. \A x \in OnSide(b, s) :
        /\ x \in b.index /\ b.order[x].side = s
        /\ PriceOf(b, x) \in Int /\ Place(b, x) \in Nat
        /\ b.level[s][PriceOf(b, x)][Place(b, x)] = x
  BY PlaceOfOrder, PriceAssumption DEF OnSide, PriceOf
<1>2. \A x, y \in OnSide(b, s) :
        <<x, y>> \in Before(b, s) <=>
          \/ Better(s, PriceOf(b, x), PriceOf(b, y))
          \/ PriceOf(b, x) = PriceOf(b, y) /\ Place(b, x) < Place(b, y)
  BY <1>1, BeforeIsAhead DEF Ahead, PriceOf
<1>3. ASSUME NEW x \in OnSide(b, s), NEW y \in OnSide(b, s), x # y
      PROVE  <<x, y>> \in Before(b, s) \/ <<y, x>> \in Before(b, s)
  <2>1. PriceOf(b, x) # PriceOf(b, y) \/ Place(b, x) # Place(b, y)
    BY <1>1, <1>3
  <2> QED
    BY <2>1, <1>1, <1>2 DEF Better
<1>4. ASSUME NEW x \in OnSide(b, s), NEW y \in OnSide(b, s), NEW z \in OnSide(b, s),
             <<x, y>> \in Before(b, s), <<y, z>> \in Before(b, s)
      PROVE  <<x, z>> \in Before(b, s)
  BY <1>1, <1>2, <1>4 DEF Better
<1>5. ASSUME NEW x \in OnSide(b, s), NEW y \in OnSide(b, s), <<x, y>> \in Before(b, s)
      PROVE  <<y, x>> \notin Before(b, s)
  BY <1>1, <1>2, <1>5 DEF Better
<1> QED
  BY <1>3, <1>4, <1>5 DEF Ranks

(* LastOf finds the one order that all others of the set are ahead of.     *)
LEMMA LastOfIs ==
  ASSUME NEW b, Sound(b), NEW s \in Side, NEW T \in SUBSET OnSide(b, s),
         NEW y, IsLast(Before(b, s), T, y)
  PROVE  LastOf(b, T) = y
<1>1. y \in T /\ \A x \in T \ {y} : Ahead(b, x, y)
  BY BeforeIsAhead DEF IsLast
<1>2. ASSUME NEW z \in T, \A x \in T \ {z} : Ahead(b, x, z) PROVE z = y
  <2> SUFFICES ASSUME z # y PROVE FALSE
    OBVIOUS
  <2>1. <<y, z>> \in Before(b, s) /\ <<z, y>> \in Before(b, s)
    BY <1>1, <1>2, BeforeIsAhead
  <2> QED
    BY <2>1, <1>1, BeforeRanks DEF Ranks
<1>3. \A z \in T : (\A x \in T \ {z} : Ahead(b, x, z)) <=> z = y
  BY <1>1, <1>2
<1> QED
  BY <1>1, <1>3 DEF LastOf

(* The orders on a side have a last one, and LastOf is it.                 *)
LEMMA LastOfExists ==
  ASSUME NEW b, Sound(b), IsFiniteSet(b.index), NEW s \in Side,
         NEW T \in SUBSET OnSide(b, s), T # {}
  PROVE  IsLast(Before(b, s), T, LastOf(b, T))
<1>1. IsFiniteSet(OnSide(b, s))
  BY FS_Subset DEF OnSide
<1>2. \E y : IsLast(Before(b, s), T, y)
  BY <1>1, BeforeRanks, LastExists
<1> QED
  BY <1>2, LastOfIs

(* How far preflight has come.                                             *)
Progress ==
  [remaining: 0..MaxQuantity, executable: Nat, fills: Nat, cancels: Nat, stopped: BOOLEAN]

(* The walk looks at no further order.                                     *)
Sated(acc) == acc.stopped \/ acc.remaining = 0

(* The three things a visit can do.                                        *)
LEMMA VisitedSated ==
  ASSUME NEW b, NEW owner, NEW policy, NEW id, NEW acc, Sated(acc)
  PROVE  Visited(b, owner, policy, id, acc) = acc
  BY DEF Visited, Sated

(* The walk meets an order of the aggressor's own participant.             *)
LEMMA VisitedOwn ==
  ASSUME NEW b, NEW owner, NEW policy, NEW id, NEW acc \in Progress, ~Sated(acc),
         SelfTrade(policy, b.order[id].owner, owner),
         NEW next, next = Visited(b, owner, policy, id, acc)
  PROVE  /\ next \in Progress
         /\ next.remaining = acc.remaining /\ next.executable = acc.executable
         /\ next.fills = acc.fills
         /\ next.cancels = IF policy = "CancelAggressor" THEN acc.cancels ELSE acc.cancels + 1
         /\ next.stopped = (policy # "CancelResting")
<1> DEFINE cancels == IF policy = "CancelAggressor" THEN acc.cancels ELSE acc.cancels + 1
           stopped == (policy # "CancelResting")
<1>1. next = [acc EXCEPT !.cancels = cancels, !.stopped = stopped]
  BY DEF Visited, Sated
<1>2. cancels \in Nat /\ stopped \in BOOLEAN
  BY DEF Progress
<1> HIDE DEF cancels, stopped
<1>3. /\ next \in Progress
      /\ next.remaining = acc.remaining /\ next.executable = acc.executable
      /\ next.fills = acc.fills
      /\ next.cancels = cancels /\ next.stopped = stopped
  BY <1>1, <1>2 DEF Progress
<1> QED
  BY <1>3 DEF cancels, stopped

(* The walk meets an order it can fill against.                            *)
LEMMA VisitedOther ==
  ASSUME NEW b, b \in BookType, NEW owner, NEW policy, NEW id \in OrderId,
         NEW acc \in Progress, ~Sated(acc),
         ~SelfTrade(policy, b.order[id].owner, owner),
         NEW next, next = Visited(b, owner, policy, id, acc)
  PROVE  /\ next \in Progress
         /\ next.remaining = acc.remaining - Min2(acc.remaining, b.order[id].qty)
         /\ next.executable = acc.executable + Min2(acc.remaining, b.order[id].qty)
         /\ next.fills = acc.fills + 1
         /\ next.cancels = acc.cancels /\ next.stopped = acc.stopped
<1> DEFINE x == Min2(acc.remaining, b.order[id].qty)
           remaining == acc.remaining - x
           executable == acc.executable + x
           fills == acc.fills + 1
<1>1. next = [acc EXCEPT !.remaining = remaining, !.executable = executable, !.fills = fills]
  BY DEF Visited, Sated
<1>2. b.order[id].qty \in 0..MaxQuantity /\ acc.remaining \in 0..MaxQuantity
      /\ acc.executable \in Nat /\ acc.fills \in Nat
  BY DEF BookType, Order, Progress
<1>3. x \in Nat /\ x <= acc.remaining
  BY <1>2, WidthAssumption DEF Min2
<1> HIDE DEF x
<1>4. remaining \in 0..MaxQuantity /\ executable \in Nat /\ fills \in Nat
  BY <1>2, <1>3, WidthAssumption
<1> HIDE DEF remaining, executable, fills
<1>5. /\ next \in Progress
      /\ next.remaining = remaining /\ next.executable = executable /\ next.fills = fills
      /\ next.cancels = acc.cancels /\ next.stopped = acc.stopped
  BY <1>1, <1>4 DEF Progress
<1> QED
  BY <1>5 DEF remaining, executable, fills, x

(* A visit makes progress of progress, and never loses any.                *)
LEMMA VisitedProgress ==
  ASSUME NEW b, b \in BookType, NEW owner, NEW policy, NEW id \in OrderId,
         NEW acc \in Progress, NEW next, next = Visited(b, owner, policy, id, acc)
  PROVE  /\ next \in Progress
         /\ next.fills >= acc.fills /\ next.cancels >= acc.cancels
         /\ acc.stopped => next.stopped
<1>1. /\ acc.remaining \in 0..MaxQuantity /\ acc.executable \in Nat /\ acc.fills \in Nat
      /\ acc.cancels \in Nat /\ acc.stopped \in BOOLEAN
  BY DEF Progress
<1>2. CASE Sated(acc)
  <2>1. next = acc
    BY <1>2, VisitedSated
  <2> QED
    BY <2>1, <1>1
<1>3. CASE ~Sated(acc) /\ SelfTrade(policy, b.order[id].owner, owner)
  <2>1. /\ next \in Progress
        /\ next.fills = acc.fills
        /\ next.cancels = IF policy = "CancelAggressor" THEN acc.cancels ELSE acc.cancels + 1
    BY <1>3, VisitedOwn
  <2>2. ~acc.stopped
    BY <1>3 DEF Sated
  <2>3. next.cancels >= acc.cancels
    BY <2>1, <1>1
  <2> QED
    BY <2>1, <2>2, <2>3, <1>1
<1>4. CASE ~Sated(acc) /\ ~SelfTrade(policy, b.order[id].owner, owner)
  <2>1. /\ next \in Progress /\ next.fills = acc.fills + 1
        /\ next.cancels = acc.cancels /\ next.stopped = acc.stopped
    BY <1>4, VisitedOther
  <2> QED
    BY <2>1, <1>1
<1> QED
  BY <1>2, <1>3, <1>4

-----------------------------------------------------------------------------
(* The walk as a fold.                                                     *)

(* Which order of a set a walk over it looks at last, and what it does     *)
(* with it, as the functions a fold is made of.                            *)
LastPick(b, S) == [T \in SUBSET S |-> LastOf(b, T)]
VisitStep(b, owner, policy, S) ==
  [x \in S |-> [a \in Progress |-> Visited(b, owner, policy, x, a)]]

(* What MapThenFoldSet iterates in Outlook.                                *)
WalksOver(f, b, owner, policy, acc, S) ==
  f = [T \in SUBSET S |->
         IF T = {} THEN acc
         ELSE Visited(b, owner, policy, LastOf(b, T), f[T \ {LastOf(b, T)}])]

(* The last order of a set is one of the set.                              *)
LEMMA LastIsPicked ==
  ASSUME NEW b, Sound(b), IsFiniteSet(b.index), NEW s \in Side,
         NEW S \in SUBSET OnSide(b, s)
  PROVE  Picks(LastPick(b, S), S)
<1>1. ASSUME NEW T \in SUBSET S, T # {} PROVE LastPick(b, S)[T] \in T
  BY <1>1, LastOfExists DEF LastPick, IsLast
<1> QED
  BY <1>1 DEF Picks

(* A step of the fold visits one order.                                    *)
LEMMA StepsVisit ==
  ASSUME NEW b, NEW owner, NEW policy, NEW S, NEW x \in S, NEW a \in Progress
  PROVE  VisitStep(b, owner, policy, S)[x][a] = Visited(b, owner, policy, x, a)
  BY DEF VisitStep

(* The steps of the fold are functions on Progress.                        *)
LEMMA StepsType ==
  ASSUME NEW b, Sound(b), NEW owner, NEW policy, NEW S, S \subseteq b.index
  PROVE  VisitStep(b, owner, policy, S) \in [S -> [Progress -> Progress]]
<1>1. \A x \in S, a \in Progress : Visited(b, owner, policy, x, a) \in Progress
  <2> TAKE x \in S, a \in Progress
  <2>1. x \in OrderId /\ b \in BookType
    BY OrderPlace DEF Sound
  <2> QED
    BY <2>1, VisitedProgress
<1> QED
  BY <1>1 DEF VisitStep

(* The function Outlook iterates exists.                                   *)
LEMMA WalksOverExists ==
  ASSUME NEW b, Sound(b), IsFiniteSet(b.index), NEW s \in Side,
         NEW S \in SUBSET OnSide(b, s), NEW owner, NEW policy, NEW acc \in Progress
  PROVE  \E f : WalksOver(f, b, owner, policy, acc, S)
<1> DEFINE pick == LastPick(b, S)
           step == VisitStep(b, owner, policy, S)
<1>1. S \subseteq b.index /\ IsFiniteSet(S)
  BY FS_Subset DEF OnSide
<1>2. Picks(pick, S) /\ step \in [S -> [Progress -> Progress]]
  BY <1>1, LastIsPicked, StepsType
<1>21. \A x \in S, a \in Progress : step[x][a] = Visited(b, owner, policy, x, a)
  BY StepsVisit
<1> HIDE DEF pick, step
<1>3. PICK f \in [SUBSET S -> Progress] : Folds(f, S, acc, pick, step)
  BY <1>1, <1>2, SubsetRecursion, Zenon
<1>4. ASSUME NEW T \in SUBSET S
      PROVE  f[T] = IF T = {} THEN acc
                    ELSE Visited(b, owner, policy, LastOf(b, T), f[T \ {LastOf(b, T)}])
  <2>1. f[T] = IF T = {} THEN acc ELSE step[pick[T]][f[T \ {pick[T]}]]
    BY <1>3, Zenon DEF Folds
  <2>2. CASE T # {}
    <3>1. pick[T] = LastOf(b, T)
      BY DEF pick, LastPick
    <3>2. pick[T] \in S /\ f[T \ {pick[T]}] \in Progress
      BY <1>2, <1>3, <2>2 DEF Picks
    <3>3. step[pick[T]][f[T \ {pick[T]}]] = Visited(b, owner, policy, pick[T], f[T \ {pick[T]}])
      BY <3>2, <1>21
    <3> QED
      BY <2>1, <2>2, <3>1, <3>3
  <2> QED
    BY <2>1, <2>2
<1>5. WalksOver(f, b, owner, policy, acc, S)
  BY <1>4 DEF WalksOver
<1> QED
  BY <1>5

(* Outlook is what a fold over S computes.                                 *)
IsFoldOver(b, s, limit, owner, policy, acc, S) ==
  \E f : /\ Folds(f, S, acc, LastPick(b, S), VisitStep(b, owner, policy, S))
         /\ Outlook(b, s, limit, owner, policy, acc) = f[S]

(* Outlook is the value of a fold.                                         *)
LEMMA OutlookFolds ==
  ASSUME NEW b, Sound(b), IsFiniteSet(b.index), NEW s \in Side, NEW limit,
         NEW owner, NEW policy, NEW acc \in Progress,
         NEW S, S = Sweep(b, s, limit)
  PROVE  /\ S \in SUBSET OnSide(b, s) /\ IsFiniteSet(S)
         /\ Picks(LastPick(b, S), S)
         /\ IsFoldOver(b, s, limit, owner, policy, acc, S)
<1> DEFINE F == CHOOSE f : WalksOver(f, b, owner, policy, acc, S)
           pick == LastPick(b, S)
           step == VisitStep(b, owner, policy, S)
<1>1. S \in SUBSET OnSide(b, s) /\ S \subseteq b.index /\ IsFiniteSet(S)
  BY SweepIsWithinReach, FS_Subset DEF OnSide
<1>2. WalksOver(F, b, owner, policy, acc, S)
  BY <1>1, WalksOverExists, Zenon
<1>3. Outlook(b, s, limit, owner, policy, acc) = F[S]
  BY DEF Outlook, Walk, MapThenFoldSet, WalksOver
<1> HIDE DEF F
<1>4. \A T \in SUBSET S :
        F[T] = IF T = {} THEN acc
               ELSE Visited(b, owner, policy, LastOf(b, T), F[T \ {LastOf(b, T)}])
  BY <1>2 DEF WalksOver
<1>5. Picks(pick, S) /\ step \in [S -> [Progress -> Progress]]
  BY <1>1, LastIsPicked, StepsType
<1>6. \A T \in SUBSET S : T # {} => pick[T] = LastOf(b, T) /\ pick[T] \in T
  BY <1>5 DEF LastPick, Picks
<1>7. \A x \in S, a \in Progress : step[x][a] = Visited(b, owner, policy, x, a)
  BY StepsVisit
<1> HIDE DEF pick, step
<1>8. \A T \in SUBSET S : F[T] \in Progress
  <2> DEFINE P == {T \in SUBSET S : F[T] \in Progress}
  <2>1. ASSUME NEW T \in SUBSET S, \A x \in T : T \ {x} \in P PROVE T \in P
    <3>1. CASE T = {}
      BY <3>1, <1>4
    <3>2. CASE T # {}
      <4>1. pick[T] \in S /\ F[T \ {pick[T]}] \in Progress
        BY <3>2, <1>6, <2>1
      <4>2. F[T] = Visited(b, owner, policy, pick[T], F[T \ {pick[T]}])
        BY <3>2, <1>4, <1>6
      <4>3. pick[T] \in OrderId /\ b \in BookType
        BY <4>1, <1>1, OrderPlace DEF Sound
      <4> QED
        BY <4>1, <4>2, <4>3, VisitedProgress
    <3> QED
      BY <3>1, <3>2
  <2>2. P \in SUBSET SUBSET S
    OBVIOUS
  <2> HIDE DEF P
  <2>3. \A T \in SUBSET S : T \in P
    BY <1>1, <2>1, <2>2, SubsetInduction
  <2> QED
    BY <2>3 DEF P
<1>9. Folds(F, S, acc, pick, step)
  <2> SUFFICES ASSUME NEW T \in SUBSET S
               PROVE  F[T] = IF T = {} THEN acc ELSE step[pick[T]][F[T \ {pick[T]}]]
    BY DEF Folds
  <2>1. CASE T # {}
    <3>1. pick[T] = LastOf(b, T) /\ pick[T] \in S /\ F[T \ {pick[T]}] \in Progress
      BY <2>1, <1>6, <1>8
    <3>2. step[pick[T]][F[T \ {pick[T]}]] = Visited(b, owner, policy, pick[T], F[T \ {pick[T]}])
      BY <3>1, <1>7
    <3> QED
      BY <2>1, <3>1, <3>2, <1>4
  <2> QED
    BY <2>1, <1>4
<1>10. IsFoldOver(b, s, limit, owner, policy, acc, S)
  BY <1>3, <1>9 DEF IsFoldOver, pick, step
<1> QED
  BY <1>1, <1>5, <1>10 DEF pick

(* Nothing more happens once the aggressor is filled or stopped.           *)
LEMMA OutlookDone ==
  ASSUME NEW b, Sound(b), IsFiniteSet(b.index), NEW s \in Side, NEW limit,
         NEW owner, NEW policy, NEW acc \in Progress,
         Sated(acc) \/ Sweep(b, s, limit) = {}
  PROVE  Outlook(b, s, limit, owner, policy, acc) = acc
<1>0. PICK S : S = Sweep(b, s, limit)
  OBVIOUS
<1> DEFINE pick == LastPick(b, S)
           step == VisitStep(b, owner, policy, S)
<1>1. /\ S \in SUBSET OnSide(b, s) /\ IsFiniteSet(S) /\ Picks(pick, S)
      /\ IsFoldOver(b, s, limit, owner, policy, acc, S)
  BY <1>0, OutlookFolds
<1>2. \A x \in S : step[x][acc] = Visited(b, owner, policy, x, acc)
  BY StepsVisit
<1>3. ASSUME Sated(acc) PROVE Stays(step, S, {acc})
  <2>1. \A x \in S : step[x][acc] = acc
    BY <1>2, <1>3, VisitedSated
  <2> QED
    BY <2>1 DEF Stays
<1>4. ASSUME S = {} PROVE Stays(step, S, {acc})
  BY <1>4 DEF Stays
<1> HIDE DEF pick, step
<1>5. PICK f : Folds(f, S, acc, pick, step) /\ Outlook(b, s, limit, owner, policy, acc) = f[S]
  BY <1>1 DEF IsFoldOver, pick, step
<1>6. Stays(step, S, {acc})
  BY <1>0, <1>3, <1>4
<1>7. acc \in {acc}
  OBVIOUS
<1>8. f[S] \in {acc}
  BY <1>1, <1>5, <1>6, <1>7, FoldStays
<1> QED
  BY <1>5, <1>8

(* What progress leads to.                                                 *)
Further(acc) ==
  {a \in Progress : /\ a.fills >= acc.fills /\ a.cancels >= acc.cancels
                    /\ acc.stopped => a.stopped}

(* The outlook is progress from where preflight stands.                    *)
LEMMA OutlookGrows ==
  ASSUME NEW b, Sound(b), IsFiniteSet(b.index), NEW s \in Side, NEW limit,
         NEW owner, NEW policy, NEW acc \in Progress
  PROVE  Outlook(b, s, limit, owner, policy, acc) \in Further(acc)
<1>0. PICK S : S = Sweep(b, s, limit)
  OBVIOUS
<1> DEFINE pick == LastPick(b, S)
           step == VisitStep(b, owner, policy, S)
           K == Further(acc)
<1>1. /\ S \in SUBSET OnSide(b, s) /\ IsFiniteSet(S) /\ Picks(pick, S)
      /\ IsFoldOver(b, s, limit, owner, policy, acc, S)
  BY <1>0, OutlookFolds
<1>2. acc.fills \in Nat /\ acc.cancels \in Nat
  BY DEF Progress
<1>3. ASSUME NEW x \in S, NEW a \in K PROVE step[x][a] \in K
  <2>1. a \in Progress /\ a.fills >= acc.fills /\ a.cancels >= acc.cancels
        /\ (acc.stopped => a.stopped)
    BY DEF Further
  <2>2. x \in OrderId /\ b \in BookType
    BY <1>1, OrderPlace DEF OnSide, Sound
  <2>3. PICK next : next = Visited(b, owner, policy, x, a)
    OBVIOUS
  <2>4. step[x][a] = next
    BY <2>1, <2>3, StepsVisit
  <2> HIDE DEF step
  <2>5. /\ next \in Progress
        /\ next.fills >= a.fills /\ next.cancels >= a.cancels
        /\ a.stopped => next.stopped
    BY <2>1, <2>2, <2>3, VisitedProgress
  <2>6. a.fills \in Nat /\ a.cancels \in Nat /\ next.fills \in Nat /\ next.cancels \in Nat
    BY <2>1, <2>5 DEF Progress
  <2>7. next.fills >= acc.fills /\ next.cancels >= acc.cancels
    BY <2>1, <2>5, <2>6, <1>2
  <2> QED
    BY <2>1, <2>4, <2>5, <2>7 DEF Further
<1>4. Stays(step, S, K)
  BY <1>3 DEF Stays
<1>5. acc \in K
  BY <1>2 DEF Further
<1> HIDE DEF pick, step, K
<1>6. PICK f : Folds(f, S, acc, pick, step) /\ Outlook(b, s, limit, owner, policy, acc) = f[S]
  BY <1>1 DEF IsFoldOver, pick, step
<1>7. f[S] \in K
  BY <1>1, <1>4, <1>5, <1>6, FoldStays
<1> QED
  BY <1>6, <1>7 DEF K

-----------------------------------------------------------------------------
(* The front order of the best level comes first.                          *)

(* Of the orders on a side the front order of the best level is first.     *)
LEMMA FrontIsFirst ==
  ASSUME NEW b, Sound(b), NEW s \in Side, b.best[s] # NoPrice
  PROVE  /\ FrontOf(b, s) \in OnSide(b, s)
         /\ PriceOf(b, FrontOf(b, s)) = b.best[s]
         /\ Place(b, FrontOf(b, s)) = 1
         /\ \A y \in OnSide(b, s) : y # FrontOf(b, s) => <<FrontOf(b, s), y>> \in Before(b, s)
<1> DEFINE x == FrontOf(b, s)
           p == b.best[s]
           fifo == b.level[s][p]
<1>1. x \in b.index /\ b.order[x].side = s /\ b.order[x].price = p /\ p \in Price
  BY FrontIsIndexed DEF FrontOf
<1>2. x \in OnSide(b, s) /\ PriceOf(b, x) = p
  BY <1>1 DEF OnSide, PriceOf
<1>3. fifo \in Seq(OrderId) /\ Place(b, x) \in DOMAIN fifo
  BY <1>1, OrderPlace, PlaceOfOrder
<1>4. 1 \in DOMAIN fifo /\ fifo[1] = x
  <2>1. x = Head(fifo)
    BY DEF FrontOf
  <2> HIDE DEF fifo, x
  <2>2. fifo # <<>>
    BY <1>3
  <2> QED
    BY <2>1, <2>2, <1>3
<1>5. Place(b, x) = 1
  <2>1. Place(b, fifo[1]) = 1
    BY <1>1, <1>4, PlaceIs
  <2> QED
    BY <2>1, <1>4
<1>6. ASSUME NEW y \in OnSide(b, s), y # x PROVE <<x, y>> \in Before(b, s)
  <2> DEFINE q == PriceOf(b, y)
  <2>1. y \in b.index /\ b.order[y].side = s /\ b.order[y].price = q
    BY DEF OnSide, PriceOf
  <2>2. q \in Price /\ Place(b, y) \in Nat /\ Place(b, y) >= 1
        /\ b.level[s][q][Place(b, y)] = y /\ Place(b, y) \in DOMAIN b.level[s][q]
    BY <2>1, PlaceOfOrder
  <2>3. p \in Int /\ q \in Int
    BY <1>1, <2>2, PriceAssumption
  <2>4. ~Better(s, q, p)
    <3>1. b.level[s][q] # <<>>
      BY <2>2, EmptySeq
    <3>2. q \in Occupied(b, s)
      BY <3>1, <2>2 DEF Occupied
    <3> QED
      BY <3>2 DEF Sound, BestIsCached
  <2>5. CASE q = p
    <3>1. Place(b, y) # 1
      BY <2>2, <2>5, <1>4, <1>6
    <3>2. Place(b, x) < Place(b, y)
      BY <3>1, <2>2, <1>5
    <3>3. Ahead(b, x, y)
      BY <3>2, <2>1, <2>5, <1>1 DEF Ahead
    <3> QED
      BY <3>3, <1>2, BeforeIsAhead
  <2>6. CASE q # p
    <3>1. Better(s, p, q)
      BY <2>3, <2>4, <2>6 DEF Better
    <3>2. Ahead(b, x, y)
      BY <3>1, <2>1, <1>1 DEF Ahead
    <3> QED
      BY <3>2, <1>2, BeforeIsAhead
  <2> QED
    BY <2>5, <2>6
<1> QED
  BY <1>2, <1>5, <1>6

(* So it is the last only of itself.                                       *)
LEMMA FrontIsNotLast ==
  ASSUME NEW b, Sound(b), IsFiniteSet(b.index), NEW s \in Side, b.best[s] # NoPrice,
         NEW T \in SUBSET OnSide(b, s), T # {}, FrontOf(b, s) \notin T
  PROVE  /\ LastOf(b, T \cup {FrontOf(b, s)}) = LastOf(b, T)
         /\ LastOf(b, T) \in T
<1> DEFINE x == FrontOf(b, s)
           y == LastOf(b, T)
<1>1. x \in OnSide(b, s) /\ \A z \in OnSide(b, s) : z # x => <<x, z>> \in Before(b, s)
  BY FrontIsFirst
<1>2. IsLast(Before(b, s), T, y)
  BY LastOfExists
<1> HIDE DEF y
<1>3. IsLast(Before(b, s), T \cup {x}, y)
  BY <1>1, <1>2 DEF IsLast
<1>4. T \cup {x} \in SUBSET OnSide(b, s)
  BY <1>1
<1>5. LastOf(b, T \cup {x}) = y
  BY <1>3, <1>4, LastOfIs
<1> QED
  BY <1>2, <1>5 DEF IsLast, y

(* If the aggressor is done after the front order, that is the outlook.    *)
LEMMA OutlookFront ==
  ASSUME NEW b, Sound(b), IsFiniteSet(b.index), NEW s \in Side, NEW limit,
         NEW owner, NEW policy, NEW acc \in Progress,
         b.best[s] # NoPrice, Crosses(s, b.best[s], limit),
         NEW next, next = Visited(b, owner, policy, FrontOf(b, s), acc), Sated(next)
  PROVE  Outlook(b, s, limit, owner, policy, acc) = next
<1>0. PICK S : S = Sweep(b, s, limit)
  OBVIOUS
<1> DEFINE x == FrontOf(b, s)
           pick == LastPick(b, S)
           step == VisitStep(b, owner, policy, S)
           K == {next}
<1>1. /\ S \in SUBSET OnSide(b, s) /\ IsFiniteSet(S) /\ Picks(pick, S)
      /\ IsFoldOver(b, s, limit, owner, policy, acc, S)
  BY <1>0, OutlookFolds
<1>2. x \in S
  BY <1>0, FrontIsFirst, SweepIsWithinReach
<1>3. next \in Progress
  <2>1. x \in OrderId /\ b \in BookType
    BY <1>1, <1>2, OrderPlace DEF OnSide, Sound
  <2> QED
    BY <2>1, VisitedProgress
<1>4. \A y \in S, a \in Progress : step[y][a] = Visited(b, owner, policy, y, a)
  BY StepsVisit
<1>5. step[x][acc] \in K
  BY <1>2, <1>4
<1>6. Stays(step, S \ {x}, K)
  <2>1. \A y \in S : step[y][next] = next
    BY <1>3, <1>4, VisitedSated
  <2> QED
    BY <2>1 DEF Stays
<1>7. \A T \in SUBSET (S \ {x}) : T # {} => pick[T \cup {x}] \in T
  <2> SUFFICES ASSUME NEW T \in SUBSET (S \ {x}), T # {} PROVE pick[T \cup {x}] \in T
    OBVIOUS
  <2>1. T \in SUBSET OnSide(b, s) /\ x \notin T
    BY <1>1
  <2>2. LastOf(b, T \cup {x}) \in T
    BY <2>1, FrontIsNotLast
  <2>3. T \cup {x} \in SUBSET S
    BY <1>2
  <2> QED
    BY <2>2, <2>3 DEF LastPick
<1> HIDE DEF x, pick, step
<1>8. PICK f : Folds(f, S, acc, pick, step) /\ Outlook(b, s, limit, owner, policy, acc) = f[S]
  BY <1>1 DEF IsFoldOver, pick, step
<1> HIDE DEF K
<1>9. f[S] \in K
  BY <1>1, <1>2, <1>5, <1>6, <1>7, <1>8, FrontSettles
<1> QED
  BY <1>8, <1>9 DEF K

(* The front order of side s, and nothing else, has left.                  *)
FrontLeft(b, c, s) ==
  /\ \E i : Leaves(b, c, FrontOf(b, s), s, b.best[s], i)
  /\ SameBut(b, c, FrontOf(b, s))
  /\ c.index = b.index \ {FrontOf(b, s)}

(* Those behind it move up.                                                *)
LEMMA OthersMoveUp ==
  ASSUME NEW b, Sound(b), NEW c, Sound(c), NEW s \in Side, b.best[s] # NoPrice,
         FrontLeft(b, c, s)
  PROVE  /\ OnSide(c, s) = OnSide(b, s) \ {FrontOf(b, s)}
         /\ \A y \in OnSide(c, s) :
              /\ c.order[y] = b.order[y]
              /\ Place(c, y) = IF PriceOf(b, y) = b.best[s]
                               THEN Place(b, y) - 1 ELSE Place(b, y)
<1> DEFINE x == FrontOf(b, s)
           p == b.best[s]
           fifo == b.level[s][p]
           rest == c.level[s][p]
<1>1. /\ x \in OnSide(b, s) /\ PriceOf(b, x) = p /\ Place(b, x) = 1
  BY FrontIsFirst
<1>2. PICK i : Leaves(b, c, x, s, p, i)
  BY DEF FrontLeft
<1>3. /\ i \in DOMAIN fifo /\ fifo[i] = x
      /\ rest = RemoveAt(fifo, i)
      /\ SameElsewhere(b, c, s, p)
      /\ p \in Price
  BY <1>2 DEF Leaves
<1>4. i = 1
  <2>1. Place(b, fifo[i]) = i
    BY <1>3, PlaceIs
  <2> QED
    BY <2>1, <1>1, <1>3
<1>5. c.index = b.index \ {x} /\ SameBut(b, c, x)
  BY DEF FrontLeft
<1>6. \A y \in c.index : y \in b.index /\ y # x /\ y \in OrderId /\ c.order[y] = b.order[y]
  BY <1>5, OrderPlace DEF SameBut
<1>7. OnSide(c, s) = OnSide(b, s) \ {x}
  BY <1>5, <1>6 DEF OnSide
<1>8. fifo \in Seq(OrderId)
  BY <1>3 DEF Sound, BookType
<1>9. /\ Len(fifo) \in Nat /\ DOMAIN fifo = 1..Len(fifo)
      /\ DOMAIN rest = 1..(Len(fifo) - 1)
      /\ \A j \in DOMAIN rest : rest[j] = IF j < i THEN fifo[j] ELSE fifo[j + 1]
  <2> HIDE DEF fifo, rest
  <2>1. /\ RemoveAt(fifo, i) \in Seq(OrderId) /\ Len(RemoveAt(fifo, i)) = Len(fifo) - 1
        /\ \A j \in DOMAIN RemoveAt(fifo, i) :
             RemoveAt(fifo, i)[j] = IF j < i THEN fifo[j] ELSE fifo[j + 1]
    BY <1>3, <1>8, RemoveAtProperties
  <2> QED
    BY <2>1, <1>3, <1>8, LenProperties
<1>10. ASSUME NEW y \in OnSide(c, s)
       PROVE  Place(c, y) = IF PriceOf(b, y) = p THEN Place(b, y) - 1 ELSE Place(b, y)
  <2> DEFINE q == PriceOf(b, y)
             k == Place(b, y)
  <2>1. y \in b.index /\ b.order[y].side = s /\ b.order[y].price = q /\ y # x
    BY <1>6, <1>7 DEF OnSide, PriceOf
  <2>2. /\ q \in Price /\ k \in DOMAIN b.level[s][q] /\ b.level[s][q][k] = y
        /\ k \in Nat /\ k >= 1
    BY <2>1, PlaceOfOrder
  <2>3. CASE q # p
    <3>1. c.level[s][q] = b.level[s][q]
      BY <2>2, <2>3, <1>3 DEF SameElsewhere
    <3>2. Place(c, y) = k
      BY <3>1, <2>2, PlaceIs
    <3> QED
      BY <3>2, <2>3
  <2>4. CASE q = p
    <3>1. k \in DOMAIN fifo /\ fifo[k] = y
      BY <2>2, <2>4
    <3>2. k # 1
      BY <3>1, <1>3, <1>4, <2>1
    <3> HIDE DEF k, fifo, rest
    <3>3. k - 1 \in DOMAIN rest
      BY <3>1, <3>2, <1>9, <2>2
    <3>4. rest[k - 1] = fifo[k]
      BY <3>3, <1>4, <1>9, <2>2
    <3>5. Place(c, rest[k - 1]) = k - 1
      BY <3>3, <1>3, PlaceIs DEF rest
    <3> QED
      BY <3>1, <3>4, <3>5, <2>4 DEF k
  <2> QED
    BY <2>3, <2>4
<1> QED
  BY <1>6, <1>7, <1>10 DEF OnSide

(* The order of the walk among them is the same.                           *)
LEMMA OthersKeepOrder ==
  ASSUME NEW b, Sound(b), NEW c, Sound(c), NEW s \in Side, b.best[s] # NoPrice,
         FrontLeft(b, c, s), NEW x \in OnSide(c, s), NEW y \in OnSide(c, s)
  PROVE  <<x, y>> \in Before(c, s) <=> <<x, y>> \in Before(b, s)
<1>1. /\ x \in OnSide(b, s) /\ y \in OnSide(b, s)
      /\ c.order[x] = b.order[x] /\ c.order[y] = b.order[y]
      /\ Place(c, x) = IF PriceOf(b, x) = b.best[s] THEN Place(b, x) - 1 ELSE Place(b, x)
      /\ Place(c, y) = IF PriceOf(b, y) = b.best[s] THEN Place(b, y) - 1 ELSE Place(b, y)
  BY OthersMoveUp
<1>2. Place(b, x) \in Nat /\ Place(b, y) \in Nat
  BY <1>1, PlaceOfOrder DEF OnSide
<1>3. <<x, y>> \in Before(c, s) <=> Ahead(c, x, y)
  BY BeforeIsAhead
<1>4. <<x, y>> \in Before(b, s) <=> Ahead(b, x, y)
  BY <1>1, BeforeIsAhead
<1>5. Ahead(c, x, y) <=> Ahead(b, x, y)
  BY <1>1, <1>2 DEF Ahead, PriceOf
<1> QED
  BY <1>3, <1>4, <1>5

(* So the same one is last.                                                *)
LEMMA OthersKeepLast ==
  ASSUME NEW b, Sound(b), IsFiniteSet(b.index), NEW c, Sound(c), NEW s \in Side,
         b.best[s] # NoPrice, FrontLeft(b, c, s), NEW T \in SUBSET OnSide(c, s), T # {}
  PROVE  LastOf(b, T \cup {FrontOf(b, s)}) = LastOf(c, T)
<1>1. OnSide(c, s) = OnSide(b, s) \ {FrontOf(b, s)}
  BY OthersMoveUp
<1>2. IsFiniteSet(c.index)
  BY FS_Subset DEF FrontLeft
<1> DEFINE y == LastOf(c, T)
<1>3. IsLast(Before(c, s), T, y)
  BY <1>2, LastOfExists
<1> HIDE DEF y
<1>4. y \in T /\ \A x \in T \ {y} : <<x, y>> \in Before(c, s)
  BY <1>3 DEF IsLast
<1>5. \A x \in T \ {y} : <<x, y>> \in Before(b, s)
  BY <1>4, OthersKeepOrder
<1>6. IsLast(Before(b, s), T, y) /\ T \in SUBSET OnSide(b, s) /\ FrontOf(b, s) \notin T
  BY <1>1, <1>4, <1>5 DEF IsLast
<1>7. LastOf(b, T) = y
  BY <1>6, LastOfIs
<1>8. LastOf(b, T \cup {FrontOf(b, s)}) = LastOf(b, T)
  BY <1>6, FrontIsNotLast
<1> QED
  BY <1>7, <1>8 DEF y

(* What is left to reach.                                                  *)
LEMMA SweepWithoutFront ==
  ASSUME NEW b, Sound(b), NEW c, Sound(c), NEW s \in Side, NEW limit,
         b.best[s] # NoPrice, Crosses(s, b.best[s], limit), FrontLeft(b, c, s)
  PROVE  /\ FrontOf(b, s) \in Sweep(b, s, limit)
         /\ Sweep(c, s, limit) = Sweep(b, s, limit) \ {FrontOf(b, s)}
<1>1. FrontOf(b, s) \in OnSide(b, s) /\ PriceOf(b, FrontOf(b, s)) = b.best[s]
  BY FrontIsFirst
<1>2. /\ OnSide(c, s) = OnSide(b, s) \ {FrontOf(b, s)}
      /\ \A y \in OnSide(c, s) : PriceOf(c, y) = PriceOf(b, y)
  BY OthersMoveUp DEF PriceOf
<1>3. /\ Sweep(b, s, limit) = {id \in OnSide(b, s) : Crosses(s, PriceOf(b, id), limit)}
      /\ Sweep(c, s, limit) = {id \in OnSide(c, s) : Crosses(s, PriceOf(c, id), limit)}
  BY SweepIsWithinReach
<1> QED
  BY <1>1, <1>2, <1>3

(* The outlook after one turn of the loop is the outlook before it.        *)
LEMMA OutlookTurn ==
  ASSUME NEW b, Sound(b), IsFiniteSet(b.index), NEW c, Sound(c), NEW s \in Side, NEW limit,
         NEW owner, NEW policy, NEW acc \in Progress,
         b.best[s] # NoPrice, Crosses(s, b.best[s], limit), FrontLeft(b, c, s),
         NEW next, next = Visited(b, owner, policy, FrontOf(b, s), acc)
  PROVE  Outlook(c, s, limit, owner, policy, next) = Outlook(b, s, limit, owner, policy, acc)
<1>0. PICK S : S = Sweep(b, s, limit)
  OBVIOUS
<1> DEFINE x == FrontOf(b, s)
           R == S \ {x}
           pick == LastPick(b, S)
           step == VisitStep(b, owner, policy, S)
           pick2 == LastPick(c, R)
           step2 == VisitStep(c, owner, policy, R)
<1>1. /\ S \in SUBSET OnSide(b, s) /\ IsFiniteSet(S) /\ Picks(pick, S)
      /\ IsFoldOver(b, s, limit, owner, policy, acc, S)
  BY <1>0, OutlookFolds
<1>2. x \in S /\ R = Sweep(c, s, limit)
  BY <1>0, SweepWithoutFront
<1>3. next \in Progress
  <2>1. x \in OrderId /\ b \in BookType
    BY <1>1, <1>2, OrderPlace DEF OnSide, Sound
  <2> QED
    BY <2>1, VisitedProgress
<1>4. IsFiniteSet(c.index)
  BY FS_Subset DEF FrontLeft
<1>5. /\ R \in SUBSET OnSide(c, s) /\ IsFiniteSet(R) /\ Picks(pick2, R)
      /\ IsFoldOver(c, s, limit, owner, policy, next, R)
  <2> HIDE DEF R
  <2> QED
    BY <1>2, <1>3, <1>4, OutlookFolds
<1>6. PicksLater(pick, pick2, S, x)
  <2> SUFFICES ASSUME NEW T \in SUBSET (S \ {x}), T # {} PROVE pick[T \cup {x}] = pick2[T]
    BY DEF PicksLater
  <2>1. T \in SUBSET R /\ T \cup {x} \in SUBSET S /\ T \in SUBSET OnSide(c, s)
    BY <1>2, <1>5
  <2>2. LastOf(b, T \cup {x}) = LastOf(c, T)
    BY <2>1, OthersKeepLast
  <2> QED
    BY <2>1, <2>2 DEF LastPick
<1>7. SameSteps(step, step2, S \ {x})
  <2> SUFFICES ASSUME NEW y \in S \ {x} PROVE step2[y] = step[y]
    BY DEF SameSteps
  <2>1. c.order[y] = b.order[y]
    BY <1>5, OthersMoveUp
  <2>2. ASSUME NEW a PROVE Visited(c, owner, policy, y, a) = Visited(b, owner, policy, y, a)
    BY <2>1 DEF Visited
  <2>3. /\ step2[y] = [a \in Progress |-> Visited(c, owner, policy, y, a)]
        /\ step[y] = [a \in Progress |-> Visited(b, owner, policy, y, a)]
    BY DEF VisitStep
  <2> QED
    BY <2>2, <2>3
<1>8. step[x][acc] = next
  BY <1>2, StepsVisit
<1> HIDE DEF x, R, pick, step, pick2, step2
<1>9. PICK f : Folds(f, S, acc, pick, step) /\ Outlook(b, s, limit, owner, policy, acc) = f[S]
  BY <1>1 DEF IsFoldOver, pick, step
<1>10. PICK g : Folds(g, R, next, pick2, step2) /\ Outlook(c, s, limit, owner, policy, next) = g[R]
  BY <1>5 DEF IsFoldOver, pick2, step2
<1>11. R = S \ {x}
  BY DEF R
<1>12. Picks(pick2, S \ {x}) /\ Folds(g, S \ {x}, next, pick2, step2)
  BY <1>5, <1>10, <1>11
<1>13. f[S] = g[S \ {x}]
  BY <1>1, <1>2, <1>6, <1>7, <1>8, <1>9, <1>12, FoldFromFront
<1> QED
  BY <1>9, <1>10, <1>11, <1>13

-----------------------------------------------------------------------------
(* The other side of the book.                                             *)

(* Side s is in book c as it is in book b.                                 *)
SameSide(b, c, s) ==
  /\ \A p \in Price : c.level[s][p] = b.level[s][p] /\ c.total[s][p] = b.total[s][p]
  /\ c.best[s] = b.best[s]
  /\ \A y \in OnSide(b, s) : c.order[y] = b.order[y]
  /\ OnSide(c, s) = OnSide(b, s)

(* An order that leaves one side does not touch the other.                 *)
LEMMA OtherSideStays ==
  ASSUME NEW b, Sound(b), NEW id \in b.index, Removable(b, id),
         NEW c, c = Unindexed(Unlinked(b, id), id), NEW s \in Side, s # b.order[id].side
  PROVE  SameSide(b, c, s)
<1>1. PICK t, p, i : Leaves(b, c, id, t, p, i)
  BY UnlinkedChanges
<1>2. c.order = b.order /\ c.index = b.index \ {id}
  BY UnlinkedSound
<1>3. t # s /\ SameElsewhere(b, c, t, p) /\ \A u \in Side : u # t => c.best[u] = b.best[u]
  BY <1>1 DEF Leaves
<1>4. OnSide(c, s) = OnSide(b, s)
  BY <1>2 DEF OnSide
<1> QED
  BY <1>2, <1>3, <1>4 DEF SameSide, SameElsewhere

(* The outlook there is the same.                                          *)
LEMMA OutlookOtherSide ==
  ASSUME NEW b, Sound(b), IsFiniteSet(b.index), NEW c, Sound(c), IsFiniteSet(c.index),
         NEW s \in Side, SameSide(b, c, s), NEW limit,
         NEW owner, NEW policy, NEW acc \in Progress
  PROVE  Outlook(c, s, limit, owner, policy, acc) = Outlook(b, s, limit, owner, policy, acc)
<1>0. PICK S : S = Sweep(b, s, limit)
  OBVIOUS
<1> DEFINE pick == LastPick(b, S)
           step == VisitStep(b, owner, policy, S)
           pick2 == LastPick(c, S)
           step2 == VisitStep(c, owner, policy, S)
<1>1. /\ S \in SUBSET OnSide(b, s) /\ IsFiniteSet(S) /\ Picks(pick, S)
      /\ IsFoldOver(b, s, limit, owner, policy, acc, S)
  BY <1>0, OutlookFolds
<1>2. S = Sweep(c, s, limit)
  <2>1. /\ Sweep(b, s, limit) = {id \in OnSide(b, s) : Crosses(s, PriceOf(b, id), limit)}
        /\ Sweep(c, s, limit) = {id \in OnSide(c, s) : Crosses(s, PriceOf(c, id), limit)}
    BY SweepIsWithinReach
  <2>2. OnSide(c, s) = OnSide(b, s) /\ \A y \in OnSide(b, s) : PriceOf(c, y) = PriceOf(b, y)
    BY DEF SameSide, PriceOf
  <2> QED
    BY <2>1, <2>2, <1>0
<1>3. IsFoldOver(c, s, limit, owner, policy, acc, S)
  BY <1>2, OutlookFolds
<1>4. \A y \in OnSide(b, s) : c.order[y] = b.order[y] /\ Place(c, y) = Place(b, y)
  <2> TAKE y \in OnSide(b, s)
  <2>1. c.order[y] = b.order[y] /\ y \in b.index /\ b.order[y].side = s
    BY DEF SameSide, OnSide
  <2>2. b.order[y].price \in Price
    BY <2>1, OrderPlace
  <2>3. c.level[s][b.order[y].price] = b.level[s][b.order[y].price]
    BY <2>2 DEF SameSide
  <2> QED
    BY <2>1, <2>3 DEF Place
<1>5. \A x, y \in OnSide(b, s) : <<x, y>> \in Before(b, s) <=> <<x, y>> \in Before(c, s)
  <2> TAKE x, y \in OnSide(b, s)
  <2>1. x \in OnSide(c, s) /\ y \in OnSide(c, s)
    BY DEF SameSide
  <2>2. Ahead(c, x, y) <=> Ahead(b, x, y)
    BY <1>4 DEF Ahead
  <2> QED
    BY <2>1, <2>2, BeforeIsAhead
<1>6. SamePicks(pick, pick2, S)
  <2> SUFFICES ASSUME NEW T \in SUBSET S, T # {} PROVE pick2[T] = pick[T]
    BY DEF SamePicks
  <2>1. T \in SUBSET OnSide(b, s) /\ T \in SUBSET OnSide(c, s)
    BY <1>1 DEF SameSide
  <2>2. IsLast(Before(b, s), T, LastOf(b, T))
    BY <2>1, LastOfExists
  <2>3. IsLast(Before(c, s), T, LastOf(b, T))
    BY <2>1, <2>2, <1>5 DEF IsLast
  <2>4. LastOf(c, T) = LastOf(b, T)
    BY <2>1, <2>3, LastOfIs
  <2> QED
    BY <2>4 DEF LastPick
<1>7. SameSteps(step, step2, S)
  <2> SUFFICES ASSUME NEW y \in S PROVE step2[y] = step[y]
    BY DEF SameSteps
  <2>1. c.order[y] = b.order[y]
    BY <1>1, <1>4
  <2>2. ASSUME NEW a PROVE Visited(c, owner, policy, y, a) = Visited(b, owner, policy, y, a)
    BY <2>1 DEF Visited
  <2>3. /\ step2[y] = [a \in Progress |-> Visited(c, owner, policy, y, a)]
        /\ step[y] = [a \in Progress |-> Visited(b, owner, policy, y, a)]
    BY DEF VisitStep
  <2> QED
    BY <2>2, <2>3
<1> HIDE DEF pick, step, pick2, step2
<1>8. PICK f : Folds(f, S, acc, pick, step) /\ Outlook(b, s, limit, owner, policy, acc) = f[S]
  BY <1>1 DEF IsFoldOver, pick, step
<1>9. PICK g : Folds(g, S, acc, pick2, step2) /\ Outlook(c, s, limit, owner, policy, acc) = g[S]
  BY <1>3 DEF IsFoldOver, pick2, step2
<1>10. g[S] = f[S]
  BY <1>1, <1>6, <1>7, <1>8, <1>9, FoldSame
<1> QED
  BY <1>8, <1>9, <1>10

-----------------------------------------------------------------------------
(* What the levels within a limit offer.                                   *)

(* A side has no more occupied levels than the book has orders.            *)
LEMMA FewLevels ==
  ASSUME NEW b, Sound(b), IsFiniteSet(b.index), NEW s \in Side
  PROVE  /\ IsFiniteSet(Occupied(b, s))
         /\ Cardinality(Occupied(b, s)) \in Nat
         /\ Cardinality(Occupied(b, s)) <= Cardinality(b.index)
         /\ Cardinality(b.index) \in Nat
<1> DEFINE P == Occupied(b, s)
           f == [p \in P |-> b.level[s][p][1]]
<1>1. ASSUME NEW p \in P
      PROVE  f[p] \in b.index /\ b.order[f[p]].price = p
  <2>1. p \in Price /\ b.level[s][p] # <<>> /\ b.level[s][p] \in Seq(OrderId)
    BY DEF Occupied, Sound, BookType
  <2>2. 1 \in DOMAIN b.level[s][p]
    BY <2>1
  <2>3. PICK id : id = b.level[s][p][1]
    OBVIOUS
  <2>4. id \in b.index /\ b.order[id].side = s /\ b.order[id].price = p
    BY <2>1, <2>2, <2>3, PlaceIs
  <2> QED
    BY <2>3, <2>4
<1>2. f \in [P -> b.index]
  BY <1>1
<1> HIDE DEF f, P
<1>3. IsInjective(f)
  BY <1>1, <1>2 DEF IsInjective
<1>4. f \in Injection(P, b.index)
  BY <1>2, <1>3 DEF Injection
<1>5. IsFiniteSet(P) /\ Cardinality(P) <= Cardinality(b.index)
  BY <1>4, FS_Injection
<1>6. Cardinality(P) \in Nat /\ Cardinality(b.index) \in Nat
  BY <1>5, FS_CardinalityType
<1> QED
  BY <1>5, <1>6 DEF P

(* What the levels within reach hold together.                             *)
Offered(b, s, limit) == SetSum(b.total[s], CrossingPrices(b, s, limit))

(* ExecutableQuantity is what is offered, up to the quantity wanted.       *)
LEMMA ExecutableIsOffered ==
  ASSUME NEW b, NEW s, NEW qty, NEW limit
  PROVE  ExecutableQuantity(b, s, qty, limit) = Min2(qty, Offered(b, s, limit))
  BY DEF ExecutableQuantity, Offered, SetSum

(* Finitely many levels are within a limit, and their totals are naturals. *)
LEMMA ReachIsFinite ==
  ASSUME NEW b, Sound(b), IsFiniteSet(b.index), NEW s \in Side, NEW limit
  PROVE  /\ IsFiniteSet(CrossingPrices(b, s, limit))
         /\ CrossingPrices(b, s, limit) = {p \in Occupied(b, s) : Crosses(s, p, limit)}
         /\ CrossingPrices(b, s, limit) \subseteq Price
         /\ \A p \in Price : b.total[s][p] \in 0..MaxQuantity /\ b.total[s][p] \in Nat
<1>1. CrossingPrices(b, s, limit) = {p \in Occupied(b, s) : Crosses(s, p, limit)}
  BY SweepIsWithinReach
<1>2. IsFiniteSet(Occupied(b, s)) /\ Occupied(b, s) \subseteq Price
  BY FewLevels DEF Occupied
<1>3. \A p \in Price : b.total[s][p] \in 0..MaxQuantity
  BY DEF Sound, BookType
<1>4. IsFiniteSet(CrossingPrices(b, s, limit))
  BY <1>1, <1>2, FS_Subset
<1> QED
  BY <1>1, <1>2, <1>3, <1>4, WidthAssumption

(* What is offered within a limit is a natural, and at least each level's  *)
(* total.                                                                  *)
LEMMA OfferedTyped ==
  ASSUME NEW b, Sound(b), IsFiniteSet(b.index), NEW s \in Side, NEW limit
  PROVE  /\ Offered(b, s, limit) \in Nat
         /\ \A p \in CrossingPrices(b, s, limit) : Offered(b, s, limit) >= b.total[s][p]
<1> DEFINE P == CrossingPrices(b, s, limit)
           g == b.total[s]
<1>1. IsFiniteSet(P) /\ \A p \in P : g[p] \in Nat
  BY ReachIsFinite
<1> HIDE DEF P, g
<1>2. SetSum(g, P) \in Nat /\ \A p \in P : SetSum(g, P) >= g[p]
  BY <1>1, SetSumMember
<1> QED
  BY <1>2 DEF P, g, Offered

(* Within reach of something, something is offered.                        *)
LEMMA NothingOffered ==
  ASSUME NEW b, Sound(b), IsFiniteSet(b.index), Sums(b), NEW s \in Side, NEW limit,
         \A id \in b.index : b.order[id].qty # 0
  PROVE  Offered(b, s, limit) = 0 <=> CrossingPrices(b, s, limit) = {}
<1>1. ASSUME CrossingPrices(b, s, limit) = {} PROVE Offered(b, s, limit) = 0
  BY <1>1, SetSumEmpty DEF Offered
<1>2. ASSUME NEW p \in CrossingPrices(b, s, limit) PROVE Offered(b, s, limit) # 0
  <2>1. p \in Price /\ b.level[s][p] # <<>> /\ b.level[s][p] \in Seq(OrderId)
    BY ReachIsFinite DEF Occupied, Sound, BookType
  <2>2. 1 \in DOMAIN b.level[s][p]
    BY <2>1
  <2>3. PICK id : id = b.level[s][p][1]
    OBVIOUS
  <2>4. id \in b.index /\ b.order[id].side = s /\ b.order[id].price = p
    BY <2>1, <2>2, <2>3, PlaceIs
  <2>5. b.order[id].qty \in 0..MaxQuantity /\ b.total[s][p] \in 0..MaxQuantity
        /\ b.order[id].qty <= b.total[s][p] /\ b.order[id].qty # 0
    BY <2>4, TotalHasOrder DEF Removable
  <2>6. Offered(b, s, limit) >= b.total[s][p] /\ Offered(b, s, limit) \in Nat
    BY OfferedTyped
  <2> QED
    BY <2>5, <2>6, WidthAssumption
<1> QED
  BY <1>1, <1>2

(* A fill takes as much off the offer.                                     *)
LEMMA OfferedShortened ==
  ASSUME NEW b, Sound(b), IsFiniteSet(b.index), NEW c, Sound(c), NEW s \in Side, NEW limit,
         NEW id, NEW p \in CrossingPrices(b, s, limit), NEW x \in Int,
         Shortened(b, c, id, s, p, x)
  PROVE  Offered(c, s, limit) = Offered(b, s, limit) - x
<1> DEFINE P == CrossingPrices(b, s, limit)
           g == b.total[s]
           h == c.total[s]
<1>1. /\ p \in Price
      /\ c.level = b.level /\ c.index = b.index
      /\ c.total[s][p] = b.total[s][p] - x
      /\ SameElsewhere(b, c, s, p)
  BY DEF Shortened
<1>2. Occupied(c, s) = Occupied(b, s)
  BY <1>1 DEF Occupied
<1>3. CrossingPrices(c, s, limit) = P
  BY <1>1, <1>2, ReachIsFinite
<1>4. /\ IsFiniteSet(P) /\ P \subseteq Price
      /\ \A q \in Price : g[q] \in Nat /\ h[q] \in Nat
  BY <1>1, ReachIsFinite
<1>5. \A q \in P : q # p => h[q] = g[q]
  BY <1>4 DEF SameElsewhere, Shortened
<1>6. h[p] = g[p] - x
  BY <1>1
<1>7. Offered(c, s, limit) = SetSum(h, P) /\ Offered(b, s, limit) = SetSum(g, P)
  BY <1>3 DEF Offered
<1>8. p \in P
  OBVIOUS
<1> HIDE DEF P, g, h
<1>9. Whole(g, P) /\ Whole(h, P)
  BY <1>4 DEF Whole
<1>10. SetSum(h, P) = SetSum(g, P) + h[p] - g[p]
  BY <1>4, <1>5, <1>8, <1>9, SetSumUpdate
<1>11. SetSum(g, P) \in Nat
  BY <1>4, SetSumMember
<1> QED
  BY <1>4, <1>6, <1>7, <1>8, <1>10, <1>11

(* An order that leaves takes its quantity off the offer.                  *)
LEMMA OfferedLeaves ==
  ASSUME NEW b, Sound(b), IsFiniteSet(b.index), NEW c, Sound(c), Sums(c),
         IsFiniteSet(c.index), NEW s \in Side, NEW limit,
         NEW id \in b.index, NEW p \in CrossingPrices(b, s, limit), NEW i,
         Leaves(b, c, id, s, p, i)
  PROVE  Offered(c, s, limit) = Offered(b, s, limit) - b.order[id].qty
<1> DEFINE P == CrossingPrices(b, s, limit)
           R == CrossingPrices(c, s, limit)
           g == b.total[s]
           h == c.total[s]
           x == b.order[id].qty
<1>1. /\ p \in Price
      /\ h[p] = g[p] - x
      /\ SameElsewhere(b, c, s, p)
  BY DEF Leaves
<1>2. /\ IsFiniteSet(P) /\ P \subseteq Price
      /\ \A q \in Price : g[q] \in Nat /\ h[q] \in Nat
      /\ P = {q \in Occupied(b, s) : Crosses(s, q, limit)}
      /\ R = {q \in Occupied(c, s) : Crosses(s, q, limit)}
  BY ReachIsFinite
<1>3. x \in Int
  BY OrderPlace, WidthAssumption DEF Order
<1>4. \A q \in Price : q # p => h[q] = g[q] /\ (q \in Occupied(c, s) <=> q \in Occupied(b, s))
  BY <1>1 DEF SameElsewhere, Occupied
<1>5. SetSum(g, P) \in Nat /\ Whole(g, P) /\ Whole(h, P)
  <2> HIDE DEF P, g, h
  <2> QED
    BY <1>2, SetSumMember DEF Whole
<1>6. p \in P /\ Offered(c, s, limit) = SetSum(h, R) /\ Offered(b, s, limit) = SetSum(g, P)
  BY DEF Offered
<1>7. SetSum(h, P) = SetSum(g, P) + h[p] - g[p]
  <2> HIDE DEF P, g, h
  <2>1. \A q \in P : q # p => h[q] = g[q]
    BY <1>2, <1>4
  <2> QED
    BY <2>1, <1>2, <1>5, <1>6, SetSumUpdate
<1>8. SetSum(h, P) = SetSum(g, P) - x
  <2> HIDE DEF P, g, h, x
  <2> QED
    BY <1>1, <1>2, <1>3, <1>5, <1>7
<1>11. \A q \in Price : /\ q \in P <=> q \in Occupied(b, s) /\ Crosses(s, q, limit)
                        /\ q \in R <=> q \in Occupied(c, s) /\ Crosses(s, q, limit)
  <2> HIDE DEF P, R, g, h
  <2> QED
    BY <1>2
<1>12. /\ P \subseteq Price /\ R \subseteq Price /\ p \in P
       /\ \A q \in Price : q # p => (q \in Occupied(c, s) <=> q \in Occupied(b, s))
  BY <1>2, <1>4, <1>6 DEF Occupied
<1>9. CASE p \in Occupied(c, s)
  <2>1. R = P
    BY <1>9, <1>11, <1>12, Zenon
  <2> HIDE DEF P, R, g, h, x
  <2> QED
    BY <2>1, <1>6, <1>8 DEF x
<1>10. CASE p \notin Occupied(c, s)
  <2>1. R = P \ {p}
    BY <1>10, <1>11, <1>12, Zenon
  <2>2. h[p] = 0
    <3>1. c.level[s][p] = <<>>
      BY <1>1, <1>10 DEF Occupied
    <3> QED
      BY <3>1, <1>1, QuantityIsAdded, AddedEmpty DEF Sums
  <2> HIDE DEF P, R, g, h
  <2>6. IsFiniteSet(P) /\ Whole(h, P) /\ p \in P
    BY <1>2, <1>5, <1>6
  <2>3. SetSum(h, P \ {p}) = SetSum(h, P) - h[p]
    BY <2>6, SetSumRemove
  <2> HIDE DEF x
  <2>4. SetSum(h, P) \in Int
    BY <1>3, <1>5, <1>8
  <2>5. SetSum(h, R) = SetSum(h, P)
    BY <2>1, <2>2, <2>3, <2>4
  <2> QED
    BY <2>5, <1>6, <1>8 DEF x
<1> QED
  BY <1>9, <1>10

(* The offer of a side depends on that side only.                          *)
LEMMA OfferedOtherSide ==
  ASSUME NEW b, Sound(b), IsFiniteSet(b.index), NEW c, Sound(c), IsFiniteSet(c.index),
         NEW s \in Side, SameSide(b, c, s), NEW limit
  PROVE  /\ CrossingPrices(c, s, limit) = CrossingPrices(b, s, limit)
         /\ Offered(c, s, limit) = Offered(b, s, limit)
<1>1. Occupied(c, s) = Occupied(b, s)
  BY DEF SameSide, Occupied
<1>2. CrossingPrices(c, s, limit) = CrossingPrices(b, s, limit)
  BY <1>1, ReachIsFinite
<1>3. c.total[s] = b.total[s]
  <2>1. /\ b.total[s] \in [Price -> 0..MaxQuantity] /\ c.total[s] \in [Price -> 0..MaxQuantity]
    BY DEF Sound, BookType
  <2>2. \A p \in Price : c.total[s][p] = b.total[s][p]
    BY DEF SameSide
  <2> QED
    BY <2>1, <2>2
<1> QED
  BY <1>2, <1>3 DEF Offered

=============================================================================
