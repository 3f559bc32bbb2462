---------------------------- MODULE StorageProofs ----------------------------
(***************************************************************************)
(* What lies under a book's sides and beside them: the pool of nodes and   *)
(* the levels that link them, the index of order ids, the logs, and the    *)
(* consumer of what leaves the market-data log; for every number of slots  *)
(* and levels, every width of quantities and sequence numbers, every hash  *)
(* and whatever the transport delivers.                                    *)
(***************************************************************************)
EXTENDS OrderNodes, OrderIdMap, OperationLog, MarketFeed, QueueLemmas

-----------------------------------------------------------------------------
(* The pool and the levels.                                                *)

(* Two free slots are never the same, nor is one in hand or in a level:    *)
(* SlotsHaveOnePlace says so through inUse. With the types it is inductive *)
(* together with the links, which an append or a removal only changes at   *)
(* nodes of that level if no node is in two places.                        *)
NodesInv == TypeOK /\ LinksSpellQueues /\ SlotsHaveOnePlace

(* What SlotsHaveOnePlace says of the free list. *)
FreeListIsExact ==
  /\ freeHead = At(spare, 1)
  /\ \A i \in DOMAIN spare : link[spare[i]] = At(spare, i + 1) /\ ~inUse[spare[i]]
  /\ \A i, j \in DOMAIN spare : spare[i] = spare[j] => i = j
  /\ poolSize + Len(spare) = PoolCapacity

(* What it says of the nodes in the levels, and of the one in hand.        *)
QueuedOnce ==
  \A l \in Level : \A i \in DOMAIN queue[l] :
    /\ inUse[queue[l][i]] /\ queue[l][i] # held
    /\ \A k \in Level : \A j \in DOMAIN queue[k] :
         queue[l][i] = queue[k][j] => l = k /\ i = j
HeldIsOut == held # NoNode => inUse[held] /\ level[held] = NoLevel

(* The parts are the whole, before and after a step. *)
LEMMA Places ==
  /\ SlotsHaveOnePlace <=> FreeListIsExact /\ QueuedOnce /\ HeldIsOut
  /\ SlotsHaveOnePlace' <=> FreeListIsExact' /\ QueuedOnce' /\ HeldIsOut'
BY DEF SlotsHaveOnePlace, FreeListIsExact, QueuedOnce, HeldIsOut

(* The chain of a level spells q. *)
Spells(l, q) ==
  /\ head[l] = At(q, 1) /\ tail[l] = At(q, Len(q))
  /\ count[l] = Len(q)
  /\ \A i \in DOMAIN q :
       /\ level[q[i]] = l
       /\ next[q[i]] = At(q, i + 1) /\ prev[q[i]] = At(q, i - 1)

(* LinksSpellQueues, level by level. *)
LEMMA Links ==
  /\ LinksSpellQueues <=> \A l \in Level : Spells(l, queue[l])
  /\ LinksSpellQueues' <=> \A l \in Level : Spells(l, queue[l])'
BY DEF LinksSpellQueues, Spells

(* The elements of the auxiliary sequences are slots. *)
LEMMA Elements ==
  ASSUME TypeOK
  PROVE  /\ \A l \in Level :
              /\ queue[l] \in Seq(Node) /\ Len(queue[l]) \in Nat
              /\ DOMAIN queue[l] = 1..Len(queue[l])
              /\ \A i \in 1..Len(queue[l]) : queue[l][i] \in Node
         /\ spare \in Seq(Node) /\ Len(spare) \in Nat /\ DOMAIN spare = 1..Len(spare)
         /\ \A i \in 1..Len(spare) : spare[i] \in Node
         /\ NoNode \notin Node /\ NoLevel \notin Level
<1>1. \A l \in Level : queue[l] \in Seq(Node)
  BY DEF TypeOK
<1>2. \A q \in Seq(Node) : /\ Len(q) \in Nat /\ DOMAIN q = 1..Len(q)
                           /\ \A i \in 1..Len(q) : q[i] \in Node
  <2> TAKE q \in Seq(Node)
  <2>1. Len(q) \in Nat /\ q \in [1..Len(q) -> Node]
    BY LenProperties
  <2> QED BY <2>1
<1>3. spare \in Seq(Node)
  BY DEF TypeOK
<1>4. NoNode \notin Node /\ NoLevel \notin Level
  BY PoolAssumption, LevelAssumption DEF NoNode, Node
<1> QED BY <1>1, <1>2, <1>3, <1>4

(* At within and beyond a sequence. *)
LEMMA AtCases ==
  ASSUME NEW q \in Seq(Node), NEW i \in Int
  PROVE  /\ i \in 1..Len(q) => At(q, i) = q[i] /\ At(q, i) \in Node
         /\ i \notin 1..Len(q) => At(q, i) = NoNode
         /\ At(q, i) = NoNode <=> i \notin 1..Len(q)
<1>1. Len(q) \in Nat /\ q \in [1..Len(q) -> Node] /\ DOMAIN q = 1..Len(q)
  BY LenProperties
<1>2. NoNode \notin Node
  BY PoolAssumption DEF NoNode, Node
<1> QED BY <1>1, <1>2 DEF At

(* Fewer slots are free than the pool has while one is in use.             *)
LEMMA SomeSlotUsed ==
  ASSUME TypeOK, FreeListIsExact, NEW n \in Node, inUse[n]
  PROVE  poolSize \in 1..PoolCapacity
<1>1. IsFiniteSet(Node) /\ Cardinality(Node) = PoolCapacity
  BY FS_Interval, PoolAssumption DEF Node
<1>2. IsFiniteSet(Node \ {n}) /\ Cardinality(Node \ {n}) = PoolCapacity - 1
  BY <1>1, FS_RemoveElement
<1>3. IsFiniteSet(1..Len(spare)) /\ Cardinality(1..Len(spare)) = Len(spare)
  <2>1. \A b \in Nat : IsFiniteSet(1..b) /\ Cardinality(1..b) = b
    <3> TAKE b \in Nat
    <3>1. Cardinality(1..b) = IF 1 > b THEN 0 ELSE b - 1 + 1
      BY FS_Interval
    <3>2. IsFiniteSet(1..b)
      BY FS_Interval
    <3> QED BY <3>1, <3>2
  <2> QED BY <2>1, Elements
<1>4. spare \in [1..Len(spare) -> Node \ {n}]
  <2>1. spare \in [1..Len(spare) -> Node]
    BY LenProperties, Elements
  <2>2. \A i \in 1..Len(spare) : spare[i] # n
    BY Elements DEF FreeListIsExact
  <2> QED BY <2>1, <2>2
<1>5. \A i, j \in 1..Len(spare) : spare[i] = spare[j] => i = j
  BY Elements DEF FreeListIsExact
<1>6. ~(PoolCapacity - 1 < Len(spare))
  BY <1>2, <1>3, <1>4, <1>5, FS_PigeonHole
<1> QED BY <1>6, Elements, PoolAssumption DEF FreeListIsExact, TypeOK

-----------------------------------------------------------------------------
(* Each action preserves the invariant.                                    *)

(* A new pool's free list runs through all slots. *)
LEMMA FreshFreeList ==
  LET s == [i \in 1..PoolCapacity |-> i - 1]
  IN /\ s \in Seq(Node) /\ Len(s) = PoolCapacity
     /\ \A i \in 1..PoolCapacity : s[i] = i - 1 /\ At(s, i + 1) = s[i] + 1
     /\ At(s, 1) = 0
<1> DEFINE s == [i \in 1..PoolCapacity |-> i - 1]
<1>1. s \in [1..PoolCapacity -> Node] /\ PoolCapacity \in Nat
  BY PoolAssumption DEF Node
<1>2. s \in Seq(Node) /\ Len(s) = PoolCapacity /\ DOMAIN s = 1..PoolCapacity
  BY <1>1
<1> QED BY <1>2, PoolAssumption DEF At, NoNode

(* A fresh book and a fresh pool satisfy it. *)
LEMMA NodesInvInit == NodesInit => NodesInv
<1> SUFFICES ASSUME NodesInit PROVE NodesInv
  OBVIOUS
<1> USE PoolAssumption, WidthAssumption, LevelAssumption
<1>1. TypeOK
  BY FreshFreeList DEF NodesInit, TypeOK, Node, NoNode, Quantity
<1>2. LinksSpellQueues
  BY DEF NodesInit, LinksSpellQueues, At
<1>3. FreeListIsExact
  BY FreshFreeList DEF NodesInit, FreeListIsExact, Node
<1>4. QueuedOnce /\ HeldIsOut
  BY DEF NodesInit, QueuedOnce, HeldIsOut
<1> QED BY <1>1, <1>2, <1>3, <1>4, Places DEF NodesInv

(* The pool hands out a slot that is in no level. *)
LEMMA AllocatePreserves == ASSUME NodesInv, Allocate PROVE NodesInv'
<1> DEFINE n == freeHead
<1>1. TypeOK /\ LinksSpellQueues /\ FreeListIsExact /\ QueuedOnce /\ HeldIsOut
  BY Places DEF NodesInv
<1>2. /\ n \in Node /\ n = spare[1] /\ Len(spare) >= 1 /\ spare # <<>>
      /\ link[n] = At(spare, 2) /\ ~inUse[n]
  <2>1. n # NoNode /\ n = At(spare, 1)
    BY <1>1 DEF Allocate, FreeListIsExact
  <2>2. 1 \in 1..Len(spare) /\ n = spare[1]
    BY <1>1, <2>1, Elements, AtCases
  <2> QED BY <1>1, <2>2, Elements DEF FreeListIsExact
<1>3. /\ Tail(spare) \in Seq(Node) /\ Len(Tail(spare)) = Len(spare) - 1
      /\ DOMAIN Tail(spare) = 1..(Len(spare) - 1)
      /\ \A i \in 1..(Len(spare) - 1) : Tail(spare)[i] = spare[i + 1]
  BY <1>1, <1>2, Elements, HeadTailProperties, LenProperties
<1>4. \A l \in Level : \A i \in 1..Len(queue[l]) : queue[l][i] # n
  BY <1>1, <1>2, Elements DEF QueuedOnce
<1>5. /\ level' = [level EXCEPT ![n] = NoLevel]
      /\ prev' = [prev EXCEPT ![n] = NoNode] /\ next' = [next EXCEPT ![n] = NoNode]
      /\ qty' = [qty EXCEPT ![n] = 0] /\ inUse' = [inUse EXCEPT ![n] = TRUE]
      /\ freeHead' = link[n] /\ poolSize' = poolSize + 1 /\ held' = n /\ spare' = Tail(spare)
      /\ head' = head /\ tail' = tail /\ count' = count /\ total' = total
      /\ link' = link /\ queue' = queue
  BY DEF Allocate, levels
<1>6. TypeOK'
  <2>1. poolSize + Len(spare) = PoolCapacity /\ poolSize + 1 \in 0..PoolCapacity
    BY <1>1, <1>2, Elements, PoolAssumption DEF FreeListIsExact, TypeOK
  <2>2. link[n] \in Node \cup {NoNode} /\ 0 \in Quantity
    BY <1>1, <1>2, WidthAssumption DEF TypeOK, Quantity
  <2> QED BY <1>1, <1>2, <1>3, <1>5, <2>1, <2>2 DEF TypeOK
<1>7. \A x \in Node : x # n => /\ level'[x] = level[x] /\ prev'[x] = prev[x]
                              /\ next'[x] = next[x] /\ inUse'[x] = inUse[x]
  BY <1>1, <1>5 DEF TypeOK
<1>8. LinksSpellQueues'
  <2> SUFFICES ASSUME NEW l \in Level PROVE Spells(l, queue[l])'
    BY Links
  <2>1. Spells(l, queue[l])
    BY <1>1, Links
  <2>2. \A i \in DOMAIN queue[l] : queue[l][i] \in Node /\ queue[l][i] # n
    BY <1>1, <1>4, Elements
  <2> QED BY <1>5, <1>7, <2>1, <2>2 DEF Spells, At
<1>9. FreeListIsExact'
  <2>1. \A i \in 1..(Len(spare) - 1) : At(spare, i + 2) = At(Tail(spare), i + 1)
    BY <1>1, <1>3, Elements DEF At
  <2>2. At(spare, 2) = At(Tail(spare), 1)
    BY <1>1, <1>3, Elements DEF At
  <2>3. \A i \in 1..(Len(spare) - 1) : spare[i + 1] # n /\ spare[i + 1] \in Node
    BY <1>1, <1>2, Elements DEF FreeListIsExact
  <2>4. \A i \in 1..(Len(spare) - 1) : link[spare[i + 1]] = At(spare, i + 2) /\ ~inUse[spare[i + 1]]
    BY <1>1, Elements DEF FreeListIsExact
  <2>5. \A i, j \in 1..(Len(spare) - 1) : spare[i + 1] = spare[j + 1] => i = j
    BY <1>1, Elements DEF FreeListIsExact
  <2>6. poolSize' + Len(Tail(spare)) = PoolCapacity
    BY <1>1, <1>3, Elements DEF Allocate, FreeListIsExact, TypeOK
  <2> QED
    <3>1. \A i \in DOMAIN spare' : link'[spare'[i]] = At(spare', i + 1) /\ ~inUse'[spare'[i]]
      <4> SUFFICES ASSUME NEW i \in 1..(Len(spare) - 1)
                   PROVE  link'[spare'[i]] = At(spare', i + 1) /\ ~inUse'[spare'[i]]
        BY <1>3, <1>5
      <4>1. spare'[i] = spare[i + 1] /\ link' = link
        BY <1>3, <1>5
      <4>2. link[spare[i + 1]] = At(spare', i + 1)
        BY <1>5, <2>1, <2>4
      <4>3. ~inUse[spare[i + 1]] /\ inUse'[spare[i + 1]] = inUse[spare[i + 1]]
        BY <1>7, <2>3, <2>4
      <4> QED BY <4>1, <4>2, <4>3
    <3>2. \A i, j \in DOMAIN spare' : spare'[i] = spare'[j] => i = j
      <4>1. \A i, j \in 1..(Len(spare) - 1) : Tail(spare)[i] = Tail(spare)[j] => i = j
        BY <1>3, <2>5
      <4> QED BY <1>3, <1>5, <4>1
    <3>3. freeHead' = At(spare', 1)
      BY <1>2, <1>5, <2>2
    <3> QED BY <1>5, <2>6, <3>1, <3>2, <3>3 DEF FreeListIsExact, At
<1>10. QueuedOnce' /\ HeldIsOut'
  BY <1>1, <1>2, <1>4, <1>5, <1>7, Elements DEF QueuedOnce, HeldIsOut, TypeOK
<1> QED BY <1>6, <1>8, <1>9, <1>10, Places DEF NodesInv

(* A node that leaves its level takes its place in the chain with it.      *)
LEMMA UnlinkPreserves ==
  ASSUME NodesInv, NEW l \in Level, NEW i \in DOMAIN queue[l], Unlink(queue[l][i], l),
         queue' = [queue EXCEPT ![l] = RemoveAt(@, i)]
  PROVE  /\ LinksSpellQueues'
         /\ level' \in [Node -> Level \cup {NoLevel}]
         /\ prev' \in [Node -> Node \cup {NoNode}] /\ next' \in [Node -> Node \cup {NoNode}]
         /\ head' \in [Level -> Node \cup {NoNode}] /\ tail' \in [Level -> Node \cup {NoNode}]
         /\ count' \in [Level -> Nat]
         /\ queue' \in [Level -> Seq(Node)]
<1> DEFINE q == queue[l]
           r == RemoveAt(q, i)
           n == q[i]
           m == Len(q)
<1>1. TypeOK /\ LinksSpellQueues /\ FreeListIsExact /\ QueuedOnce /\ HeldIsOut
  BY Places DEF NodesInv
<1>2. /\ q \in Seq(Node) /\ m \in Nat /\ i \in 1..m /\ DOMAIN q = 1..m
      /\ \A j \in 1..m : q[j] \in Node
      /\ n \in Node
  BY <1>1, Elements
<1>3. /\ r \in Seq(Node) /\ Len(r) = m - 1 /\ DOMAIN r = 1..(m - 1)
      /\ \A j \in 1..(m - 1) : r[j] = IF j < i THEN q[j] ELSE q[j + 1]
  <2>1. /\ r \in Seq(Node) /\ Len(r) = m - 1
        /\ \A j \in DOMAIN r : r[j] = IF j < i THEN q[j] ELSE q[j + 1]
    BY <1>2, RemoveAtProperties
  <2>2. DOMAIN r = 1..(m - 1)
    BY <2>1, LenProperties
  <2> QED BY <2>1, <2>2
<1>4. \A j \in Int : /\ At(q, j) = IF j \in 1..m THEN q[j] ELSE NoNode
                     /\ At(r, j) = IF j \in 1..(m - 1) THEN r[j] ELSE NoNode
  BY <1>2, <1>3 DEF At
<1>5. Spells(l, q)
  BY <1>1, Links
<1>6. \A j, k \in 1..m : q[j] = q[k] => j = k
  BY <1>1, <1>2 DEF QueuedOnce
<1>7. \A j \in 1..m : /\ level[q[j]] = l
                      /\ next[q[j]] = IF j = m THEN NoNode ELSE q[j + 1]
                      /\ prev[q[j]] = IF j = 1 THEN NoNode ELSE q[j - 1]
  <2> TAKE j \in 1..m
  <2>1. /\ At(q, j + 1) = IF j = m THEN NoNode ELSE q[j + 1]
        /\ At(q, j - 1) = IF j = 1 THEN NoNode ELSE q[j - 1]
    <3>1. /\ j + 1 \in Int /\ (j + 1 \in 1..m <=> j # m)
          /\ j - 1 \in Int /\ (j - 1 \in 1..m <=> j # 1)
      BY <1>2
    <3> HIDE DEF q, m
    <3> QED BY <1>4, <3>1
  <2>2. level[q[j]] = l /\ next[q[j]] = At(q, j + 1) /\ prev[q[j]] = At(q, j - 1)
    BY <1>2, <1>5 DEF Spells
  <2> QED BY <2>1, <2>2
<1>8. /\ head[l] = q[1] /\ tail[l] = q[m] /\ count[l] = m
      /\ prev[n] = NoNode <=> i = 1
      /\ next[n] = NoNode <=> i = m
  <2>1. At(q, 1) = q[1] /\ At(q, m) = q[m]
    BY <1>2, <1>4
  <2>2. NoNode \notin Node
    BY <1>1, Elements
  <2>3. head[l] = q[1] /\ tail[l] = q[m] /\ count[l] = m
    BY <1>5, <2>1 DEF Spells
  <2>4. prev[n] = NoNode <=> i = 1
    <3>1. i # 1 => q[i - 1] \in Node
      BY <1>2
    <3> QED BY <1>2, <1>7, <2>2, <3>1
  <2>5. next[n] = NoNode <=> i = m
    <3>1. i # m => q[i + 1] \in Node
      BY <1>2
    <3> QED BY <1>2, <1>7, <2>2, <3>1
  <2> QED BY <2>3, <2>4, <2>5
<1> HIDE DEF q, r, n, m
<1>9. /\ next' = IF i = 1 THEN [next EXCEPT ![n] = NoNode]
                ELSE [[next EXCEPT ![n] = NoNode] EXCEPT ![prev[n]] = next[n]]
      /\ prev' = IF i = m THEN [prev EXCEPT ![n] = NoNode]
                ELSE [[prev EXCEPT ![n] = NoNode] EXCEPT ![next[n]] = prev[n]]
      /\ head' = IF i = 1 THEN [head EXCEPT ![l] = next[n]] ELSE head
      /\ tail' = IF i = m THEN [tail EXCEPT ![l] = prev[n]] ELSE tail
      /\ level' = [level EXCEPT ![n] = NoLevel]
      /\ count' = [count EXCEPT ![l] = @ - 1]
  BY <1>8, Zenon DEF Unlink, n, q
<1>10. /\ next[n] \in Node \cup {NoNode} /\ prev[n] \in Node \cup {NoNode}
       /\ i # 1 => prev[n] = q[i - 1] /\ prev[n] \in Node
       /\ i # m => next[n] = q[i + 1] /\ next[n] \in Node
  BY <1>1, <1>2, <1>7 DEF TypeOK, n
<1>11. /\ level' \in [Node -> Level \cup {NoLevel}]
       /\ prev' \in [Node -> Node \cup {NoNode}] /\ next' \in [Node -> Node \cup {NoNode}]
       /\ head' \in [Level -> Node \cup {NoNode}] /\ tail' \in [Level -> Node \cup {NoNode}]
  BY <1>1, <1>2, <1>10, <1>9 DEF TypeOK
<1>12. count' \in [Level -> Nat] /\ queue' \in [Level -> Seq(Node)]
  <2>1. count[l] - 1 \in Nat
    BY <1>2, <1>8
  <2>2. queue' = [queue EXCEPT ![l] = r]
    BY DEF q, r
  <2> QED BY <1>1, <1>3, <1>9, <2>1, <2>2 DEF TypeOK
<1>13. /\ level'[n] = NoLevel
       /\ \A x \in Node :
            x # n => /\ level'[x] = level[x]
                     /\ next'[x] = IF i # 1 /\ x = q[i - 1] THEN next[n] ELSE next[x]
                     /\ prev'[x] = IF i # m /\ x = q[i + 1] THEN prev[n] ELSE prev[x]
       /\ head'[l] = IF i = 1 THEN next[n] ELSE head[l]
       /\ tail'[l] = IF i = m THEN prev[n] ELSE tail[l]
       /\ count'[l] = m - 1
  BY <1>1, <1>2, <1>8, <1>10, <1>9 DEF TypeOK
<1>14. Spells(l, queue[l])'
  <2>1. queue'[l] = r
    BY <1>1 DEF TypeOK, q, r
  <2>2. head'[l] = At(r, 1)
    BY <1>2, <1>3, <1>7, <1>8, <1>13, <1>4 DEF n
  <2>3. tail'[l] = At(r, m - 1)
    BY <1>2, <1>3, <1>7, <1>8, <1>13, <1>4 DEF n
  <2>4. ASSUME NEW j \in 1..(m - 1)
        PROVE  level'[r[j]] = l /\ next'[r[j]] = At(r, j + 1) /\ prev'[r[j]] = At(r, j - 1)
    <3> DEFINE h == IF j < i THEN j ELSE j + 1
    <3>1. h \in 1..m /\ h # i /\ r[j] = q[h] /\ q[h] \in Node /\ q[h] # n
      BY <1>2, <1>3, <1>6 DEF n
    <3>2. level'[r[j]] = l
      BY <1>7, <1>13, <3>1
    <3>3. next'[r[j]] = At(r, j + 1)
      <4>1. CASE h = i - 1
        <5>1. i # 1 /\ q[h] = q[i - 1] /\ j = i - 1
          BY <1>2, <3>1, <4>1
        <5>2. next'[r[j]] = IF i = m THEN NoNode ELSE q[i + 1]
          BY <1>2, <1>7, <1>13, <3>1, <5>1 DEF n
        <5>3. i # m => j + 1 \in 1..(m - 1) /\ r[j + 1] = q[i + 1]
          BY <1>2, <1>3, <5>1
        <5>4. i = m => j + 1 \notin 1..(m - 1)
          BY <1>2, <5>1
        <5> QED BY <1>4, <5>2, <5>3, <5>4
      <4>2. CASE h # i - 1
        <5>1. i # 1 => q[h] # q[i - 1]
          BY <1>2, <1>6, <3>1, <4>2
        <5>2. next'[r[j]] = IF h = m THEN NoNode ELSE q[h + 1]
          BY <1>7, <1>13, <3>1, <5>1
        <5>3. h = m <=> j + 1 \notin 1..(m - 1)
          BY <1>2, <3>1, <4>2
        <5>4. h # m => r[j + 1] = q[h + 1]
          BY <1>2, <1>3, <3>1, <4>2
        <5> QED BY <1>4, <5>2, <5>3, <5>4
      <4> QED BY <4>1, <4>2
    <3>4. prev'[r[j]] = At(r, j - 1)
      <4>1. CASE h = i + 1
        <5>1. i # m /\ q[h] = q[i + 1] /\ j = i
          BY <1>2, <3>1, <4>1
        <5>2. prev'[r[j]] = IF i = 1 THEN NoNode ELSE q[i - 1]
          BY <1>2, <1>7, <1>13, <3>1, <5>1 DEF n
        <5>3. i # 1 => j - 1 \in 1..(m - 1) /\ r[j - 1] = q[i - 1]
          BY <1>2, <1>3, <5>1
        <5>4. i = 1 => j - 1 \notin 1..(m - 1)
          BY <5>1
        <5> QED BY <1>4, <5>2, <5>3, <5>4
      <4>2. CASE h # i + 1
        <5>1. i # m => q[h] # q[i + 1]
          BY <1>2, <1>6, <3>1, <4>2
        <5>2. prev'[r[j]] = IF h = 1 THEN NoNode ELSE q[h - 1]
          BY <1>7, <1>13, <3>1, <5>1
        <5>3. h = 1 <=> j - 1 \notin 1..(m - 1)
          BY <1>2, <3>1, <4>2
        <5>4. h # 1 => r[j - 1] = q[h - 1]
          BY <1>2, <1>3, <3>1, <4>2
        <5> QED BY <1>4, <5>2, <5>3, <5>4
      <4> QED BY <4>1, <4>2
    <3> QED BY <3>2, <3>3, <3>4
  <2> QED BY <1>3, <1>13, <2>1, <2>2, <2>3, <2>4 DEF Spells
<1>15. ASSUME NEW k \in Level, k # l PROVE Spells(k, queue[k])'
  <2>1. queue'[k] = queue[k] /\ head'[k] = head[k] /\ tail'[k] = tail[k] /\ count'[k] = count[k]
    BY <1>1, <1>15 DEF Unlink, TypeOK
  <2>2. \A j \in DOMAIN queue[k] : \A h \in 1..m : queue[k][j] # q[h]
    BY <1>1, <1>2, <1>15 DEF QueuedOnce, q
  <2>3. \A j \in DOMAIN queue[k] :
          LET x == queue[k][j]
          IN level'[x] = level[x] /\ next'[x] = next[x] /\ prev'[x] = prev[x]
    <3> TAKE j \in DOMAIN queue[k]
    <3>1. queue[k][j] \in Node /\ \A h \in 1..m : queue[k][j] # q[h]
      BY <1>1, <2>2, Elements
    <3>2. queue[k][j] # n /\ (i # 1 => queue[k][j] # q[i - 1]) /\ (i # m => queue[k][j] # q[i + 1])
      BY <1>2, <3>1 DEF n
    <3> QED BY <1>13, <3>1, <3>2
  <2>4. Spells(k, queue[k])
    BY <1>1, Links
  <2> QED BY <2>1, <2>3, <2>4 DEF Spells
<1> QED BY <1>11, <1>12, <1>14, <1>15, Links

(* The queues without that node: no other one is lost or doubled.          *)
LEMMA QueuesShrink ==
  ASSUME TypeOK, QueuedOnce, NEW l \in Level, NEW i \in DOMAIN queue[l],
         queue' = [queue EXCEPT ![l] = RemoveAt(@, i)]
  PROVE  /\ \A k \in Level : \A j \in DOMAIN queue'[k] :
              /\ queue'[k][j] \in Node /\ queue'[k][j] # queue[l][i]
              /\ inUse[queue'[k][j]] /\ queue'[k][j] # held
         /\ \A k, k2 \in Level : \A j \in DOMAIN queue'[k], j2 \in DOMAIN queue'[k2] :
              queue'[k][j] = queue'[k2][j2] => k = k2 /\ j = j2
<1> DEFINE From(k, j) == IF k # l \/ j < i THEN j ELSE j + 1
<1>1. queue'[l] = RemoveAt(queue[l], i) /\ \A k \in Level : k # l => queue'[k] = queue[k]
  BY DEF TypeOK
<1>2. ASSUME NEW k \in Level, NEW j \in DOMAIN queue'[k]
      PROVE  /\ From(k, j) \in DOMAIN queue[k] /\ queue'[k][j] = queue[k][From(k, j)]
             /\ k = l => From(k, j) # i
             /\ j \in Int
  <2>1. CASE k = l
    <3>1. queue[l] \in Seq(Node) /\ Len(queue[l]) \in Nat /\ DOMAIN queue[l] = 1..Len(queue[l])
      BY Elements
    <3>2. /\ RemoveAt(queue[l], i) \in Seq(Node) /\ Len(RemoveAt(queue[l], i)) = Len(queue[l]) - 1
          /\ \A h \in DOMAIN RemoveAt(queue[l], i) :
               RemoveAt(queue[l], i)[h] = IF h < i THEN queue[l][h] ELSE queue[l][h + 1]
      BY <3>1, RemoveAtProperties
    <3>3. DOMAIN RemoveAt(queue[l], i) = 1..(Len(queue[l]) - 1)
      BY <3>2, LenProperties
    <3> QED BY <1>1, <2>1, <3>1, <3>2, <3>3
  <2>2. CASE k # l
    BY <1>1, <2>2, Elements
  <2> QED BY <2>1, <2>2
<1>3. ASSUME NEW k \in Level, NEW j \in DOMAIN queue'[k]
      PROVE  /\ queue'[k][j] \in Node /\ queue'[k][j] # queue[l][i]
             /\ inUse[queue'[k][j]] /\ queue'[k][j] # held
  <2>1. From(k, j) \in DOMAIN queue[k] /\ queue'[k][j] = queue[k][From(k, j)] /\ (k = l => From(k, j) # i)
    BY <1>2
  <2> HIDE DEF From
  <2>2. queue[k][From(k, j)] \in Node
    BY <2>1, Elements
  <2> QED BY <2>1, <2>2 DEF QueuedOnce
<1>4. ASSUME NEW k \in Level, NEW k2 \in Level,
             NEW j \in DOMAIN queue'[k], NEW j2 \in DOMAIN queue'[k2],
             queue'[k][j] = queue'[k2][j2]
      PROVE  k = k2 /\ j = j2
  <2>1. /\ From(k, j) \in DOMAIN queue[k] /\ queue'[k][j] = queue[k][From(k, j)]
        /\ From(k2, j2) \in DOMAIN queue[k2] /\ queue'[k2][j2] = queue[k2][From(k2, j2)]
        /\ j \in Int /\ j2 \in Int
    BY <1>2
  <2>2. k = k2 /\ From(k, j) = From(k2, j2)
    <3> HIDE DEF From
    <3> QED BY <1>4, <2>1 DEF QueuedOnce
  <2> QED BY <2>1, <2>2, Elements
<1> QED BY <1>3, <1>4

(* A slot given back becomes the first of the free list.                   *)
LEMMA FreedPreserves ==
  ASSUME TypeOK, FreeListIsExact, NEW n \in Node, inUse[n], Freed(n)
  PROVE  /\ FreeListIsExact'
         /\ link' \in [Node -> Node \cup {NoNode}] /\ inUse' \in [Node -> BOOLEAN]
         /\ freeHead' \in Node \cup {NoNode} /\ poolSize' \in 0..PoolCapacity
         /\ spare' \in Seq(Node)
         /\ \A x \in Node : x # n => inUse'[x] = inUse[x]
<1>1. /\ link' = [link EXCEPT ![n] = freeHead] /\ inUse' = [inUse EXCEPT ![n] = FALSE]
      /\ freeHead' = n /\ poolSize' = poolSize - 1 /\ spare' = <<n>> \o spare
  BY DEF Freed
<1>2. /\ spare' \in Seq(Node) /\ Len(spare') = Len(spare) + 1 /\ Len(spare) \in Nat
      /\ DOMAIN spare' = 1..(Len(spare) + 1)
      /\ \A i \in 1..(Len(spare) + 1) : spare'[i] = IF i = 1 THEN n ELSE spare[i - 1]
  <2>1. /\ <<n>> \o spare \in Seq(Node) /\ Len(<<n>> \o spare) = Len(spare) + 1
        /\ \A i \in 1..(Len(spare) + 1) : (<<n>> \o spare)[i] = IF i = 1 THEN n ELSE spare[i - 1]
    BY PushProperties, Elements
  <2>2. DOMAIN (<<n>> \o spare) = 1..(Len(spare) + 1)
    BY <2>1, LenProperties
  <2> QED BY <1>1, <2>1, <2>2, Elements
<1>3. poolSize \in 1..PoolCapacity /\ PoolCapacity \in Nat
  BY SomeSlotUsed, PoolAssumption
<1>4. \A i \in 1..Len(spare) : /\ spare[i] \in Node /\ spare[i] # n
                               /\ link[spare[i]] = At(spare, i + 1) /\ ~inUse[spare[i]]
  BY Elements DEF FreeListIsExact
<1>5. \A i \in 1..Len(spare) : link'[spare[i]] = link[spare[i]] /\ ~inUse'[spare[i]]
  BY <1>1, <1>4 DEF TypeOK
<1>6. \A i \in 0..Len(spare) : At(spare', i + 2) = At(spare, i + 1)
  <2> TAKE i \in 0..Len(spare)
  <2>1. DOMAIN spare = 1..Len(spare)
    BY Elements
  <2>2. CASE i = Len(spare)
    <3>1. i + 2 \notin DOMAIN spare' /\ i + 1 \notin DOMAIN spare
      BY <1>2, <2>1, <2>2
    <3> QED BY <3>1 DEF At
  <2>3. CASE i # Len(spare)
    <3> DEFINE m == Len(spare)
    <3>0. i \in 0..m /\ i # m /\ m \in Nat
      BY <1>2, <2>3
    <3>1. /\ i + 2 \in DOMAIN spare' /\ i + 1 \in DOMAIN spare
          /\ i + 2 # 1 /\ (i + 2) - 1 = i + 1
      <4> HIDE DEF m
      <4>1. i + 2 \in 1..(m + 1) /\ i + 1 \in 1..m /\ i + 2 # 1 /\ (i + 2) - 1 = i + 1
        BY <3>0
      <4> QED BY <1>2, <2>1, <4>1 DEF m
    <3>2. spare'[i + 2] = spare[i + 1]
      BY <1>2, <3>1
    <3> QED BY <3>1, <3>2 DEF At
  <2> QED BY <2>2, <2>3
<1>7. FreeListIsExact'
  <2>1. freeHead' = At(spare', 1) /\ poolSize' + Len(spare') = PoolCapacity
    BY <1>1, <1>2, <1>3 DEF At, FreeListIsExact
  <2>2. ASSUME NEW i \in DOMAIN spare'
        PROVE  link'[spare'[i]] = At(spare', i + 1) /\ ~inUse'[spare'[i]]
    <3>1. CASE i = 1
      <4>1. spare'[1] = n /\ At(spare', 2) = At(spare, 1)
        BY <1>2, <1>6
      <4>2. link'[n] = freeHead /\ ~inUse'[n]
        BY <1>1 DEF TypeOK
      <4> QED BY <3>1, <4>1, <4>2 DEF FreeListIsExact
    <3>2. CASE i # 1
      <4>1. i - 1 \in 1..Len(spare) /\ spare'[i] = spare[i - 1]
        BY <1>2, <3>2
      <4>2. At(spare', i + 1) = At(spare, (i - 1) + 1)
        <5>1. (i - 1) + 2 = i + 1
          BY <1>2, <2>2
        <5> QED BY <1>6, <4>1, <5>1
      <4> QED BY <1>4, <1>5, <4>1, <4>2
    <3> QED BY <3>1, <3>2
  <2>3. \A i, j \in DOMAIN spare' : spare'[i] = spare'[j] => i = j
    <3>1. \A i, j \in 1..Len(spare) : spare[i] = spare[j] => i = j
      BY Elements DEF FreeListIsExact
    <3>2. \A i \in 1..(Len(spare) + 1) :
            \/ i = 1 /\ spare'[i] = n
            \/ i - 1 \in 1..Len(spare) /\ spare'[i] = spare[i - 1] /\ spare[i - 1] # n
      BY <1>2, <1>4
    <3>3. ASSUME NEW i \in 1..(Len(spare) + 1), NEW j \in 1..(Len(spare) + 1), spare'[i] = spare'[j]
          PROVE  i = j
      <4>1. CASE i = 1 \/ j = 1
        BY <3>2, <3>3, <4>1
      <4>2. CASE i # 1 /\ j # 1
        <5>1. /\ i - 1 \in 1..Len(spare) /\ spare'[i] = spare[i - 1]
              /\ j - 1 \in 1..Len(spare) /\ spare'[j] = spare[j - 1]
          BY <3>2, <4>2
        <5>2. i - 1 = j - 1
          BY <3>1, <3>3, <5>1
        <5> QED BY <5>2
      <4> QED BY <4>1, <4>2
    <3> QED BY <1>2, <3>3
  <2> QED BY <2>1, <2>2, <2>3 DEF FreeListIsExact
<1>8. /\ link' \in [Node -> Node \cup {NoNode}] /\ inUse' \in [Node -> BOOLEAN]
      /\ freeHead' \in Node \cup {NoNode}
  BY <1>1 DEF TypeOK
<1>9. poolSize' \in 0..PoolCapacity
  BY <1>1, <1>3
<1>10. \A x \in Node : x # n => inUse'[x] = inUse[x]
  BY <1>1 DEF TypeOK
<1> QED BY <1>2, <1>7, <1>8, <1>9, <1>10

(* The node in hand becomes the last of a level it was not in.             *)
LEMMA RestPreserves == ASSUME NodesInv, NEW l \in Level, NEW q \in Quantity, Rest(l, q) PROVE NodesInv'
<1> DEFINE n == held
           s == queue[l]
           m == Len(s)
<1>1. TypeOK /\ LinksSpellQueues /\ FreeListIsExact /\ QueuedOnce /\ HeldIsOut
  BY Places DEF NodesInv
<1>2. /\ s \in Seq(Node) /\ m \in Nat /\ DOMAIN s = 1..m
      /\ \A j \in 1..m : s[j] \in Node /\ s[j] # n
      /\ NoNode \notin Node
  BY <1>1, Elements DEF QueuedOnce
<1>3. n \in Node /\ inUse[n] /\ Appendable(n, l, q)
  BY <1>1 DEF Rest, HeldIsOut, TypeOK
<1>4. Spells(l, s)
  BY <1>1, Links
<1>5. /\ tail[l] = NoNode <=> m = 0
      /\ m # 0 => tail[l] = s[m]
      /\ count[l] = m
      /\ m # 0 => head[l] = s[1]
  <2>1. m = 0 => At(s, m) = NoNode
    BY <1>2 DEF At
  <2>2. m # 0 => At(s, m) = s[m] /\ At(s, m) # NoNode /\ At(s, 1) = s[1]
    BY <1>2 DEF At
  <2> QED BY <1>4, <2>1, <2>2 DEF Spells
<1>6. /\ Append(s, n) \in Seq(Node) /\ Len(Append(s, n)) = m + 1
      /\ DOMAIN Append(s, n) = 1..(m + 1)
      /\ \A j \in 1..(m + 1) : Append(s, n)[j] = IF j = m + 1 THEN n ELSE s[j]
  <2>1. /\ Append(s, n) \in Seq(Node) /\ Len(Append(s, n)) = m + 1
        /\ \A j \in 1..m : Append(s, n)[j] = s[j]
        /\ Append(s, n)[m + 1] = n
    BY <1>2, <1>3, AppendProperties
  <2>2. DOMAIN Append(s, n) = 1..(m + 1)
    BY <2>1, LenProperties
  <2> QED BY <1>2, <2>1, <2>2
<1>7. /\ level' = [level EXCEPT ![n] = l] /\ prev' = [prev EXCEPT ![n] = tail[l]]
      /\ next' = IF m = 0 THEN next ELSE [next EXCEPT ![s[m]] = n]
      /\ qty' = [qty EXCEPT ![n] = q]
      /\ head' = IF m = 0 THEN [head EXCEPT ![l] = n] ELSE head
      /\ tail' = [tail EXCEPT ![l] = n] /\ count' = [count EXCEPT ![l] = @ + 1]
      /\ total' = [total EXCEPT ![l] = @ + q]
      /\ held' = NoNode /\ queue' = [queue EXCEPT ![l] = Append(s, n)]
      /\ link' = link /\ inUse' = inUse /\ freeHead' = freeHead /\ poolSize' = poolSize
      /\ spare' = spare
  BY <1>5, Zenon DEF Rest, pool
<1> HIDE DEF n, s, m
<1>8. /\ queue'[l] = Append(s, n)
      /\ \A k \in Level : k # l => /\ queue'[k] = queue[k] /\ head'[k] = head[k]
                                  /\ tail'[k] = tail[k] /\ count'[k] = count[k]
      /\ head'[l] = IF m = 0 THEN n ELSE s[1]
      /\ tail'[l] = n /\ count'[l] = m + 1
      /\ level'[n] = l
      /\ prev'[n] = IF m = 0 THEN NoNode ELSE s[m]
      /\ m # 0 => next'[s[m]] = n
      /\ \A x \in Node : x # n => level'[x] = level[x] /\ prev'[x] = prev[x]
      /\ \A x \in Node : m = 0 \/ x # s[m] => next'[x] = next[x]
  BY <1>1, <1>2, <1>3, <1>5, <1>7 DEF TypeOK
<1>9. TypeOK'
  <2>1. total[l] + q \in 0..MaxQuantity /\ count[l] + 1 \in Nat
    BY <1>1, <1>2, <1>3, <1>5, WidthAssumption DEF Appendable, TypeOK, Quantity
  <2>2. tail[l] \in Node \cup {NoNode}
    BY <1>1 DEF TypeOK
  <2> QED BY <1>1, <1>2, <1>3, <1>6, <1>7, <2>1, <2>2 DEF TypeOK, Quantity
<1>10. Spells(l, queue[l])'
  <2> DEFINE t == Append(s, n)
  <2>1. \A j \in Int : At(t, j) = IF j \in 1..(m + 1) THEN t[j] ELSE NoNode
    BY <1>6 DEF At
  <2>2. \A j \in Int : At(s, j) = IF j \in 1..m THEN s[j] ELSE NoNode
    BY <1>2 DEF At
  <2>3. head'[l] = At(t, 1) /\ tail'[l] = At(t, m + 1)
    BY <1>2, <1>6, <1>8, <2>1
  <2>4. ASSUME NEW j \in 1..m
        PROVE  level'[t[j]] = l /\ next'[t[j]] = At(t, j + 1) /\ prev'[t[j]] = At(t, j - 1)
    <3>1. t[j] = s[j] /\ s[j] \in Node /\ s[j] # n
      BY <1>2, <1>6
    <3>2. level[s[j]] = l /\ next[s[j]] = At(s, j + 1) /\ prev[s[j]] = At(s, j - 1)
      BY <1>2, <1>4 DEF Spells
    <3>3. At(t, j - 1) = At(s, j - 1)
      BY <1>2, <1>6, <2>1, <2>2
    <3>4. next'[s[j]] = At(t, j + 1)
      <4>1. CASE j = m
        BY <1>2, <1>6, <1>8, <2>1, <4>1
      <4>2. CASE j # m
        <5>1. At(t, j + 1) = At(s, j + 1)
          BY <1>2, <1>6, <2>1, <2>2, <4>2
        <5>2. s[j] # s[m]
          BY <1>1, <1>2, <4>2 DEF QueuedOnce, s
        <5> QED BY <1>8, <3>1, <3>2, <5>1, <5>2
      <4> QED BY <4>1, <4>2
    <3> QED BY <1>8, <3>1, <3>2, <3>3, <3>4
  <2>5. /\ level'[t[m + 1]] = l /\ next'[t[m + 1]] = At(t, m + 2)
        /\ prev'[t[m + 1]] = At(t, m)
    <3>1. t[m + 1] = n /\ At(t, m + 2) = NoNode
      BY <1>2, <1>6, <2>1
    <3>2. next'[n] = NoNode
      <4>1. m = 0 \/ n # s[m]
        BY <1>2
      <4> QED BY <1>3, <1>8, <4>1 DEF Appendable
    <3>3. At(t, m) = IF m = 0 THEN NoNode ELSE s[m]
      BY <1>2, <1>6, <2>1
    <3> QED BY <1>8, <3>1, <3>2, <3>3
  <2>6. \A j \in 1..(m + 1) :
          level'[t[j]] = l /\ next'[t[j]] = At(t, j + 1) /\ prev'[t[j]] = At(t, j - 1)
    <3> TAKE j \in 1..(m + 1)
    <3>1. CASE j \in 1..m
      BY <2>4, <3>1
    <3>2. CASE j = m + 1
      <4>1. j + 1 = m + 2 /\ j - 1 = m
        BY <1>2, <3>2
      <4> QED BY <2>5, <3>2, <4>1
    <3> QED BY <1>2, <3>1, <3>2
  <2>7. queue'[l] = t /\ Len(t) = m + 1 /\ DOMAIN t = 1..(m + 1) /\ count'[l] = m + 1
    BY <1>6, <1>8
  <2> HIDE DEF t
  <2> QED BY <2>3, <2>6, <2>7 DEF Spells
<1>11. ASSUME NEW k \in Level, k # l PROVE Spells(k, queue[k])'
  <2>1. \A j \in DOMAIN queue[k] :
          LET x == queue[k][j]
          IN x \in Node /\ x # n /\ (m # 0 => x # s[m])
    BY <1>1, <1>2, <1>11, Elements DEF QueuedOnce, n, s
  <2>2. Spells(k, queue[k])
    BY <1>1, Links
  <2>3. /\ queue'[k] = queue[k] /\ head'[k] = head[k] /\ tail'[k] = tail[k] /\ count'[k] = count[k]
        /\ \A j \in DOMAIN queue[k] :
             LET x == queue[k][j]
             IN level'[x] = level[x] /\ next'[x] = next[x] /\ prev'[x] = prev[x]
    <3>1. ASSUME NEW x \in Node, x # n, m # 0 => x # s[m]
          PROVE  level'[x] = level[x] /\ next'[x] = next[x] /\ prev'[x] = prev[x]
      BY <1>8, <3>1
    <3> QED BY <1>8, <1>11, <2>1, <3>1
  <2> QED BY <2>2, <2>3 DEF Spells
<1>12. FreeListIsExact' /\ HeldIsOut'
  BY <1>1, <1>7 DEF FreeListIsExact, HeldIsOut, At
<1>13. QueuedOnce'
  <2>1. \A k \in Level : \A j \in DOMAIN queue'[k] :
          \/ k = l /\ j = m + 1 /\ queue'[k][j] = n
          \/ j \in DOMAIN queue[k] /\ queue'[k][j] = queue[k][j]
    <3> TAKE k \in Level
    <3>1. CASE k # l
      BY <1>8, <3>1
    <3>2. CASE k = l
      <4>1. queue'[k] = Append(s, n) /\ queue[k] = s
        BY <1>8, <3>2 DEF s
      <4>2. \A j \in 1..(m + 1) : \/ j = m + 1 /\ Append(s, n)[j] = n
                                  \/ j \in DOMAIN s /\ Append(s, n)[j] = s[j]
        BY <1>2, <1>6
      <4> QED BY <4>1, <4>2, <1>6, <3>2
    <3> QED BY <3>1, <3>2
  <2>2. \A k \in Level : \A j \in DOMAIN queue[k] :
          inUse[queue[k][j]] /\ queue[k][j] # n /\ queue[k][j] # NoNode
    BY <1>1, Elements DEF QueuedOnce, n
  <2>3. ASSUME NEW k \in Level, NEW j \in DOMAIN queue'[k]
        PROVE  inUse'[queue'[k][j]] /\ queue'[k][j] # held'
    BY <1>2, <1>3, <1>7, <2>1, <2>2
  <2>4. ASSUME NEW k \in Level, NEW j \in DOMAIN queue'[k],
               NEW k2 \in Level, NEW j2 \in DOMAIN queue'[k2], queue'[k][j] = queue'[k2][j2]
        PROVE  k = k2 /\ j = j2
    BY <1>1, <2>1, <2>2, <2>4 DEF QueuedOnce
  <2> QED BY <2>3, <2>4 DEF QueuedOnce
<1> QED BY <1>9, <1>10, <1>11, <1>12, <1>13, Links, Places DEF NodesInv

(* An order that leaves its level is in hand; its slot stays in use.       *)
LEMMA LeavePreserves ==
  ASSUME NodesInv, NEW l \in Level, NEW i \in DOMAIN queue[l], Leave(l, i)
  PROVE  NodesInv'
<1> DEFINE n == queue[l][i]
<1>1. TypeOK /\ LinksSpellQueues /\ FreeListIsExact /\ QueuedOnce /\ HeldIsOut
  BY Places DEF NodesInv
<1>2. n \in Node /\ inUse[n] /\ n # NoNode
  BY <1>1, Elements DEF QueuedOnce
<1>3. /\ Unlink(n, l) /\ queue' = [queue EXCEPT ![l] = RemoveAt(@, i)]
      /\ total' = [total EXCEPT ![l] = @ - qty[n]] /\ qty[n] <= total[l]
      /\ held' = n /\ qty' = qty /\ spare' = spare
      /\ link' = link /\ inUse' = inUse /\ freeHead' = freeHead /\ poolSize' = poolSize
  BY DEF Leave, pool
<1> HIDE DEF n
<1>4. total' \in [Level -> Quantity]
  <2>1. total[l] - qty[n] \in Quantity
    BY <1>1, <1>2, <1>3, WidthAssumption DEF TypeOK, Quantity
  <2> QED BY <1>1, <1>3, <2>1 DEF TypeOK
<1>5. LinksSpellQueues'
  BY <1>3, UnlinkPreserves DEF n
<1>6. TypeOK'
  BY <1>1, <1>2, <1>3, <1>4, UnlinkPreserves DEF TypeOK, n
<1>7. FreeListIsExact'
  BY <1>1, <1>3 DEF FreeListIsExact, At
<1>8. QueuedOnce'
  <2>1. /\ \A k \in Level : \A j \in DOMAIN queue'[k] :
             /\ queue'[k][j] \in Node /\ queue'[k][j] # n
             /\ inUse[queue'[k][j]] /\ queue'[k][j] # held
        /\ \A k, k2 \in Level : \A j \in DOMAIN queue'[k], j2 \in DOMAIN queue'[k2] :
             queue'[k][j] = queue'[k2][j2] => k = k2 /\ j = j2
    BY <1>1, <1>3, QueuesShrink DEF n
  <2> QED BY <1>3, <2>1 DEF QueuedOnce
<1>9. HeldIsOut'
  BY <1>1, <1>2, <1>3 DEF HeldIsOut, Unlink, TypeOK
<1> QED BY <1>5, <1>6, <1>7, <1>8, <1>9, Places DEF NodesInv

(* Giving back the node in hand leaves every level as it is.               *)
LEMMA ReleasePreserves == ASSUME NodesInv, Release PROVE NodesInv'
<1>1. TypeOK /\ LinksSpellQueues /\ FreeListIsExact /\ QueuedOnce /\ HeldIsOut
  BY Places DEF NodesInv
<1>2. held \in Node /\ inUse[held] /\ Freed(held)
  BY <1>1 DEF Release, HeldIsOut, TypeOK
<1>3. /\ qty' = [qty EXCEPT ![held] = 0] /\ held' = NoNode
      /\ level' = level /\ prev' = prev /\ next' = next /\ queue' = queue
      /\ head' = head /\ tail' = tail /\ count' = count /\ total' = total
  BY DEF Release, levels
<1>4. 0 \in Quantity
  BY WidthAssumption DEF Quantity
<1>5. TypeOK'
  BY <1>1, <1>2, <1>3, <1>4, FreedPreserves DEF TypeOK
<1>6. LinksSpellQueues'
  <2> SUFFICES ASSUME NEW l \in Level PROVE Spells(l, queue[l])'
    BY Links
  <2>1. Spells(l, queue[l])
    BY <1>1, Links
  <2> QED BY <2>1, <1>3 DEF Spells
<1>7. \A l \in Level : \A i \in DOMAIN queue[l] :
        /\ queue[l][i] \in Node /\ queue[l][i] # held /\ queue[l][i] # NoNode
        /\ inUse[queue[l][i]]
  BY <1>1, Elements DEF QueuedOnce
<1>8. \A x \in Node : x # held => inUse'[x] = inUse[x]
  BY <1>1, <1>2, FreedPreserves
<1>9. QueuedOnce'
  BY <1>1, <1>3, <1>7, <1>8 DEF QueuedOnce
<1>10. FreeListIsExact' /\ HeldIsOut'
  BY <1>1, <1>2, <1>3, FreedPreserves DEF HeldIsOut
<1> QED BY <1>5, <1>6, <1>9, <1>10, Places DEF NodesInv

(* Only quantities change. *)
LEMMA QuantitiesPreserve ==
  ASSUME NodesInv, qty' \in [Node -> Quantity], total' \in [Level -> Quantity],
         UNCHANGED <<level, prev, next, head, tail, count, pool, held, queue, spare>>
  PROVE  NodesInv'
<1>1. TypeOK'
  BY DEF NodesInv, TypeOK, pool
<1>2. LinksSpellQueues'
  <2> SUFFICES ASSUME NEW l \in Level PROVE Spells(l, queue[l])'
    BY Links
  <2>1. Spells(l, queue[l])
    BY Links DEF NodesInv
  <2> QED BY <2>1 DEF Spells
<1>3. SlotsHaveOnePlace'
  BY DEF NodesInv, SlotsHaveOnePlace, At, pool
<1> QED BY <1>1, <1>2, <1>3 DEF NodesInv

(* A reduction keeps the order's place. *)
LEMMA ReducePreserves ==
  ASSUME NodesInv, NEW n \in Node, NEW q \in Quantity, Reduce(n, q)
  PROVE  NodesInv'
<1> USE WidthAssumption DEF NodesInv, TypeOK, Quantity
<1>1. level[n] \in Level
  BY DEF Reduce
<1>2. total[level[n]] - (qty[n] - q) \in Quantity
  BY <1>1 DEF Reduce
<1>3. qty' \in [Node -> Quantity] /\ total' \in [Level -> Quantity]
  BY <1>2 DEF Reduce
<1> QED BY <1>3, QuantitiesPreserve DEF Reduce

(* A partial fill keeps the front order in front. *)
LEMMA FillSomePreserves ==
  ASSUME NodesInv, NEW l \in Level, NEW q \in Quantity, FillSome(l, q)
  PROVE  NodesInv'
<1> USE WidthAssumption DEF NodesInv, TypeOK, Quantity
<1>1. head[l] \in Node
  BY DEF FillSome
<1>2. qty[head[l]] - q \in Quantity
  BY <1>1 DEF FillSome
<1>3. (total[l] - q) % Width \in 0..(Width - 1) /\ Width - 1 = MaxQuantity
  <2>1. total[l] - q \in Int /\ Width \in Nat \ {0} /\ Width - 1 = MaxQuantity
    BY DEF Width
  <2> QED BY <2>1, ModRange
<1>4. qty' \in [Node -> Quantity] /\ total' \in [Level -> Quantity]
  BY <1>2, <1>3 DEF FillSome
<1> QED BY <1>4, QuantitiesPreserve DEF FillSome

(* A filled order leaves its level and its slot at once, whatever is in    *)
(* hand meanwhile.                                                         *)
LEMMA FillAllPreserves == ASSUME NodesInv, NEW l \in Level, FillAll(l) PROVE NodesInv'
<1> DEFINE n == queue[l][1]
<1>1. TypeOK /\ LinksSpellQueues /\ FreeListIsExact /\ QueuedOnce /\ HeldIsOut
  BY Places DEF NodesInv
<1>2. 1 \in DOMAIN queue[l] /\ head[l] = n
  <2>1. head[l] = At(queue[l], 1) /\ head[l] # NoNode
    BY <1>1 DEF LinksSpellQueues, FillAll
  <2> QED BY <2>1 DEF At
<1>3. n \in Node /\ inUse[n] /\ n # held /\ n # NoNode
  BY <1>1, <1>2, Elements DEF QueuedOnce
<1>4. /\ Unlink(n, l) /\ queue' = [queue EXCEPT ![l] = RemoveAt(@, 1)]
      /\ Freed(n) /\ held' = held
      /\ qty' = [qty EXCEPT ![n] = 0]
      /\ total' = [total EXCEPT ![l] = (@ - qty[n]) % Width]
  BY <1>2, <1>3 DEF FillAll
<1> HIDE DEF n
<1>5. qty' \in [Node -> Quantity] /\ total' \in [Level -> Quantity]
  <2>1. total[l] - qty[n] \in Int /\ Width \in Nat \ {0} /\ Width - 1 = MaxQuantity
    BY <1>1, <1>3, WidthAssumption DEF TypeOK, Quantity, Width
  <2>2. (total[l] - qty[n]) % Width \in Quantity
    BY <2>1, ModRange DEF Quantity
  <2>3. total' \in [Level -> Quantity]
    BY <1>1, <1>4, <2>2 DEF TypeOK
  <2>4. 0 \in Quantity
    BY WidthAssumption DEF Quantity
  <2>5. qty' \in [Node -> Quantity]
    BY <1>1, <1>4, <2>4 DEF TypeOK
  <2> QED BY <2>3, <2>5
<1>6. LinksSpellQueues'
  BY <1>2, <1>4, UnlinkPreserves DEF n
<1>7. TypeOK'
  <2>1. /\ level' \in [Node -> Level \cup {NoLevel}]
        /\ prev' \in [Node -> Node \cup {NoNode}] /\ next' \in [Node -> Node \cup {NoNode}]
        /\ head' \in [Level -> Node \cup {NoNode}] /\ tail' \in [Level -> Node \cup {NoNode}]
        /\ count' \in [Level -> Nat] /\ queue' \in [Level -> Seq(Node)]
    BY <1>2, <1>4, UnlinkPreserves DEF n
  <2>2. /\ link' \in [Node -> Node \cup {NoNode}] /\ inUse' \in [Node -> BOOLEAN]
        /\ freeHead' \in Node \cup {NoNode} /\ poolSize' \in 0..PoolCapacity
        /\ spare' \in Seq(Node)
    BY <1>1, <1>3, <1>4, FreedPreserves
  <2>3. held' \in Node \cup {NoNode}
    BY <1>1, <1>4 DEF TypeOK
  <2> QED BY <1>5, <2>1, <2>2, <2>3 DEF TypeOK
<1>8. FreeListIsExact' /\ \A x \in Node : x # n => inUse'[x] = inUse[x]
  BY <1>1, <1>3, <1>4, FreedPreserves
<1>9. QueuedOnce'
  <2>1. /\ \A k \in Level : \A j \in DOMAIN queue'[k] :
             /\ queue'[k][j] \in Node /\ queue'[k][j] # n
             /\ inUse[queue'[k][j]] /\ queue'[k][j] # held
        /\ \A k, k2 \in Level : \A j \in DOMAIN queue'[k], j2 \in DOMAIN queue'[k2] :
             queue'[k][j] = queue'[k2][j2] => k = k2 /\ j = j2
    BY <1>1, <1>2, <1>4, QueuesShrink DEF n
  <2> QED BY <1>4, <1>8, <2>1 DEF QueuedOnce
<1>10. HeldIsOut'
  <2>1. ASSUME held # NoNode PROVE inUse'[held] /\ level'[held] = NoLevel
    <3>1. held \in Node /\ inUse[held] /\ level[held] = NoLevel
      BY <1>1, <2>1 DEF HeldIsOut, TypeOK
    <3>2. level'[held] = level[held]
      BY <1>1, <1>3, <1>4, <3>1 DEF Unlink, TypeOK
    <3> QED BY <1>3, <1>8, <3>1, <3>2
  <2> QED BY <1>4, <2>1 DEF HeldIsOut
<1> QED BY <1>6, <1>7, <1>8, <1>9, <1>10, Places DEF NodesInv

(* A cleared book and pool are as good as new, whatever the nodes keep.    *)
LEMMA ClearPreserves == ASSUME NodesInv, ClearNodes PROVE NodesInv'
<1> USE PoolAssumption, WidthAssumption
<1>1. TypeOK'
  <2>1. /\ level \in [Node -> Level \cup {NoLevel}] /\ qty \in [Node -> Quantity]
        /\ prev \in [Node -> Node \cup {NoNode}] /\ next \in [Node -> Node \cup {NoNode}]
    BY DEF NodesInv, TypeOK
  <2>2. UNCHANGED nodes
    BY DEF ClearNodes
  <2> QED BY <2>1, <2>2, FreshFreeList DEF ClearNodes, TypeOK, Node, NoNode, Quantity, nodes
<1>2. LinksSpellQueues'
  BY DEF ClearNodes, LinksSpellQueues, At
<1>3. FreeListIsExact'
  BY FreshFreeList DEF ClearNodes, FreeListIsExact, Node
<1>4. QueuedOnce' /\ HeldIsOut'
  BY DEF ClearNodes, QueuedOnce, HeldIsOut
<1> QED BY <1>1, <1>2, <1>3, <1>4, Places DEF NodesInv

(* Every step preserves the invariant. *)
LEMMA NodesInvNext == NodesInv /\ [NodesNext]_nodesVars => NodesInv'
<1> SUFFICES ASSUME NodesInv, [NodesNext]_nodesVars PROVE NodesInv'
  OBVIOUS
<1>1. \A l \in Level : \A i \in DOMAIN queue[l] : queue[l][i] \in Node
  BY Elements DEF NodesInv
<1>2. ASSUME NEW l \in Level, NEW q \in Quantity, NEW i \in DOMAIN queue[l], Reduce(queue[l][i], q)
      PROVE  NodesInv'
  BY <1>1, <1>2, ReducePreserves
<1>3. CASE UNCHANGED nodesVars
  BY <1>3 DEF nodesVars, nodes, levels, pool, NodesInv, TypeOK, LinksSpellQueues, SlotsHaveOnePlace, At
<1> QED
  BY <1>2, <1>3, AllocatePreserves, RestPreserves, LeavePreserves, ReleasePreserves,
     FillSomePreserves, FillAllPreserves, ClearPreserves DEF NodesNext

(* The inductive invariant holds throughout. *)
THEOREM NodeInvariance == NodesSpec => []NodesInv
<1> QED BY NodesInvInit, NodesInvNext, PTL DEF NodesSpec

(* Forwards from head and backwards from tail, the links of every level    *)
(* always spell its orders in the order of their arrival.                  *)
THEOREM LinksAlwaysSpellQueues == NodesSpec => []LinksSpellQueues
<1>1. NodesInv => LinksSpellQueues
  BY DEF NodesInv
<1> QED BY <1>1, NodeInvariance, PTL

(* No slot of the pool is ever lost, doubled or in two places.             *)
THEOREM SlotsAlwaysHaveOnePlace == NodesSpec => []SlotsHaveOnePlace
<1>1. NodesInv => SlotsHaveOnePlace
  BY DEF NodesInv
<1> QED BY <1>1, NodeInvariance, PTL

-----------------------------------------------------------------------------
(* What the levels hold is what their totals say.                          *)

(* TotalsAreSums, level by level. *)
LEMMA Totals ==
  /\ TotalsAreSums <=> \A l \in Level : total[l] = Added(queue[l], qty)
  /\ TotalsAreSums' <=> \A l \in Level : total'[l] = Added(queue'[l], qty')
BY DEF TotalsAreSums, Added, FoldLeft, MapThenFoldSet

(* Quantities are numbers. *)
LEMMA WholeQuantities ==
  ASSUME TypeOK
  PROVE  Whole(qty, Node) /\ \A n \in Node : qty[n] \in Nat
BY WidthAssumption DEF TypeOK, Quantity, Whole

(* A level keeps its sum if it keeps its orders and they their quantities. *)
LEMMA SameSum ==
  ASSUME TypeOK, NEW l \in Level,
         queue'[l] = queue[l],
         \A j \in DOMAIN queue[l] : qty'[queue[l][j]] = qty[queue[l][j]]
  PROVE  Added(queue'[l], qty') = Added(queue[l], qty)
<1>1. queue[l] \in Seq(Node) /\ Whole(qty, Node)
  BY Elements, WholeQuantities
<1>2. Added(queue[l], qty') = Added(queue[l], qty)
  BY <1>1, AddedAgree
<1> QED BY <1>2

(* A queued order is within its level's total. *)
LEMMA WithinTotal ==
  ASSUME TypeOK, TotalsAreSums, NEW l \in Level, NEW i \in DOMAIN queue[l]
  PROVE  total[l] >= qty[queue[l][i]]
<1>1. queue[l] \in Seq(Node) /\ \A n \in Node : qty[n] \in Nat
  BY Elements, WholeQuantities
<1>2. Added(queue[l], qty) >= qty[queue[l][i]]
  BY <1>1, AddedMember
<1> QED BY <1>2, Totals

(* A level whose order i goes to quantity q changes by the difference; the *)
(* others do not hold that order.                                          *)
LEMMA Requantified ==
  ASSUME NodesInv, TotalsAreSums, NEW l \in Level, NEW i \in DOMAIN queue[l], NEW q \in Quantity,
         qty' = [qty EXCEPT ![queue[l][i]] = q], queue' = queue,
         total' = [total EXCEPT ![l] = @ - (qty[queue[l][i]] - q)]
  PROVE  TotalsAreSums'
<1> DEFINE n == queue[l][i]
<1>1. TypeOK /\ QueuedOnce
  BY Places DEF NodesInv
<1>2. /\ queue[l] \in Seq(Node) /\ n \in Node /\ qty[n] \in Int /\ q \in Int
      /\ Whole(qty, Node)
      /\ \A k \in Level : \A j \in DOMAIN queue[k] : queue[k][j] \in Node
  BY <1>1, Elements, WholeQuantities, WidthAssumption DEF Whole, Quantity
<1>3. /\ qty'[n] = q
      /\ \A x \in Node : x # n => qty'[x] = qty[x]
      /\ Whole(qty', Node)
  BY <1>1, <1>2 DEF TypeOK, Whole
<1>4. \A k \in Level : \A j \in DOMAIN queue[k] : queue[k][j] = n => k = l /\ j = i
  BY <1>1 DEF QueuedOnce
<1> HIDE DEF n
<1>5. ASSUME NEW k \in Level PROVE total'[k] = Added(queue'[k], qty')
  <2>1. CASE k # l
    <3>1. \A j \in DOMAIN queue[k] : qty'[queue[k][j]] = qty[queue[k][j]]
      BY <1>2, <1>3, <1>4, <2>1
    <3>2. total'[k] = total[k]
      BY <1>1, <2>1 DEF TypeOK
    <3> QED BY <1>1, <3>1, <3>2, SameSum, Totals
  <2>2. CASE k = l
    <3>1. \A j \in DOMAIN queue[l] : j # i => qty'[queue[l][j]] = qty[queue[l][j]]
      BY <1>2, <1>3, <1>4
    <3>2. Added(queue[l], qty') = Added(queue[l], qty) + qty'[queue[l][i]] - qty[queue[l][i]]
      <4> DEFINE s == queue[l]
                 f == qty'
      <4>1. s \in Seq(Node) /\ i \in DOMAIN s /\ Whole(qty, Node) /\ Whole(f, Node)
        BY <1>2, <1>3
      <4>2. AgreeBut(f, qty, s, i)
        BY <3>1 DEF AgreeBut
      <4> HIDE DEF s, f
      <4>3. Added(s, f) = Added(s, qty) + f[s[i]] - qty[s[i]]
        BY <4>1, <4>2, AddedUpdate
      <4> QED BY <4>3 DEF s, f
    <3>3. total'[l] = total[l] - (qty[n] - q) /\ total[l] \in Int
      BY <1>1, WidthAssumption DEF TypeOK, Quantity, n
    <3>4. total[l] = Added(queue[l], qty)
      BY Totals
    <3> QED BY <1>2, <1>3, <2>2, <3>2, <3>3, <3>4 DEF n
  <2> QED BY <2>1, <2>2
<1> QED BY <1>5, Totals

(* A level that loses order i loses its quantity, whatever becomes of the  *)
(* quantity itself.                                                        *)
LEMMA LeftLevel ==
  ASSUME NodesInv, TotalsAreSums, NEW l \in Level, NEW i \in DOMAIN queue[l],
         \A x \in Node : x # queue[l][i] => qty'[x] = qty[x],
         queue' = [queue EXCEPT ![l] = RemoveAt(@, i)],
         total' = [total EXCEPT ![l] = @ - qty[queue[l][i]]]
  PROVE  TotalsAreSums'
<1> DEFINE n == queue[l][i]
           r == RemoveAt(queue[l], i)
<1>1. TypeOK /\ QueuedOnce
  BY Places DEF NodesInv
<1>2. queue[l] \in Seq(Node) /\ Whole(qty, Node) /\ r \in Seq(Node)
  BY <1>1, Elements, WholeQuantities, RemoveAtProperties
<1>3. \A k \in Level : \A j \in DOMAIN queue'[k] :
        /\ queue'[k][j] \in Node /\ queue'[k][j] # queue[l][i]
        /\ inUse[queue'[k][j]] /\ queue'[k][j] # held
  <2>1. queue' = [queue EXCEPT ![l] = RemoveAt(@, i)]
    OBVIOUS
  <2> HIDE DEF n, r
  <2> QED BY <1>1, <2>1, QueuesShrink
<1>4. \A k \in Level : queue'[k] = IF k = l THEN r ELSE queue[k]
  BY <1>1 DEF TypeOK
<1>5. ASSUME NEW k \in Level PROVE total'[k] = Added(queue'[k], qty')
  <2>1. \A j \in DOMAIN queue'[k] : qty'[queue'[k][j]] = qty[queue'[k][j]]
    BY <1>3
  <2>2. queue'[k] \in Seq(Node)
    BY <1>1, <1>2, <1>4 DEF TypeOK
  <2>3. Added(queue'[k], qty') = Added(queue'[k], qty)
    BY <1>2, <2>1, <2>2, AddedAgree
  <2>4. CASE k # l
    <3>1. total'[k] = total[k]
      BY <1>1, <2>4 DEF TypeOK
    <3> QED BY <1>4, <2>3, <2>4, <3>1, Totals
  <2>5. CASE k = l
    <3>1. Added(r, qty) = Added(queue[l], qty) - qty[n]
      BY <1>2, AddedRemove
    <3>2. total'[l] = total[l] - qty[n]
      BY <1>1 DEF TypeOK
    <3>3. total[l] = Added(queue[l], qty)
      BY Totals
    <3> QED BY <1>4, <2>3, <2>5, <3>1, <3>2, <3>3
  <2> QED BY <2>4, <2>5
<1> QED BY <1>5, Totals

(* The quantity of a node that is in no level does not matter.             *)
LEMMA SameLevels ==
  ASSUME NodesInv, TotalsAreSums, queue' = queue, total' = total,
         \A l \in Level : \A i \in DOMAIN queue[l] : qty'[queue[l][i]] = qty[queue[l][i]]
  PROVE  TotalsAreSums'
<1>1. ASSUME NEW l \in Level PROVE total'[l] = Added(queue'[l], qty')
  BY SameSum, Totals DEF NodesInv
<1> QED BY <1>1, Totals

(* The node in hand brings its quantity to the level it joins.             *)
LEMMA RestAdds ==
  ASSUME NodesInv, TotalsAreSums, NEW l \in Level, NEW q \in Quantity, Rest(l, q)
  PROVE  TotalsAreSums'
<1> DEFINE n == held
<1>1. TypeOK /\ QueuedOnce /\ HeldIsOut
  BY Places DEF NodesInv
<1>2. /\ n \in Node
      /\ qty' = [qty EXCEPT ![n] = q] /\ total' = [total EXCEPT ![l] = @ + q]
      /\ queue' = [queue EXCEPT ![l] = Append(@, n)]
  BY <1>1 DEF Rest, TypeOK
<1>3. \A k \in Level : \A j \in DOMAIN queue[k] : queue[k][j] # n /\ queue[k][j] \in Node
  BY <1>1, Elements DEF QueuedOnce
<1> HIDE DEF n
<1>4. \A k \in Level : \A j \in DOMAIN queue[k] : qty'[queue[k][j]] = qty[queue[k][j]]
  BY <1>1, <1>2, <1>3 DEF TypeOK
<1>5. Whole(qty, Node) /\ Whole(qty', Node) /\ qty'[n] = q
  BY <1>1, <1>2, WidthAssumption DEF TypeOK, Quantity, Whole
<1>6. ASSUME NEW k \in Level PROVE total'[k] = Added(queue'[k], qty')
  <2>1. CASE k # l
    <3>1. queue'[k] = queue[k] /\ total'[k] = total[k]
      BY <1>1, <1>2, <2>1 DEF TypeOK
    <3> QED BY <1>1, <1>4, <3>1, SameSum, Totals
  <2>2. CASE k = l
    <3>1. queue[l] \in Seq(Node) /\ queue'[l] = Append(queue[l], n) /\ total'[l] = total[l] + q
      BY <1>1, <1>2 DEF TypeOK
    <3>2. Added(Append(queue[l], n), qty') = Added(queue[l], qty') + qty'[n]
      <4>1. queue[l] \in Seq(Node) /\ n \in Node /\ Whole(qty', Node)
        BY <1>2, <1>5, <3>1
      <4> QED BY <4>1, AddedAppend, Zenon
    <3>3. Added(queue[l], qty') = Added(queue[l], qty)
      BY <1>4, <1>5, <3>1, AddedAgree
    <3> QED BY <1>5, <2>2, <3>1, <3>2, <3>3, Totals
  <2> QED BY <2>1, <2>2
<1> QED BY <1>6, Totals

(* A difference that is no less than 0 does not wrap.                      *)
LEMMA NoWrap ==
  ASSUME NEW t \in Quantity, NEW q \in Quantity, q <= t
  PROVE  (t - q) % Width = t - q
<1>1. t - q \in Nat /\ t - q < Width /\ Width \in Nat \ {0}
  BY WidthAssumption DEF Quantity, Width
<1> QED BY <1>1

(* Every step keeps the totals: none is taken below what it is a sum of,   *)
(* so the unsigned subtraction of a fill never wraps.                      *)
LEMMA TotalsNext == NodesInv /\ TotalsAreSums /\ [NodesNext]_nodesVars => TotalsAreSums'
<1> SUFFICES ASSUME NodesInv, TotalsAreSums, [NodesNext]_nodesVars PROVE TotalsAreSums'
  OBVIOUS
<1>1. TypeOK /\ LinksSpellQueues /\ FreeListIsExact /\ QueuedOnce /\ HeldIsOut
  BY Places DEF NodesInv
<1>2. \A l \in Level : \A i \in DOMAIN queue[l] :
        queue[l][i] \in Node /\ queue[l][i] # held /\ inUse[queue[l][i]] /\ level[queue[l][i]] = l
  BY <1>1, Elements DEF QueuedOnce, LinksSpellQueues
<1>3. \A l \in Level : head[l] # NoNode => 1 \in DOMAIN queue[l] /\ head[l] = queue[l][1]
  BY <1>1 DEF LinksSpellQueues, At
<1>4. CASE Allocate
  <2>1. freeHead = spare[1] /\ 1 \in DOMAIN spare
    BY <1>1, <1>4 DEF Allocate, FreeListIsExact, At
  <2>2. ~inUse[freeHead]
    BY <1>1, <2>1 DEF FreeListIsExact
  <2>3. /\ qty' = [qty EXCEPT ![freeHead] = 0] /\ queue' = queue /\ total' = total
    BY <1>4 DEF Allocate, levels
  <2>4. \A l \in Level : \A i \in DOMAIN queue[l] : qty'[queue[l][i]] = qty[queue[l][i]]
    BY <1>1, <1>2, <2>2, <2>3 DEF TypeOK
  <2> QED BY <2>3, <2>4, SameLevels
<1>5. CASE \E l \in Level, q \in Quantity : Rest(l, q)
  BY <1>5, RestAdds
<1>6. ASSUME NEW l \in Level, NEW i \in DOMAIN queue[l], Leave(l, i) PROVE TotalsAreSums'
  BY <1>6, LeftLevel DEF Leave
<1>7. CASE Release
  <2>1. /\ qty' = [qty EXCEPT ![held] = 0] /\ queue' = queue /\ total' = total
    BY <1>7 DEF Release, levels
  <2>2. \A l \in Level : \A i \in DOMAIN queue[l] : qty'[queue[l][i]] = qty[queue[l][i]]
    BY <1>1, <1>2, <2>1 DEF TypeOK
  <2> QED BY <2>1, <2>2, SameLevels
<1>8. ASSUME NEW l \in Level, NEW q \in Quantity, NEW i \in DOMAIN queue[l], Reduce(queue[l][i], q)
      PROVE  TotalsAreSums'
  <2>1. level[queue[l][i]] = l
    BY <1>2
  <2>2. /\ qty' = [qty EXCEPT ![queue[l][i]] = q] /\ queue' = queue
        /\ total' = [total EXCEPT ![l] = @ - (qty[queue[l][i]] - q)]
    BY <1>8, <2>1 DEF Reduce
  <2> QED BY <2>2, Requantified
<1>9. ASSUME NEW l \in Level, NEW q \in Quantity, FillSome(l, q) PROVE TotalsAreSums'
  <2> DEFINE n == queue[l][1]
  <2>1. 1 \in DOMAIN queue[l] /\ head[l] = n /\ q < qty[n]
    BY <1>3, <1>9 DEF FillSome
  <2>2. n \in Node /\ qty[n] \in Quantity /\ total[l] \in Quantity /\ total[l] >= qty[n]
    BY <1>1, <1>2, <2>1, WithinTotal DEF TypeOK
  <2>3. /\ qty' = [qty EXCEPT ![n] = @ - q] /\ queue' = queue
        /\ total' = [total EXCEPT ![l] = (@ - q) % Width]
    BY <1>9, <2>1 DEF FillSome
  <2> HIDE DEF n
  <2>4. (total[l] - q) % Width = total[l] - q
    BY <2>1, <2>2, NoWrap, WidthAssumption DEF Quantity
  <2>5. qty[n] - q \in Quantity /\ total[l] - q = total[l] - (qty[n] - (qty[n] - q))
    BY <2>1, <2>2, WidthAssumption DEF Quantity
  <2>6. qty' = [qty EXCEPT ![n] = qty[n] - q]
    BY <2>3
  <2>7. total' = [total EXCEPT ![l] = @ - (qty[n] - (qty[n] - q))]
    BY <2>3, <2>4, <2>5
  <2>8. /\ 1 \in DOMAIN queue[l] /\ qty[n] - q \in Quantity
        /\ qty' = [qty EXCEPT ![queue[l][1]] = qty[n] - q] /\ queue' = queue
        /\ total' = [total EXCEPT ![l] = @ - (qty[queue[l][1]] - (qty[n] - q))]
    BY <2>1, <2>3, <2>5, <2>6, <2>7 DEF n
  <2> QED BY <2>8, Requantified
<1>10. ASSUME NEW l \in Level, FillAll(l) PROVE TotalsAreSums'
  <2> DEFINE n == queue[l][1]
  <2>1. 1 \in DOMAIN queue[l] /\ head[l] = n
    BY <1>3, <1>10 DEF FillAll
  <2>2. n \in Node /\ qty[n] \in Quantity /\ total[l] \in Quantity /\ total[l] >= qty[n]
    BY <1>1, <1>2, <2>1, WithinTotal DEF TypeOK
  <2>3. /\ qty' = [qty EXCEPT ![n] = 0]
        /\ queue' = [queue EXCEPT ![l] = RemoveAt(@, 1)]
        /\ total' = [total EXCEPT ![l] = (@ - qty[n]) % Width]
    BY <1>10, <2>1 DEF FillAll
  <2> HIDE DEF n
  <2>4. (total[l] - qty[n]) % Width = total[l] - qty[n]
    BY <2>2, NoWrap, WidthAssumption DEF Quantity
  <2>5. total' = [total EXCEPT ![l] = @ - qty[n]]
    BY <2>3, <2>4
  <2>6. \A x \in Node : x # n => qty'[x] = qty[x]
    BY <1>1, <2>3 DEF TypeOK
  <2> QED BY <2>1, <2>3, <2>5, <2>6, LeftLevel DEF n
<1>11. CASE ClearNodes
  BY <1>11, AddedEmpty, Totals DEF ClearNodes
<1>12. CASE UNCHANGED nodesVars
  <2>1. queue' = queue /\ total' = total /\ qty' = qty
    BY <1>12 DEF nodesVars, nodes, levels
  <2> QED BY <2>1, SameLevels
<1> QED
  BY <1>4, <1>5, <1>6, <1>7, <1>8, <1>9, <1>10, <1>11, <1>12 DEF NodesNext

(* The cached total of every level is always what its orders add up to:    *)
(* the unsigned arithmetic of appends, reductions, fills and removals      *)
(* never wraps, at any width.                                              *)
THEOREM TotalsAreAlwaysSums == NodesSpec => []TotalsAreSums
<1>1. NodesInit => TotalsAreSums
  <2>1. \A l \in Level : NodesInit => total[l] = 0 /\ queue[l] = <<>>
    BY DEF NodesInit
  <2> QED BY <2>1, AddedEmpty, Totals
<1> QED BY <1>1, NodesInvInit, NodesInvNext, TotalsNext, PTL DEF NodesSpec

-----------------------------------------------------------------------------
(* The index of order ids.                                                 *)

-----------------------------------------------------------------------------
(* The ring of slots.                                                      *)

(* A table has two slots at least.                                         *)
LEMMA CapacityIsNat == Capacity \in Nat /\ Capacity >= 2
<1> DEFINE P == {n \in Nat : n >= 2}
<1>1. /\ 2^1 \in P /\ 2^2 \in P /\ 2^3 \in P /\ 2^4 \in P /\ 2^5 \in P /\ 2^6 \in P
      /\ 2^7 \in P /\ 2^8 \in P /\ 2^9 \in P /\ 2^10 \in P /\ 2^11 \in P
      /\ 2^12 \in P /\ 2^13 \in P /\ 2^14 \in P /\ 2^15 \in P /\ 2^16 \in P
      /\ 2^17 \in P /\ 2^18 \in P /\ 2^19 \in P /\ 2^20 \in P /\ 2^21 \in P
      /\ 2^22 \in P /\ 2^23 \in P /\ 2^24 \in P /\ 2^25 \in P /\ 2^26 \in P
      /\ 2^27 \in P /\ 2^28 \in P /\ 2^29 \in P /\ 2^30 \in P /\ 2^31 \in P
  OBVIOUS
<1>2. ASSUME NEW k \in 1..31 PROVE 2^k \in P
  <2> HIDE DEF P
  <2>1. \/ k = 1 \/ k = 2 \/ k = 3 \/ k = 4 \/ k = 5 \/ k = 6 \/ k = 7 \/ k = 8
        \/ k = 9 \/ k = 10 \/ k = 11 \/ k = 12 \/ k = 13 \/ k = 14 \/ k = 15
        \/ k = 16 \/ k = 17 \/ k = 18 \/ k = 19 \/ k = 20 \/ k = 21 \/ k = 22
        \/ k = 23 \/ k = 24 \/ k = 25 \/ k = 26 \/ k = 27 \/ k = 28 \/ k = 29
        \/ k = 30 \/ k = 31
    OBVIOUS
  <2> QED BY <1>1, <2>1
<1> QED
  BY <1>2, CapacityAssumption

(* A remainder that goes into its number once.                             *)
LEMMA RemainderOnce ==
  ASSUME NEW n \in Nat, NEW x \in n..(2 * n - 1)
  PROVE  x % n = x - n
  OBVIOUS

(* Adding a distance to a slot comes round at most once.                   *)
LEMMA PlusIs ==
  ASSUME NEW i \in Slot, NEW n \in 0..Capacity
  PROVE  /\ Plus(i, n) \in Slot
         /\ Plus(i, n) = IF i + n < Capacity THEN i + n ELSE i + n - Capacity
<1>1. Capacity \in Nat /\ Capacity >= 2
  BY CapacityIsNat
<1>2. CASE i + n < Capacity
  BY <1>1, <1>2 DEF Plus, Slot
<1>3. CASE i + n >= Capacity
  <2> DEFINE x == i + n
  <2>1. x \in Capacity..(2 * Capacity - 1)
    BY <1>1, <1>3 DEF Slot
  <2> HIDE DEF x
  <2>2. x % Capacity = x - Capacity
    BY <1>1, <2>1, RemainderOnce
  <2> USE DEF x
  <2> QED BY <1>1, <2>1, <2>2, <1>3 DEF Plus, Slot
<1> QED
  BY <1>1, <1>2, <1>3 DEF Slot

(* The slots are a ring, and distances from one slot tell them apart.      *)
LEMMA Ring ==
  ASSUME NEW i \in Slot
  PROVE  /\ \A n \in 0..Capacity : Plus(i, n) \in Slot
         /\ Plus(i, 0) = i /\ Plus(i, Capacity) = i
         /\ \A m, n \in Slot : Plus(i, m) = Plus(i, n) => m = n
         /\ \A n \in Slot : /\ Plus(Plus(i, n), 1) = Plus(i, n + 1)
                            /\ Plus(Plus(i, n + 1), Capacity - 1) = Plus(i, n)
         /\ Plus(i, 1) # i
<1>1. Capacity \in Nat /\ Capacity >= 2
  BY CapacityIsNat
<1>2. \A j \in Slot, n \in 0..Capacity :
         /\ Plus(j, n) \in Slot
         /\ Plus(j, n) = IF j + n < Capacity THEN j + n ELSE j + n - Capacity
  BY PlusIs
<1>3. \A n \in Slot : n \in 0..Capacity /\ n + 1 \in 0..Capacity
  BY <1>1 DEF Slot
<1>4. 0 \in 0..Capacity /\ 1 \in 0..Capacity /\ Capacity \in 0..Capacity /\ Capacity - 1 \in 0..Capacity
  BY <1>1
<1>5. Slot = 0..(Capacity - 1)
  BY DEF Slot
<1> HIDE DEF Plus, Slot
<1>6. Plus(i, 0) = i /\ Plus(i, Capacity) = i
  BY <1>1, <1>2, <1>4, <1>5
<1>7. ASSUME NEW m \in Slot, NEW n \in Slot, Plus(i, m) = Plus(i, n) PROVE m = n
  <2>1. /\ Plus(i, m) = IF i + m < Capacity THEN i + m ELSE i + m - Capacity
        /\ Plus(i, n) = IF i + n < Capacity THEN i + n ELSE i + n - Capacity
    BY <1>2, <1>3
  <2>2. /\ i \in Nat /\ m \in Nat /\ n \in Nat
        /\ i < Capacity /\ m < Capacity /\ n < Capacity
    BY <1>1, <1>5
  <2>3. (IF i + m < Capacity THEN i + m ELSE i + m - Capacity)
          = IF i + n < Capacity THEN i + n ELSE i + n - Capacity
    BY <1>7, <2>1
  <2> QED BY <1>1, <2>2, <2>3
<1>8. ASSUME NEW n \in Slot
      PROVE  /\ Plus(Plus(i, n), 1) = Plus(i, n + 1)
             /\ Plus(Plus(i, n + 1), Capacity - 1) = Plus(i, n)
  <2> DEFINE j == Plus(i, n)
             k == Plus(i, n + 1)
  <2>1. j \in Slot /\ k \in Slot
    BY <1>2, <1>3
  <2>2. /\ j = IF i + n < Capacity THEN i + n ELSE i + n - Capacity
        /\ k = IF i + (n + 1) < Capacity THEN i + (n + 1) ELSE i + (n + 1) - Capacity
    BY <1>2, <1>3
  <2> HIDE DEF j, k
  <2>3. /\ Plus(j, 1) = IF j + 1 < Capacity THEN j + 1 ELSE j + 1 - Capacity
        /\ Plus(k, Capacity - 1) = IF k + (Capacity - 1) < Capacity THEN k + (Capacity - 1)
                                   ELSE k + (Capacity - 1) - Capacity
    BY <1>2, <1>4, <2>1
  <2>4. Plus(j, 1) = k
    BY <1>1, <1>5, <2>1, <2>2, <2>3
  <2>5. Plus(k, Capacity - 1) = j
    BY <1>1, <1>5, <2>1, <2>2, <2>3
  <2> QED BY <2>4, <2>5 DEF j, k
<1>10. Plus(i, 1) # i
  <2>1. Plus(i, 1) = IF i + 1 < Capacity THEN i + 1 ELSE i + 1 - Capacity
    BY <1>2, <1>4
  <2> QED BY <1>1, <1>5, <2>1
<1> QED
  BY <1>2, <1>6, <1>7, <1>8, <1>10

(* How far slot j is behind slot i.                                        *)
Away(j, i) == (j - i) % Capacity

(* Every slot is some distance away from every other.                      *)
LEMMA AwayIs ==
  ASSUME NEW i \in Slot, NEW j \in Slot
  PROVE  /\ Away(j, i) \in Slot
         /\ Plus(i, Away(j, i)) = j
<1>1. Capacity \in Nat /\ Capacity >= 2
  BY CapacityIsNat
<1>2. \A n \in 0..Capacity :
         Plus(i, n) = IF i + n < Capacity THEN i + n ELSE i + n - Capacity
  BY PlusIs
<1>3. CASE j >= i
  <2>1. j - i \in 0..(Capacity - 1)
    BY <1>1, <1>3 DEF Slot
  <2>2. (j - i) % Capacity = j - i
    BY <1>1, <2>1
  <2> HIDE DEF Plus
  <2> QED BY <1>1, <1>2, <2>1, <2>2, <1>3 DEF Slot, Away
<1>4. CASE j < i
  <2>1. j - i \in (-Capacity)..(-1)
    BY <1>1, <1>4 DEF Slot
  <2>2. (j - i) % Capacity = j - i + Capacity
    BY <1>1, <2>1
  <2>3. j - i + Capacity \in 0..Capacity /\ j - i + Capacity \in Slot
    BY <1>1, <1>4 DEF Slot
  <2> HIDE DEF Plus
  <2> QED BY <1>1, <1>2, <2>2, <2>3, <1>4 DEF Slot, Away
<1> QED
  BY <1>3, <1>4 DEF Slot

(* The slot at a distance is that far away.                                *)
LEMMA AwayPlus ==
  ASSUME NEW i \in Slot, NEW n \in Slot
  PROVE  Away(Plus(i, n), i) = n
<1>1. n \in 0..Capacity /\ Plus(i, n) \in Slot
  BY CapacityIsNat, PlusIs DEF Slot
<1>2. Away(Plus(i, n), i) \in Slot /\ Plus(i, Away(Plus(i, n), i)) = Plus(i, n)
  BY <1>1, AwayIs
<1> QED
  BY <1>2, Ring

-----------------------------------------------------------------------------
(* Robin Hood order.                                                       *)

(* What a slot holds.                                                      *)
EntryType == [id: Id \cup {NoId}, dist: Slot]

(* The hash function never changes, and any will do.                       *)
HashType == hash \in [Id -> Slot]

(* The slots that table T has taken, and the ids it holds.                 *)
Occ(T) == {i \in Slot : T[i] # Empty}
Ids(T) == {T[i].id : i \in Occ(T)}

(* The slot before.                                                        *)
Pred(i) == Plus(i, Capacity - 1)

(* Entry e is in Robin Hood order at slot i of table T: it knows its       *)
(* distance from home, and is at most one slot further from home than the  *)
(* entry before it, which must be there unless e is at home.               *)
Fits(T, i, e) ==
  /\ e.id \in Id
  /\ i = Plus(hash[e.id], e.dist)
  /\ e.dist > 0 => Pred(i) \in Occ(T) /\ e.dist <= T[Pred(i)].dist + 1

(* Every entry of T fits, and no id is there twice.                        *)
Sound(T) ==
  /\ T \in [Slot -> EntryType]
  /\ \A i \in Occ(T) : Fits(T, i, T[i])
  /\ \A i, j \in Occ(T) : T[i].id = T[j].id => i = j

(* The first and the last slot.                                            *)
LEMMA SlotIs ==
  /\ Slot \in SUBSET Nat /\ 0 \in Slot /\ Capacity - 1 \in Slot
  /\ \A n \in Slot : n < Capacity
  BY CapacityIsNat DEF Slot

(* What an empty slot holds.                                               *)
LEMMA EmptyIs == Empty \in EntryType /\ Empty.id = NoId /\ Empty.dist = 0
  BY SlotIs DEF Empty, EntryType

(* Robbing the rich keeps the order: an entry that fits may take an empty  *)
(* slot, or that of an entry no further from home.                         *)
LEMMA Replace ==
  ASSUME HashType, NEW T, Sound(T), NEW j \in Slot, NEW e \in EntryType,
         Fits(T, j, e), e.id \notin Ids(T),
         j \in Occ(T) => T[j].dist <= e.dist,
         NEW U, U = [T EXCEPT ![j] = e]
  PROVE  /\ Sound(U)
         /\ Occ(U) = Occ(T) \cup {j}
         /\ Ids(U) = (Ids(T) \ {T[j].id}) \cup {e.id}
<1>1. T \in [Slot -> EntryType] /\ U \in [Slot -> EntryType]
  BY DEF Sound
<1>2. U[j] = e /\ \A i \in Slot : i # j => U[i] = T[i]
  BY <1>1
<1>3. e # Empty /\ e.id \in Id
  BY IdAssumption, EmptyIs DEF Fits
<1>4. Occ(U) = Occ(T) \cup {j}
  BY <1>2, <1>3 DEF Occ
<1>5. \A i \in Occ(T) : Fits(T, i, T[i]) /\ i \in Slot /\ T[i].dist \in Nat
  BY <1>1, SlotIs DEF Sound, Occ, EntryType
<1>6. \A i, k \in Occ(T) : T[i].id = T[k].id => i = k
  BY DEF Sound
<1>7. e.dist \in Nat
  BY SlotIs DEF EntryType
<1>8. \A i \in Occ(T) : U[i].dist >= T[i].dist /\ U[i].dist \in Nat
  BY <1>2, <1>5, <1>7
<1>9. ASSUME NEW i \in Occ(U) PROVE Fits(U, i, U[i])
  <2>1. Fits(T, i, U[i])
    BY <1>2, <1>4, <1>5, <1>9
  <2>2. U[i].dist \in Nat
    BY <1>1, <1>9, SlotIs DEF EntryType, Occ
  <2>3. U[i].dist > 0 => Pred(i) \in Occ(U) /\ U[i].dist <= U[Pred(i)].dist + 1
    <3> SUFFICES ASSUME U[i].dist > 0
                 PROVE  Pred(i) \in Occ(U) /\ U[i].dist <= U[Pred(i)].dist + 1
      OBVIOUS
    <3> DEFINE p == Pred(i)
    <3>1. p \in Occ(T) /\ U[i].dist <= T[p].dist + 1
      BY <2>1 DEF Fits
    <3> HIDE DEF p
    <3>2. U[p].dist >= T[p].dist /\ U[p].dist \in Nat /\ T[p].dist \in Nat
      BY <1>5, <1>8, <3>1
    <3>3. p \in Occ(U)
      BY <1>4, <3>1
    <3>4. U[i].dist <= U[p].dist + 1
      BY <2>2, <3>1, <3>2
    <3> QED BY <3>3, <3>4 DEF p
  <2> QED BY <2>1, <2>3 DEF Fits
<1>10. \A i \in Occ(T) : T[i].id # e.id
  BY DEF Ids
<1>11. ASSUME NEW i \in Occ(U), NEW k \in Occ(U), U[i].id = U[k].id PROVE i = k
  BY <1>2, <1>4, <1>5, <1>6, <1>10, <1>11
<1>12. Sound(U)
  BY <1>1, <1>9, <1>11 DEF Sound
<1>13. T[j].id \in Id => j \in Occ(T)
  BY EmptyIs, IdAssumption DEF Occ
<1>14. \A i \in Occ(T) : T[i].id \in Id
  BY <1>5 DEF Fits
<1>15. ASSUME NEW x \in Ids(U) PROVE x \in (Ids(T) \ {T[j].id}) \cup {e.id}
  <2>1. PICK i \in Occ(U) : x = U[i].id
    BY DEF Ids
  <2>2. CASE i # j
    <3>1. i \in Occ(T) /\ x = T[i].id
      BY <1>2, <1>4, <2>1, <2>2 DEF Occ
    <3>2. x # T[j].id
      BY <1>6, <1>13, <1>14, <3>1, <2>2
    <3> QED BY <3>1, <3>2 DEF Ids
  <2> QED BY <1>2, <2>1, <2>2
<1>16. ASSUME NEW x \in Ids(T), x # T[j].id PROVE x \in Ids(U)
  <2>1. PICK i \in Occ(T) : x = T[i].id
    BY DEF Ids
  <2>2. i \in Occ(U) /\ U[i].id = x
    BY <1>2, <1>4, <1>5, <1>16, <2>1
  <2> QED BY <2>2 DEF Ids
<1>17. e.id \in Ids(U)
  BY <1>2, <1>4 DEF Ids
<1> QED
  BY <1>4, <1>12, <1>15, <1>16, <1>17

(* Between an id's home and its entry no slot is empty and no entry is     *)
(* closer to home than the search has come.                                *)
LEMMA Chain ==
  ASSUME NEW T, Sound(T), NEW h \in Slot, NEW s \in Slot,
         Plus(h, s) \in Occ(T), T[Plus(h, s)].dist >= s
  PROVE  \A t \in 0..s : Plus(h, t) \in Occ(T) /\ T[Plus(h, t)].dist >= t
<1> DEFINE P == {n \in Nat : n <= s => /\ Plus(h, s - n) \in Occ(T)
                                       /\ T[Plus(h, s - n)].dist >= s - n}
<1>0. s \in Nat /\ s - 0 = s /\ Slot \in SUBSET Nat /\ s < Capacity
  BY SlotIs
<1>1. 0 \in P
  BY <1>0
<1>2. ASSUME NEW n \in P PROVE n + 1 \in P
  <2>1. CASE n + 1 <= s
    <3> DEFINE t == s - (n + 1)
    <3>1. n \in Nat /\ t \in Slot /\ t + 1 = s - n /\ t + 1 \in Nat /\ t + 1 > 0
      BY <1>0, <2>1, CapacityIsNat DEF Slot
    <3>2. Plus(h, t + 1) \in Occ(T) /\ T[Plus(h, t + 1)].dist >= t + 1
      BY <2>1, <3>1, <1>0
    <3> HIDE DEF t
    <3>3. Pred(Plus(h, t + 1)) = Plus(h, t)
      BY <3>1, Ring DEF Pred
    <3> DEFINE i == Plus(h, t + 1)
               j == Plus(h, t)
    <3>4. T[i].dist \in Nat /\ Fits(T, i, T[i])
      BY <3>2, <1>0 DEF Sound, EntryType, Occ
    <3> HIDE DEF P, i, j
    <3>5. i \in Occ(T) /\ T[i].dist >= t + 1 /\ Pred(i) = j
      BY <3>2, <3>3 DEF i, j
    <3>6. j \in Occ(T) /\ T[i].dist <= T[j].dist + 1
      BY <3>1, <3>4, <3>5 DEF Fits
    <3>7. T[j].dist \in Nat
      BY <3>6, <1>0 DEF Sound, EntryType, Occ
    <3>8. T[j].dist >= t
      BY <3>1, <3>4, <3>5, <3>6, <3>7, <1>0
    <3> QED BY <3>1, <3>6, <3>8 DEF P, t, j
  <2>2. CASE ~(n + 1 <= s)
    BY <2>2
  <2> QED BY <2>1, <2>2
<1>3. P \in SUBSET Nat
  OBVIOUS
<1> HIDE DEF P
<1>4. P = Nat
  BY <1>1, <1>2, <1>3, Induction
<1> TAKE t \in 0..s
<1>5. s - t \in P /\ s - t <= s /\ s - (s - t) = t
  BY <1>0, <1>4
<1> QED
  BY <1>5 DEF P

-----------------------------------------------------------------------------
(* Searches, and the end of compaction.                                    *)

(* The least of some naturals.                                             *)
LEMMA MinIs ==
  ASSUME NEW S \in SUBSET Nat, S # {}
  PROVE  Min(S) \in S /\ \A n \in S : Min(S) <= n
  BY LeastNat DEF Min

(* A search for an id that is not there finds nothing.                     *)
LEMMA FindsNothing ==
  ASSUME HashType, NEW id \in Id, id \notin Ids(entries)
  PROVE  FindIndex(id) = NoSlot
<1> DEFINE at(s) == entries[Plus(hash[id], s)]
           stops == {s \in Slot : at(s) = Empty \/ at(s).dist < s \/ at(s).id = id}
<1>1. ASSUME NEW s \in Slot PROVE at(s).id # id
  <2> DEFINE i == Plus(hash[id], s)
  <2>1. i \in Slot
    <3>1. hash[id] \in Slot /\ s \in 0..Capacity
      BY SlotIs, CapacityIsNat DEF HashType, Slot
    <3> QED BY <3>1, Ring
  <2> HIDE DEF i
  <2>2. i \in Occ(entries) => entries[i].id # id
    BY DEF Ids
  <2>3. i \notin Occ(entries) => entries[i].id = NoId
    BY <2>1, EmptyIs DEF Occ
  <2>4. entries[i].id # id
    BY <2>2, <2>3, IdAssumption
  <2> QED BY <2>4 DEF i
<1>2. stops # {} => Min(stops) \in Slot
  <2>1. stops \in SUBSET Nat
    BY SlotIs
  <2>2. stops \subseteq Slot
    OBVIOUS
  <2> HIDE DEF stops
  <2> QED BY <2>1, <2>2, MinIs
<1>3. ~(stops # {} /\ at(Min(stops)).id = id)
  <2> HIDE DEF stops
  <2>1. ASSUME stops # {} PROVE at(Min(stops)).id # id
    <3>1. Min(stops) \in Slot
      BY <1>2, <2>1
    <3> HIDE DEF at
    <3> QED BY <1>1, <3>1
  <2> QED BY <2>1
<1> QED
  BY <1>3, Zenon DEF FindIndex

(* A search for an id finds its slot: nothing on the way stops it.         *)
LEMMA Finds ==
  ASSUME HashType, Sound(entries), NEW i \in Occ(entries), NEW id, id = entries[i].id
  PROVE  FindIndex(id) = i /\ id \in Id /\ i \in Slot
<1> DEFINE h == hash[id]
           d == entries[i].dist
           at(s) == entries[Plus(h, s)]
           stops == {s \in Slot : at(s) = Empty \/ at(s).dist < s \/ at(s).id = id}
<1>1. /\ id \in Id /\ i \in Slot /\ i = Plus(h, d)
      /\ entries \in [Slot -> EntryType]
      /\ \A j, k \in Occ(entries) : entries[j].id = entries[k].id => j = k
  BY DEF Sound, Fits, Occ
<1>2. h \in Slot /\ d \in Slot /\ d \in Nat
  BY <1>1, SlotIs DEF HashType, EntryType
<1> HIDE DEF h, d
<1>3. Plus(h, d) \in Occ(entries) /\ entries[Plus(h, d)].dist >= d
  BY <1>1, <1>2 DEF d
<1>4. \A t \in 0..d : Plus(h, t) \in Occ(entries) /\ entries[Plus(h, t)].dist >= t
  BY <1>2, <1>3, Chain
<1>5. d \in stops
  BY <1>1, <1>2
<1>6. ASSUME NEW t \in stops PROVE d <= t
  <2> SUFFICES ASSUME t < d PROVE FALSE
    BY <1>2, <1>6, SlotIs
  <2>1. t \in Slot /\ t \in Nat /\ t \in 0..d
    BY <1>2, <1>6, SlotIs
  <2> DEFINE k == Plus(h, t)
  <2>2. k \in Occ(entries) /\ entries[k].dist >= t
    BY <1>4, <2>1
  <2>3. k # i
    BY <1>1, <1>2, <2>1, Ring
  <2>4. k \in Slot /\ entries[k] # Empty /\ entries[k].dist \in Nat
    BY <1>1, <2>2, SlotIs DEF Occ, EntryType
  <2>5. entries[k].id # id
    BY <1>1, <2>2, <2>3
  <2>6. entries[k] = Empty \/ entries[k].dist < t \/ entries[k].id = id
    BY <1>6
  <2> HIDE DEF k
  <2> QED BY <2>1, <2>2, <2>4, <2>5, <2>6
<1>7. Min(stops) = d
  <2>1. stops \in SUBSET Nat
    BY SlotIs
  <2> HIDE DEF stops
  <2>2. Min(stops) \in stops /\ \A n \in stops : Min(stops) <= n
    BY <1>5, <2>1, MinIs
  <2>3. Min(stops) <= d /\ d <= Min(stops) /\ Min(stops) \in Nat
    BY <1>5, <1>6, <2>1, <2>2
  <2> QED BY <1>2, <2>3
<1>8. stops # {} /\ at(d).id = id /\ at(d).dist >= d /\ Plus(h, d) = i
  BY <1>1, <1>3, <1>5
<1>9. FindIndex(id) = IF stops # {} /\ at(Min(stops)).id = id /\ at(Min(stops)).dist >= Min(stops)
                      THEN Plus(h, Min(stops)) ELSE NoSlot
  BY Zenon DEF FindIndex, h
<1>10. FindIndex(id) = i
  <2> HIDE DEF stops
  <2>1. /\ stops # {} /\ at(Min(stops)).id = id /\ at(Min(stops)).dist >= Min(stops)
        /\ Plus(h, Min(stops)) = i
    BY <1>7, <1>8
  <2> HIDE DEF at
  <2> QED BY <1>9, <2>1
<1> QED
  BY <1>1, <1>10

(* find_index finds an id if and only if it is in the table.               *)
LEMMA SearchIsExact ==
  ASSUME HashType, Sound(entries), NEW id \in Id
  PROVE  /\ id \in Ids(entries) <=> FindIndex(id) # NoSlot
         /\ FindIndex(id) # NoSlot =>
              FindIndex(id) \in Occ(entries) /\ entries[FindIndex(id)].id = id
<1>1. NoSlot \notin Slot
  BY SlotIs, CapacityIsNat DEF NoSlot
<1>2. CASE id \in Ids(entries)
  <2>1. PICK i \in Occ(entries) : id = entries[i].id
    BY <1>2 DEF Ids
  <2>2. FindIndex(id) = i /\ i \in Slot
    BY <2>1, Finds
  <2> QED BY <1>1, <1>2, <2>1, <2>2
<1>3. CASE id \notin Ids(entries)
  BY <1>3, FindsNothing
<1> QED
  BY <1>2, <1>3

(* In a full table some entry is at home.                                  *)
SomeHome(T) == Occ(T) = Slot => \E i \in Slot : T[i].dist = 0

(* Compaction stops: the first empty slot or entry at home behind slot i   *)
(* ends it; if the only entry at home is that of slot i itself, the next   *)
(* one is at distance one and ends it when it has come round.              *)
LEMMA Compacts ==
  ASSUME HashType, Sound(entries), SomeHome(entries), NEW i \in Occ(entries)
  PROVE  Stops(i) # {}
<1>0. i \in Slot /\ Capacity \in Nat /\ Capacity >= 2
  BY CapacityIsNat DEF Occ
<1>1. ASSUME NEW j \in Slot, j # i, entries[j] = Empty \/ entries[j].dist = 0 PROVE Stops(i) # {}
  <2>1. Away(j, i) \in Slot /\ Plus(i, Away(j, i)) = j
    BY <1>0, AwayIs
  <2>2. Away(j, i) # 0
    BY <1>0, <1>1, <2>1, Ring
  <2>3. Away(j, i) \in 1..(Capacity - 1)
    BY <2>1, <2>2 DEF Slot
  <2>4. Away(j, i) \in Stops(i)
    BY <1>1, <2>1, <2>3 DEF Stops
  <2> QED BY <2>4
<1>2. CASE \A j \in Slot : j # i => entries[j] # Empty /\ entries[j].dist # 0
  <2>1. Occ(entries) = Slot
    BY <1>2 DEF Occ
  <2>2. entries[i].dist = 0
    BY <1>2, <2>1 DEF SomeHome
  <2> DEFINE j == Plus(i, 1)
  <2>3. j \in Slot /\ j # i /\ Pred(j) = i
    <3>1. /\ 1 \in 0..Capacity /\ 0 \in Slot /\ 0 + 1 = 1
      BY <1>0, SlotIs
    <3>2. j \in Slot /\ j # i
      BY <1>0, <3>1, Ring
    <3>3. Plus(Plus(i, 0 + 1), Capacity - 1) = Plus(i, 0)
      BY <1>0, <3>1, Ring
    <3> QED BY <1>0, <3>1, <3>2, <3>3, Ring DEF Pred
  <2> HIDE DEF j
  <2>4. j \in Occ(entries) /\ entries[j].dist # 0 /\ entries[j].dist \in Nat
    BY <1>2, <2>1, <2>3, SlotIs DEF Sound, EntryType
  <2>5. Fits(entries, j, entries[j])
    BY <2>4 DEF Sound
  <2>6. entries[j].dist <= entries[i].dist + 1
    BY <2>3, <2>4, <2>5 DEF Fits
  <2>7. entries[j].dist = 1
    BY <2>2, <2>4, <2>6
  <2>8. Capacity \in Stops(i)
    BY <2>7 DEF Stops, j
  <2> QED BY <2>8
<1> QED
  BY <1>1, <1>2

-----------------------------------------------------------------------------
(* Backward-shift deletion.                                                *)

(* How many entries erase_index moves.                                     *)
Moved(i) == Min(Stops(i) \cup {Capacity}) - 1

(* Those are taken slots away from home, and the next is not.              *)
LEMMA MovedIs ==
  ASSUME HashType, Sound(entries), SomeHome(entries), NEW i \in Occ(entries),
         NEW L, L = Moved(i)
  PROVE  /\ L \in Slot
         /\ \A n \in 1..L : /\ Plus(i, n) \in Occ(entries)
                            /\ entries[Plus(i, n)].dist > 0
         /\ L + 1 \in Slot => \/ entries[Plus(i, L + 1)] = Empty
                              \/ entries[Plus(i, L + 1)].dist = 0
         /\ L = Capacity - 1 => entries[Plus(i, 1)].dist = 1
<1> DEFINE S == Stops(i) \cup {Capacity}
           m == Min(S)
<1>0. i \in Slot /\ Capacity \in Nat /\ Capacity >= 2
  BY CapacityIsNat DEF Occ
<1>1. Stops(i) \subseteq 1..Capacity /\ Stops(i) # {}
  <2>1. Stops(i) \subseteq 1..Capacity
    BY <1>0 DEF Stops
  <2> QED BY <2>1, Compacts
<1>2. m \in S /\ \A n \in S : m <= n
  <2>1. S \in SUBSET Nat /\ S # {}
    BY <1>0, <1>1
  <2> HIDE DEF S
  <2> QED BY <2>1, MinIs
<1>3. m \in 1..Capacity /\ \A n \in 1..(m - 1) : n \in 1..(Capacity - 1) /\ n \notin Stops(i)
  <2>1. m \in 1..Capacity
    BY <1>0, <1>1, <1>2
  <2> HIDE DEF m
  <2>2. ASSUME NEW n \in 1..(m - 1) PROVE n \in 1..(Capacity - 1) /\ n \notin Stops(i)
    BY <1>0, <1>2, <2>1
  <2> QED BY <2>1, <2>2
<1>4. L = m - 1
  BY DEF Moved
<1> HIDE DEF m
<1>5. L \in Slot
  BY <1>0, <1>3, <1>4 DEF Slot
<1>6. ASSUME NEW n \in 1..L
      PROVE  Plus(i, n) \in Occ(entries) /\ entries[Plus(i, n)].dist > 0
  <2>1. n \in 1..(Capacity - 1) /\ n \notin Stops(i) /\ n \in 0..Capacity
    BY <1>0, <1>3, <1>4
  <2> DEFINE j == Plus(i, n)
  <2>2. j \in Slot
    BY <1>0, <2>1, Ring
  <2>3. entries[j] # Empty /\ entries[j].dist # 0
    BY <2>1 DEF Stops
  <2> HIDE DEF j
  <2>4. entries[j].dist \in Nat
    BY <2>2, SlotIs DEF Sound, EntryType
  <2>5. j \in Occ(entries) /\ entries[j].dist > 0
    BY <2>2, <2>3, <2>4 DEF Occ
  <2> QED BY <2>5 DEF j
<1>7. ASSUME L + 1 \in Slot
      PROVE  entries[Plus(i, L + 1)] = Empty \/ entries[Plus(i, L + 1)].dist = 0
  <2>1. L + 1 = m /\ m # Capacity
    BY <1>0, <1>3, <1>4, <1>7, SlotIs
  <2>2. m \in Stops(i)
    BY <1>2, <2>1
  <2> QED BY <2>1, <2>2 DEF Stops
<1>8. ASSUME L = Capacity - 1 PROVE entries[Plus(i, 1)].dist = 1
  <2>1. m = Capacity
    BY <1>0, <1>3, <1>4, <1>8
  <2>2. PICK n \in Stops(i) : TRUE
    BY <1>1
  <2>3. n = Capacity
    BY <1>0, <1>1, <1>2, <2>1, <2>2
  <2> QED BY <1>0, <2>2, <2>3 DEF Stops
<1> QED
  BY <1>5, <1>6, <1>7, <1>8

(* What erase_index leaves in each slot behind slot i.                     *)
LEMMA ShiftIs ==
  ASSUME HashType, Sound(entries), SomeHome(entries), NEW i \in Occ(entries),
         NEW L, L = Moved(i), NEW U, U = Shifted(i)
  PROVE  /\ U \in [Slot -> EntryType]
         /\ \A n \in Slot : n < L =>
              /\ U[Plus(i, n)].id = entries[Plus(i, n + 1)].id
              /\ U[Plus(i, n)].dist = entries[Plus(i, n + 1)].dist - 1
         /\ U[Plus(i, L)] = Empty
         /\ \A n \in Slot : n > L => U[Plus(i, n)] = entries[Plus(i, n)]
<1>0. /\ i \in Slot /\ Capacity \in Nat /\ Capacity >= 2 /\ Slot \in SUBSET Nat
      /\ entries \in [Slot -> EntryType]
  BY CapacityIsNat, SlotIs DEF Occ, Sound
<1>1. /\ L \in Slot
      /\ \A n \in 1..L : Plus(i, n) \in Occ(entries) /\ entries[Plus(i, n)].dist > 0
  BY MovedIs
<1>2. U = [j \in Slot |->
             IF Away(j, i) < L THEN [entries[Plus(j, 1)] EXCEPT !.dist = @ - 1]
             ELSE IF Away(j, i) = L THEN Empty ELSE entries[j]]
  BY Zenon DEF Shifted, Moved, Away
<1>3. \A n \in Slot : /\ Plus(i, n) \in Slot /\ Away(Plus(i, n), i) = n
                      /\ Plus(Plus(i, n), 1) = Plus(i, n + 1)
  <2> TAKE n \in Slot
  <2>1. n \in 0..Capacity
    BY <1>0 DEF Slot
  <2> QED BY <1>0, <2>1, Ring, AwayPlus
<1>4. ASSUME NEW n \in Slot
      PROVE  U[Plus(i, n)] = IF n < L THEN [entries[Plus(i, n + 1)] EXCEPT !.dist = @ - 1]
                             ELSE IF n = L THEN Empty ELSE entries[Plus(i, n)]
  BY <1>2, <1>3
<1>5. ASSUME NEW n \in Slot, n < L
      PROVE  /\ U[Plus(i, n)].id = entries[Plus(i, n + 1)].id
             /\ U[Plus(i, n)].dist = entries[Plus(i, n + 1)].dist - 1
             /\ U[Plus(i, n)] \in EntryType
  <2> DEFINE j == Plus(i, n + 1)
             e == U[Plus(i, n)]
  <2>1. n + 1 \in 1..L
    BY <1>0, <1>1, <1>5
  <2>2. j \in Occ(entries) /\ entries[j].dist > 0
    BY <1>1, <2>1
  <2>3. e = [entries[j] EXCEPT !.dist = @ - 1]
    BY <1>4, <1>5
  <2> HIDE DEF j, e
  <2>4. entries[j] \in EntryType /\ entries[j].dist \in Slot
    BY <1>0, <2>2 DEF Occ, EntryType
  <2>5. entries[j].dist - 1 \in Slot
    BY <1>0, <2>2, <2>4 DEF Slot
  <2>6. e.id = entries[j].id /\ e.dist = entries[j].dist - 1 /\ e \in EntryType
    BY <2>3, <2>4, <2>5 DEF EntryType
  <2> QED BY <2>6 DEF e, j
<1>6. U[Plus(i, L)] = Empty
  <2>1. L \in Nat /\ ~(L < L)
    BY <1>0, <1>1
  <2> QED BY <1>1, <1>4, <2>1, Zenon
<1>7. ASSUME NEW n \in Slot, n > L PROVE U[Plus(i, n)] = entries[Plus(i, n)]
  <2>1. ~(n < L) /\ n # L
    BY <1>0, <1>1, <1>7
  <2> QED BY <1>4, <2>1, Zenon
<1>8. \A j \in Slot : U[j] \in EntryType
  <2> TAKE j \in Slot
  <2> DEFINE n == Away(j, i)
  <2>1. n \in Slot /\ Plus(i, n) = j
    BY <1>0, AwayIs
  <2> HIDE DEF n
  <2>2. CASE n < L
    BY <1>5, <2>1, <2>2
  <2>3. CASE n = L
    BY <1>6, <2>1, <2>3, EmptyIs
  <2>4. CASE n > L
    BY <1>0, <1>7, <2>1, <2>4
  <2> QED BY <1>0, <1>1, <2>1, <2>2, <2>3, <2>4
<1>9. U \in [Slot -> EntryType]
  BY <1>2, <1>8
<1> QED
  BY <1>5, <1>6, <1>7, <1>9

(* Backward-shift deletion keeps the order, empties one slot, and takes    *)
(* the erased id out and no other.                                         *)
LEMMA ShiftKeeps ==
  ASSUME HashType, Sound(entries), SomeHome(entries), NEW i \in Occ(entries),
         NEW U, U = Shifted(i)
  PROVE  /\ Sound(U)
         /\ \E j \in Occ(entries) : Occ(U) = Occ(entries) \ {j}
         /\ Ids(U) = Ids(entries) \ {entries[i].id}
<1> DEFINE L == Moved(i)
           at(n) == Plus(i, n)
           E(n) == entries[Plus(i, n)]
           V(n) == U[Plus(i, n)]
<1>0. /\ i \in Slot /\ Capacity \in Nat /\ Capacity >= 2 /\ Slot \in SUBSET Nat
      /\ entries \in [Slot -> EntryType] /\ Slot = 0..(Capacity - 1)
      /\ \A j \in Occ(entries) : j \in Slot /\ Fits(entries, j, entries[j])
  BY CapacityIsNat, SlotIs DEF Occ, Sound, Slot
<1> HIDE DEF L
<1>1. /\ L \in Slot /\ L \in Nat
      /\ \A n \in 1..L : at(n) \in Occ(entries) /\ E(n).dist > 0
      /\ L + 1 \in Slot => E(L + 1) = Empty \/ E(L + 1).dist = 0
      /\ L = Capacity - 1 => E(1).dist = 1
  BY <1>0, MovedIs DEF L
<1>2. /\ U \in [Slot -> EntryType]
      /\ \A n \in Slot : n < L => V(n).id = E(n + 1).id /\ V(n).dist = E(n + 1).dist - 1
      /\ V(L) = Empty
      /\ \A n \in Slot : n > L => V(n) = E(n)
  BY ShiftIs DEF L
<1>3. /\ at(0) = i /\ at(Capacity - 1) = Pred(i)
      /\ \A n \in Slot : at(n) \in Slot
      /\ \A n \in Slot : n > 0 => Pred(at(n)) = at(n - 1)
      /\ \A m, n \in Slot : at(m) = at(n) => m = n
      /\ \A j \in Slot : \E n \in Slot : j = at(n)
  <2>1. \A n \in Slot : n \in 0..Capacity
    BY <1>0
  <2>2. ASSUME NEW n \in Slot, n > 0 PROVE Pred(at(n)) = at(n - 1)
    <3>1. n - 1 \in Slot /\ (n - 1) + 1 = n
      BY <1>0, <2>2
    <3>2. Plus(Plus(i, (n - 1) + 1), Capacity - 1) = Plus(i, n - 1)
      BY <1>0, <3>1, Ring
    <3> QED BY <3>1, <3>2 DEF Pred
  <2>3. \A j \in Slot : \E n \in Slot : j = at(n)
    BY <1>0, AwayIs
  <2>4. at(0) = i /\ \A n \in Slot : at(n) \in Slot
    BY <1>0, <2>1, Ring
  <2>5. \A m, n \in Slot : at(m) = at(n) => m = n
    BY <1>0, Ring
  <2> QED BY <2>2, <2>3, <2>4, <2>5 DEF Pred
<1>4. /\ \A n \in 0..L : at(n) \in Occ(entries)
      /\ \A n \in Slot : n < L => n + 1 \in 1..L /\ n + 1 \in Slot
  <2>1. ASSUME NEW n \in 0..L PROVE at(n) \in Occ(entries)
    <3>1. CASE n = 0
      BY <3>1, <1>3
    <3>2. CASE n # 0
      <4>1. n \in 1..L
        BY <1>1, <3>2
      <4> QED BY <4>1, <1>1
    <3> QED BY <3>1, <3>2
  <2> QED BY <2>1, <1>0, <1>1
<1> HIDE DEF at
<1>5. \A n \in Slot : n < L => at(n) \in Occ(U) /\ V(n).id \in Id
  <2> TAKE n \in Slot
  <2> HAVE n < L
  <2>1. at(n + 1) \in Occ(entries)
    BY <1>1, <1>4
  <2>2. E(n + 1).id \in Id
    BY <1>0, <2>1 DEF Fits, at
  <2>3. V(n).id \in Id
    BY <1>2, <2>2
  <2>4. V(n) # Empty
    BY <2>3, EmptyIs, IdAssumption
  <2> QED BY <2>3, <2>4, <1>3 DEF Occ, at
<1>6. at(L) \notin Occ(U) /\ at(L) \in Occ(entries)
  <2>1. at(L) \notin Occ(U)
    BY <1>2 DEF Occ, at
  <2> QED BY <2>1, <1>1, <1>4
<1>7. \A n \in Slot : n > L => (at(n) \in Occ(U) <=> at(n) \in Occ(entries))
  BY <1>2 DEF Occ, at
<1>8. Occ(U) = Occ(entries) \ {at(L)}
  <2>1. ASSUME NEW j \in Slot PROVE j \in Occ(U) <=> j \in Occ(entries) /\ j # at(L)
    <3>1. PICK n \in Slot : j = at(n)
      BY <1>3
    <3>2. CASE n < L
      <4>1. n \in 0..L /\ n # L
        BY <1>0, <1>1, <3>2
      <4> QED BY <1>1, <1>3, <1>4, <1>5, <3>1, <3>2, <4>1
    <3>3. CASE n = L
      BY <1>6, <3>1, <3>3
    <3>4. CASE n > L
      <4>1. n # L
        BY <1>0, <1>1, <3>4
      <4> QED BY <1>1, <1>3, <1>7, <3>1, <3>4, <4>1
    <3> QED BY <1>0, <1>1, <3>2, <3>3, <3>4
  <2>2. Occ(U) \subseteq Slot /\ Occ(entries) \subseteq Slot
    BY DEF Occ
  <2> QED BY <2>1, <2>2
<1>9. ASSUME NEW n \in Slot, n < L PROVE Fits(U, at(n), V(n))
  <2> DEFINE j == at(n)
             k == at(n + 1)
             e == entries[k]
             d == e.dist
             g == hash[e.id]
             p == Pred(j)
  <2>1. k \in Occ(entries) /\ d > 0 /\ n + 1 \in Slot /\ n + 1 > 0 /\ (n + 1) - 1 = n
    BY <1>0, <1>1, <1>4, <1>9 DEF at
  <2>2. /\ Fits(entries, k, e) /\ d \in Slot /\ d \in Nat /\ j \in Slot
        /\ entries[j].dist \in Nat /\ Pred(k) = j
    BY <1>0, <1>3, <2>1 DEF EntryType
  <2>3. /\ e.id \in Id /\ k = Plus(g, d) /\ j \in Occ(entries)
        /\ d <= entries[j].dist + 1
    BY <2>1, <2>2 DEF Fits
  <2>4. g \in Slot /\ d - 1 \in Slot /\ (d - 1) + 1 = d
    BY <1>0, <2>1, <2>2, <2>3 DEF HashType
  <2>5. V(n).id = e.id /\ V(n).dist = d - 1
    BY <1>2, <1>9 DEF at
  <2> HIDE DEF j, k, d, e, g
  <2>6. j = Plus(g, d - 1)
    <3>1. Plus(Plus(g, (d - 1) + 1), Capacity - 1) = Plus(g, d - 1)
      BY <2>4, Ring
    <3> QED BY <2>2, <2>3, <2>4, <3>1 DEF Pred
  <2>7. ASSUME d - 1 > 0 PROVE p \in Occ(U) /\ d - 1 <= U[p].dist + 1
    <3>1. Fits(entries, j, entries[j]) /\ entries[j].dist > 0
      BY <1>0, <2>2, <2>3, <2>7
    <3>2. p \in Occ(entries) /\ entries[j].dist <= entries[p].dist + 1 /\ p \in Slot
      BY <1>0, <3>1 DEF Fits, j
    <3>3. entries[p].dist \in Nat
      BY <1>0, <3>2 DEF EntryType
    <3>4. CASE n > 0
      <4>1. p = at(n - 1) /\ n - 1 \in Slot /\ n - 1 < L /\ (n - 1) + 1 = n
        BY <1>0, <1>1, <1>3, <1>9, <3>4 DEF j
      <4>2. p \in Occ(U) /\ U[p].dist = entries[j].dist - 1
        BY <1>2, <1>5, <4>1 DEF at, j
      <4> QED BY <2>2, <2>3, <4>2
    <3>5. CASE n = 0
      <4>1. j = i /\ p = at(Capacity - 1)
        BY <1>3, <3>5 DEF j
      <4>2. L # Capacity - 1
        <5>1. d = 1 => ~(d - 1 > 0)
          OBVIOUS
        <5>2. L = Capacity - 1 => d = 1
          BY <1>1, <3>5 DEF d, e, k, at
        <5> QED BY <5>1, <5>2, <2>7
      <4>3. Capacity - 1 > L /\ Capacity - 1 \in Slot
        BY <1>0, <1>1, <4>2
      <4>4. p \in Occ(U) /\ U[p] = entries[p]
        BY <1>2, <1>7, <3>2, <4>1, <4>3 DEF at
      <4> QED BY <2>2, <2>3, <3>2, <3>3, <4>4
    <3> QED BY <1>0, <3>4, <3>5
  <2> QED BY <2>3, <2>5, <2>6, <2>7 DEF Fits, g, j
<1>10. ASSUME NEW n \in Slot, n > L, at(n) \in Occ(U) PROVE Fits(U, at(n), V(n))
  <2> DEFINE j == at(n)
             e == entries[j]
             p == Pred(j)
  <2>1. /\ V(n) = e /\ j \in Occ(entries) /\ Fits(entries, j, e)
        /\ n - 1 \in Slot /\ n - 1 >= L /\ p = at(n - 1)
    <3>1. n > 0 /\ n - 1 \in Slot /\ n - 1 >= L
      BY <1>0, <1>1, <1>10
    <3>2. j \in Occ(entries) /\ p = at(n - 1)
      BY <1>3, <1>7, <1>10, <3>1
    <3>3. V(n) = e
      BY <1>2, <1>10 DEF at
    <3> QED BY <1>0, <3>1, <3>2, <3>3
  <2>2. CASE n - 1 = L
    <3>1. E(L + 1).dist = 0
      <4>1. L + 1 = n
        BY <1>0, <1>1, <2>2
      <4>2. E(L + 1) = Empty \/ E(L + 1).dist = 0
        BY <1>1, <4>1
      <4> QED BY <4>2, EmptyIs
    <3>2. e.dist = 0
      <4>1. L + 1 = n
        BY <1>0, <1>1, <2>2
      <4> QED BY <3>1, <4>1 DEF at
    <3> HIDE DEF j, e, p
    <3>3. ~(e.dist > 0)
      BY <3>2
    <3>4. Fits(U, j, e)
      BY <2>1, <3>3 DEF Fits
    <3> QED BY <2>1, <3>4 DEF j
  <2>3. CASE n - 1 > L
    <3>1. U[p] = entries[p] /\ (p \in Occ(U) <=> p \in Occ(entries))
      BY <1>2, <1>7, <2>1, <2>3 DEF at
    <3> HIDE DEF j, e
    <3>2. Fits(U, j, e)
      BY <2>1, <3>1 DEF Fits
    <3> QED BY <2>1, <3>2 DEF j
  <2> QED BY <1>0, <1>1, <2>1, <2>2, <2>3
<1>11. ASSUME NEW j \in Occ(U) PROVE Fits(U, j, U[j])
  <2>1. PICK n \in Slot : j = at(n)
    BY <1>3 DEF Occ
  <2>2. n < L \/ n > L
    BY <1>0, <1>1, <1>6, <2>1
  <2>3. U[j] = V(n)
    BY <2>1 DEF at
  <2> QED BY <1>9, <1>10, <2>1, <2>2, <2>3
<1> DEFINE src(n) == IF n < L THEN n + 1 ELSE n
<1>12. ASSUME NEW j \in Occ(U)
       PROVE  \E n \in Slot : /\ j = at(n) /\ n # L /\ src(n) \in Slot /\ src(n) # 0
                             /\ at(src(n)) \in Occ(entries)
                             /\ U[j].id = entries[at(src(n))].id
  <2>1. PICK n \in Slot : j = at(n)
    BY <1>3 DEF Occ
  <2>2. n < L \/ n > L
    BY <1>0, <1>1, <1>6, <2>1
  <2>3. CASE n < L
    <3>1. src(n) = n + 1 /\ n + 1 \in Slot /\ n + 1 # 0 /\ at(n + 1) \in Occ(entries) /\ n # L
      BY <1>0, <1>1, <1>4, <2>3
    <3>2. U[j].id = entries[at(n + 1)].id
      BY <1>2, <2>1, <2>3 DEF at
    <3> HIDE DEF src
    <3> QED BY <2>1, <3>1, <3>2
  <2>4. CASE n > L
    <3>1. src(n) = n /\ n # 0 /\ at(n) \in Occ(entries) /\ n # L
      BY <1>0, <1>1, <1>7, <2>1, <2>4
    <3>2. U[j].id = entries[at(n)].id
      BY <1>2, <2>1, <2>4 DEF at
    <3> HIDE DEF src
    <3> QED BY <2>1, <3>1, <3>2
  <2> QED BY <2>2, <2>3, <2>4
<1>13. \A m, n \in Slot : m # L /\ n # L /\ src(m) = src(n) => m = n
  BY <1>0, <1>1
<1>14. \A j, k \in Occ(entries) : entries[j].id = entries[k].id => j = k
  BY DEF Sound
<1>15. ASSUME NEW j \in Occ(U), NEW k \in Occ(U), U[j].id = U[k].id PROVE j = k
  <2> HIDE DEF src
  <2>1. PICK m \in Slot : /\ j = at(m) /\ m # L /\ src(m) \in Slot
                          /\ at(src(m)) \in Occ(entries)
                          /\ U[j].id = entries[at(src(m))].id
    BY <1>12
  <2>2. PICK n \in Slot : /\ k = at(n) /\ n # L /\ src(n) \in Slot
                          /\ at(src(n)) \in Occ(entries)
                          /\ U[k].id = entries[at(src(n))].id
    BY <1>12
  <2>3. at(src(m)) = at(src(n))
    BY <1>14, <1>15, <2>1, <2>2
  <2>4. src(m) = src(n)
    BY <1>3, <2>1, <2>2, <2>3
  <2> QED BY <1>13, <2>1, <2>2, <2>4
<1>16. Sound(U)
  BY <1>2, <1>11, <1>15 DEF Sound
<1>17. ASSUME NEW x \in Ids(U) PROVE x \in Ids(entries) /\ x # entries[i].id
  <2> HIDE DEF src
  <2>1. PICK j \in Occ(U) : x = U[j].id
    BY DEF Ids
  <2>2. PICK n \in Slot : /\ src(n) \in Slot /\ src(n) # 0
                          /\ at(src(n)) \in Occ(entries)
                          /\ U[j].id = entries[at(src(n))].id
    BY <1>12
  <2>3. at(src(n)) # i
    BY <1>0, <1>3, <2>2
  <2> QED BY <1>14, <2>1, <2>2, <2>3 DEF Ids
<1>18. ASSUME NEW x \in Ids(entries), x # entries[i].id PROVE x \in Ids(U)
  <2>1. PICK k \in Occ(entries) : x = entries[k].id
    BY DEF Ids
  <2>2. PICK m \in Slot : k = at(m)
    BY <1>0, <1>3, <2>1
  <2>3. m # 0
    BY <1>3, <1>18, <2>1, <2>2
  <2>4. CASE m <= L
    <3>1. m - 1 \in Slot /\ m - 1 < L /\ (m - 1) + 1 = m
      BY <1>0, <1>1, <2>3, <2>4
    <3>2. U[at(m - 1)].id = entries[at(m)].id /\ at(m - 1) \in Occ(U)
      BY <1>2, <1>5, <3>1 DEF at
    <3> QED BY <2>1, <2>2, <3>2 DEF Ids
  <2>5. CASE m > L
    <3>1. U[at(m)] = entries[at(m)] /\ at(m) \in Occ(U)
      BY <1>2, <1>7, <2>1, <2>2, <2>5 DEF at
    <3> QED BY <2>1, <2>2, <3>1 DEF Ids
  <2> QED BY <1>0, <1>1, <2>4, <2>5
<1>19. Ids(U) = Ids(entries) \ {entries[i].id}
  BY <1>17, <1>18
<1> QED
  BY <1>6, <1>8, <1>16, <1>19

-----------------------------------------------------------------------------
(* insert's loop.                                                          *)

(* What insert's loop works on. A bound on its distances is proved below.  *)
Loose == [id: Id \cup {NoId}, dist: Nat]
Rounds == [table: [Slot -> Loose], incoming: Loose, placed: BOOLEAN]

(* One round of insert's loop.                                             *)
LEMMA RoundIs ==
  ASSUME NEW a \in Rounds, NEW h \in Slot, NEW n \in Slot
  PROVE  /\ Probe(h, a, n) \in Rounds
         /\ a.placed => Probe(h, a, n) = a
         /\ ~a.placed /\ a.table[Plus(h, n)] = Empty =>
              /\ Probe(h, a, n).placed
              /\ Probe(h, a, n).table = [a.table EXCEPT ![Plus(h, n)] = a.incoming]
         /\ /\ ~a.placed /\ a.table[Plus(h, n)] # Empty
            /\ a.table[Plus(h, n)].dist < a.incoming.dist
            => /\ ~Probe(h, a, n).placed
               /\ Probe(h, a, n).table = [a.table EXCEPT ![Plus(h, n)] = a.incoming]
               /\ Probe(h, a, n).incoming.id = a.table[Plus(h, n)].id
               /\ Probe(h, a, n).incoming.dist = a.table[Plus(h, n)].dist + 1
         /\ /\ ~a.placed /\ a.table[Plus(h, n)] # Empty
            /\ ~(a.table[Plus(h, n)].dist < a.incoming.dist)
            => /\ ~Probe(h, a, n).placed
               /\ Probe(h, a, n).table = a.table
               /\ Probe(h, a, n).incoming.id = a.incoming.id
               /\ Probe(h, a, n).incoming.dist = a.incoming.dist + 1
<1> DEFINE slot == Plus(h, n)
           here == a.table[slot]
           b == Probe(h, a, n)
<1>1. slot \in Slot
  <2>1. n \in 0..Capacity
    BY CapacityIsNat DEF Slot
  <2> QED BY <2>1, Ring
<1>2. /\ a.table \in [Slot -> Loose] /\ a.incoming \in Loose /\ a.placed \in BOOLEAN
      /\ here \in Loose
  BY <1>1 DEF Rounds
<1>3. CASE a.placed
  <2>1. b = a
    BY <1>3 DEF Probe
  <2> QED BY <1>3, <2>1
<1>4. CASE ~a.placed /\ here = Empty
  <2>1. b = [a EXCEPT !.table[slot] = a.incoming, !.placed = TRUE]
    BY <1>4 DEF Probe
  <2>2. [a.table EXCEPT ![slot] = a.incoming] \in [Slot -> Loose]
    BY <1>2
  <2>3. b = [table |-> [a.table EXCEPT ![slot] = a.incoming],
             incoming |-> a.incoming, placed |-> TRUE]
    BY <2>1 DEF Rounds
  <2>4. /\ b.placed /\ b.table = [a.table EXCEPT ![slot] = a.incoming]
        /\ b \in Rounds
    BY <1>2, <2>2, <2>3 DEF Rounds
  <2> QED BY <1>4, <2>4
<1>5. CASE ~a.placed /\ here # Empty /\ here.dist < a.incoming.dist
  <2>1. b = [a EXCEPT !.table[slot] = a.incoming,
                      !.incoming = [here EXCEPT !.dist = @ + 1]]
    BY <1>5 DEF Probe
  <2>2. [here EXCEPT !.dist = @ + 1] \in Loose
    BY <1>2 DEF Loose
  <2>5. [a.table EXCEPT ![slot] = a.incoming] \in [Slot -> Loose]
    BY <1>2
  <2>6. b = [table |-> [a.table EXCEPT ![slot] = a.incoming],
             incoming |-> [here EXCEPT !.dist = @ + 1], placed |-> a.placed]
    BY <2>1 DEF Rounds
  <2>3. /\ ~b.placed /\ b.table = [a.table EXCEPT ![slot] = a.incoming]
        /\ b.incoming = [here EXCEPT !.dist = @ + 1]
        /\ b \in Rounds
    BY <1>2, <1>5, <2>2, <2>5, <2>6 DEF Rounds
  <2>4. b.incoming.id = here.id /\ b.incoming.dist = here.dist + 1
    BY <1>2, <2>3 DEF Loose
  <2> QED BY <1>5, <2>3, <2>4
<1>6. CASE ~a.placed /\ here # Empty /\ ~(here.dist < a.incoming.dist)
  <2>1. b = [a EXCEPT !.incoming = [a.incoming EXCEPT !.dist = @ + 1]]
    BY <1>6 DEF Probe
  <2>2. [a.incoming EXCEPT !.dist = @ + 1] \in Loose
    BY <1>2 DEF Loose
  <2>3. /\ ~b.placed /\ b.table = a.table
        /\ b.incoming = [a.incoming EXCEPT !.dist = @ + 1]
        /\ b \in Rounds
    BY <1>1, <1>2, <1>6, <2>1, <2>2 DEF Rounds
  <2>4. b.incoming.id = a.incoming.id /\ b.incoming.dist = a.incoming.dist + 1
    BY <1>2, <2>3 DEF Loose
  <2> QED BY <1>6, <2>3, <2>4
<1> QED
  BY <1>2, <1>3, <1>4, <1>5, <1>6

(* Where insert's loop starts.                                             *)
Begun(id) == [table |-> entries, incoming |-> [id |-> id, dist |-> 0], placed |-> FALSE]

(* The distances it goes through.                                          *)
Turns == [n \in 1..Capacity |-> n - 1]

(* What FoldLeft iterates in Placed.                                       *)
Probes(g, id) ==
  g = [T \in SUBSET (1..Capacity) |->
         IF T = {} THEN Begun(id)
         ELSE Probe(hash[id], g[T \ {Max(T)}], Turns[Max(T)])]

(* Placed is what it comes to.                                             *)
LEMMA PlacedIsFold ==
  ASSUME NEW id
  PROVE  Placed(id) = (CHOOSE g : Probes(g, id))[1..Capacity].table
<1>1. DOMAIN Turns = 1..Capacity
  BY DEF Turns
<1> QED
  BY <1>1 DEF Placed, FoldLeft, MapThenFoldSet, Begun, Probes, Turns

(* insert's loop, round by round.                                          *)
LEMMA PlacesInRounds ==
  ASSUME HashType, entries \in [Slot -> EntryType], NEW id \in Id
  PROVE  \E F : /\ F \in [0..Capacity -> Rounds]
               /\ F[0] = Begun(id)
               /\ \A k \in 1..Capacity : F[k] = Probe(hash[id], F[k - 1], k - 1)
               /\ Placed(id) = F[Capacity].table
<1> DEFINE n == Capacity
           h == hash[id]
           step == [k \in 1..n |-> [a \in Rounds |-> Probe(h, a, k - 1)]]
           iter == CHOOSE g : Probes(g, id)
           origin == Begun(id)
<1>0. /\ n \in Nat /\ h \in Slot /\ \A k \in 1..n : k - 1 \in Slot
      /\ \A k \in 1..n : Turns[k] = k - 1
  BY CapacityIsNat DEF HashType, Slot, Turns
<1>1. origin \in Rounds
  <2>1. entries \in [Slot -> Loose]
    BY SlotIs DEF EntryType, Loose
  <2>2. [id |-> id, dist |-> 0] \in Loose
    BY DEF Loose
  <2> QED BY <2>1, <2>2 DEF Begun, Rounds
<1>2. \A k \in 1..n, a \in Rounds : Probe(h, a, k - 1) \in Rounds
  <2> TAKE k \in 1..n, a \in Rounds
  <2>1. h \in Slot /\ k - 1 \in Slot
    BY <1>0
  <2> HIDE DEF h
  <2> QED BY <2>1, RoundIs
<1>3. IsStep(step, n, Rounds)
  BY <1>2 DEF IsStep
<1>4. \A k \in 1..n, a \in Rounds : step[k][a] = Probe(h, a, k - 1)
  OBVIOUS
<1> HIDE DEF step, origin
<1>5. PICK g \in [SUBSET (1..n) -> Rounds] : FoldsUp(g, n, Rounds, origin, step)
  BY <1>0, <1>1, <1>3, FoldExists, Zenon
<1>6. \A T \in SUBSET (1..n) : T # {} => Max(T) \in 1..n
  BY <1>0, MaxOfPart
<1>7. Probes(g, id)
  <2>1. ASSUME NEW T \in SUBSET (1..n)
        PROVE  g[T] = IF T = {} THEN Begun(id)
                      ELSE Probe(hash[id], g[T \ {Max(T)}], Turns[Max(T)])
    <3>1. CASE T # {}
      <4>1. Max(T) \in 1..n /\ T \ {Max(T)} \in SUBSET (1..n)
        BY <1>6, <3>1
      <4>2. g[T \ {Max(T)}] \in Rounds
        BY <4>1
      <4>3. g[T] = step[Max(T)][g[T \ {Max(T)}]]
        BY <1>5, <3>1, <4>2, Zenon DEF FoldsUp
      <4>4. g[T] = Probe(h, g[T \ {Max(T)}], Max(T) - 1)
        BY <1>4, <4>1, <4>2, <4>3
      <4> QED BY <1>0, <3>1, <4>1, <4>4
    <3>2. CASE T = {}
      BY <3>2, <1>5 DEF FoldsUp, origin
    <3> QED BY <3>1, <3>2
  <2> QED BY <2>1 DEF Probes
<1>8. Probes(iter, id)
  BY <1>7, Zenon
<1>9. \A T \in SUBSET (1..n) :
        iter[T] = IF T = {} THEN Begun(id)
                  ELSE Probe(hash[id], iter[T \ {Max(T)}], Turns[Max(T)])
  <2> HIDE DEF iter
  <2> QED BY <1>8 DEF Probes
<1> HIDE DEF iter
<1>10. FoldsUp(iter, n, Rounds, origin, step)
  <2>1. \A T \in SUBSET (1..n) :
          T # {} /\ iter[T \ {Max(T)}] \in Rounds
            => iter[T] = step[Max(T)][iter[T \ {Max(T)}]]
    <3> TAKE T \in SUBSET (1..n)
    <3> HAVE T # {} /\ iter[T \ {Max(T)}] \in Rounds
    <3>1. Max(T) \in 1..n
      BY <1>6
    <3>2. iter[T] = Probe(h, iter[T \ {Max(T)}], Max(T) - 1)
      BY <1>0, <1>9, <3>1
    <3> QED BY <1>4, <3>1, <3>2
  <2>2. iter[{}] = origin
    BY <1>9 DEF origin
  <2> QED BY <2>1, <2>2 DEF FoldsUp
<1>11. PICK F : Steps(F, n, Rounds, origin, step) /\ iter[1..n] = F[n]
  BY <1>0, <1>1, <1>3, <1>10, FoldPrefixes
<1>12. F \in [0..n -> Rounds] /\ F[0] = origin /\ \A k \in 1..n : F[k] = step[k][F[k - 1]]
  BY <1>11 DEF Steps
<1>13. \A k \in 1..n : F[k] = Probe(h, F[k - 1], k - 1)
  <2> TAKE k \in 1..n
  <2>1. k - 1 \in 0..n
    BY <1>0
  <2>2. F[k - 1] \in Rounds
    BY <1>12, <2>1
  <2> QED BY <2>2, <1>4, <1>12
<1>14. Placed(id) = F[n].table
  BY <1>11, PlacedIsFold DEF iter
<1> QED
  BY <1>12, <1>13, <1>14 DEF origin

(* After k rounds without an empty slot: the table is in order, with the   *)
(* same slots taken; the incoming entry would fit at the next slot; and    *)
(* the ids of the table and its own are those to be there in the end.      *)
Travels(a, h, k, all) ==
  /\ ~a.placed
  /\ Sound(a.table)
  /\ Occ(a.table) = Occ(entries)
  /\ Fits(a.table, Plus(h, k), a.incoming)
  /\ a.incoming.dist <= k
  /\ a.incoming.id \notin Ids(a.table)
  /\ Ids(a.table) \cup {a.incoming.id} = all

(* A round at a taken slot.                                                *)
LEMMA TravelsOn ==
  ASSUME HashType, NEW h \in Slot, NEW k \in Slot, NEW all,
         NEW a \in Rounds, Travels(a, h, k, all), Plus(h, k) \in Occ(entries),
         k + 1 \in Slot, NEW b, b = Probe(h, a, k)
  PROVE  Travels(b, h, k + 1, all)
<1> DEFINE slot == Plus(h, k)
           further == Plus(h, k + 1)
           T == a.table
           inc == a.incoming
           here == T[slot]
<1>0. Slot \in SUBSET Nat /\ Slot = 0..(Capacity - 1) /\ Capacity \in Nat /\ Capacity >= 2
  BY SlotIs, CapacityIsNat DEF Slot
<1>1. slot \in Slot /\ further \in Slot /\ Pred(further) = slot /\ Plus(slot, 1) = further
  <2>1. k \in 0..Capacity /\ k + 1 \in 0..Capacity
    BY <1>0
  <2> QED BY <2>1, Ring DEF Pred
<1>2. /\ ~a.placed /\ Sound(T) /\ Occ(T) = Occ(entries) /\ Fits(T, slot, inc)
      /\ inc.dist <= k /\ inc.id \notin Ids(T) /\ Ids(T) \cup {inc.id} = all
  BY DEF Travels
<1>3. slot \in Occ(T) /\ here # Empty /\ Fits(T, slot, here) /\ here \in EntryType
  BY <1>2 DEF Occ, Sound
<1>4. inc \in EntryType /\ inc.dist \in Slot /\ inc.id \in Id
  <2>1. inc \in Loose /\ inc.dist \in Nat
    BY DEF Rounds, Loose
  <2>2. inc.dist \in Slot
    BY <1>0, <1>2, <2>1
  <2> QED BY <1>2, <2>1, <2>2 DEF Loose, EntryType, Fits
<1>5. here.dist \in Slot /\ here.dist \in Nat /\ inc.dist \in Nat /\ k \in Nat /\ here.id \in Id
  BY <1>0, <1>3, <1>4 DEF EntryType, Fits
<1>6. \A e \in EntryType : Fits(T, slot, e) => further = Plus(hash[e.id], e.dist + 1)
  <2> TAKE e \in EntryType
  <2> HAVE Fits(T, slot, e)
  <2>1. hash[e.id] \in Slot /\ e.dist \in Slot /\ slot = Plus(hash[e.id], e.dist)
    BY DEF HashType, Fits, EntryType
  <2>2. Plus(slot, 1) = Plus(hash[e.id], e.dist + 1)
    BY <2>1, Ring
  <2> QED BY <1>1, <2>2
<1>7. CASE here.dist < inc.dist
  <2>1. /\ ~b.placed /\ b.table = [T EXCEPT ![slot] = inc]
        /\ b.incoming.id = here.id /\ b.incoming.dist = here.dist + 1
    BY <1>2, <1>3, <1>7, RoundIs
  <2> DEFINE U == b.table
             new == b.incoming
  <2>2. here.dist <= inc.dist
    BY <1>5, <1>7
  <2>3. /\ Sound(U)
        /\ Occ(U) = Occ(T) \cup {slot}
        /\ Ids(U) = (Ids(T) \ {here.id}) \cup {inc.id}

    <3>1. slot \in Occ(T) => T[slot].dist <= inc.dist
      BY <2>2
    <3>2. U = [T EXCEPT ![slot] = inc]
      BY <2>1 DEF U
    <3>3. slot \in Slot /\ inc \in EntryType
      BY <1>1, <1>4
    <3>4. Sound(T) /\ Fits(T, slot, inc) /\ inc.id \notin Ids(T)
      BY <1>2
    <3>5. /\ Sound(U)
          /\ Occ(U) = Occ(T) \cup {slot}
          /\ Ids(U) = (Ids(T) \ {T[slot].id}) \cup {inc.id}
      BY <3>1, <3>2, <3>3, <3>4, Replace
    <3> QED BY <3>5
  <2>4. U[slot] = inc
    BY <1>1, <1>2, <2>1 DEF Sound
  <2>5. Fits(U, further, new)
    <3>1. further = Plus(hash[new.id], new.dist)
      BY <1>3, <1>6, <2>1
    <3>2. new.dist <= U[slot].dist + 1 /\ slot \in Occ(U)
      BY <1>3, <1>5, <2>1, <2>2, <2>3, <2>4
    <3>3. new.id \in Id
      BY <1>5, <2>1
    <3> HIDE DEF new, U, further, slot
    <3> QED BY <1>1, <3>1, <3>2, <3>3 DEF Fits
  <2>6. new.dist <= k + 1
    BY <1>2, <1>5, <2>1, <2>2
  <2>7. here.id \in Ids(T)
    BY <1>3 DEF Ids
  <2>8. new.id \notin Ids(U) /\ Ids(U) \cup {new.id} = all
    <3> HIDE DEF T, inc, slot, U, here
    <3> QED BY <1>2, <2>1, <2>3, <2>7
  <2>9. Occ(U) = Occ(entries)
    BY <1>2, <1>3, <2>3
  <2> QED BY <2>1, <2>3, <2>5, <2>6, <2>8, <2>9 DEF Travels
<1>8. CASE ~(here.dist < inc.dist)
  <2>1. /\ ~b.placed /\ b.table = T
        /\ b.incoming.id = inc.id /\ b.incoming.dist = inc.dist + 1
    BY <1>2, <1>3, <1>8, RoundIs
  <2> DEFINE new == b.incoming
  <2>2. inc.dist <= here.dist
    BY <1>5, <1>8
  <2>3. Fits(T, further, new)
    <3>1. further = Plus(hash[new.id], new.dist)
      BY <1>2, <1>4, <1>6, <2>1
    <3>2. new.dist <= T[slot].dist + 1
      BY <1>5, <2>1, <2>2
    <3>3. new.id \in Id
      BY <1>4, <2>1
    <3> HIDE DEF new, further, slot, T
    <3> QED BY <1>1, <1>3, <3>1, <3>2, <3>3 DEF Fits
  <2>4. new.dist <= k + 1
    BY <1>2, <1>5, <2>1
  <2> QED BY <1>2, <2>1, <2>3, <2>4 DEF Travels
<1> QED
  BY <1>7, <1>8

(* The round at the first empty slot. The slot after it held an entry at   *)
(* home, if any, for there was none before it.                             *)
LEMMA Arrives ==
  ASSUME HashType, NEW h \in Slot, NEW k \in Slot, NEW all,
         NEW a \in Rounds, Travels(a, h, k, all), Plus(h, k) \notin Occ(entries),
         NEW b, b = Probe(h, a, k)
  PROVE  /\ b.placed
         /\ Sound(b.table)
         /\ SomeHome(b.table)
         /\ Occ(b.table) = Occ(entries) \cup {Plus(h, k)}
         /\ Ids(b.table) = all
<1> DEFINE slot == Plus(h, k)
           T == a.table
           inc == a.incoming
           U == b.table
<1>0. Slot \in SUBSET Nat /\ Slot = 0..(Capacity - 1) /\ Capacity \in Nat /\ Capacity >= 2
  BY SlotIs, CapacityIsNat DEF Slot
<1>1. slot \in Slot
  <2>1. k \in 0..Capacity
    BY <1>0
  <2> QED BY <2>1, Ring
<1>2. /\ ~a.placed /\ Sound(T) /\ Occ(T) = Occ(entries) /\ Fits(T, slot, inc)
      /\ inc.dist <= k /\ inc.id \notin Ids(T) /\ Ids(T) \cup {inc.id} = all
  BY DEF Travels
<1>3. slot \notin Occ(T) /\ T[slot] = Empty /\ T \in [Slot -> EntryType]
  BY <1>1, <1>2 DEF Occ, Sound
<1>4. inc \in EntryType
  <2>1. inc \in Loose /\ inc.dist \in Nat
    BY DEF Rounds, Loose
  <2>2. inc.dist \in Slot
    BY <1>0, <1>2, <2>1
  <2> QED BY <1>2, <2>1, <2>2 DEF Loose, EntryType
<1>5. b.placed /\ U = [T EXCEPT ![slot] = inc]
  BY <1>2, <1>3, RoundIs
<1>6. NoId \notin Ids(T)
  <2>1. \A i \in Occ(T) : T[i].id \in Id
    BY <1>2 DEF Sound, Fits
  <2> QED BY <2>1, IdAssumption DEF Ids
<1>7. /\ Sound(U)
      /\ Occ(U) = Occ(T) \cup {slot}
      /\ Ids(U) = (Ids(T) \ {T[slot].id}) \cup {inc.id}

  <2>1. slot \in Slot /\ inc \in EntryType
    BY <1>1, <1>4
  <2>2. Sound(T) /\ Fits(T, slot, inc) /\ inc.id \notin Ids(T)
    BY <1>2
  <2>3. slot \in Occ(T) => T[slot].dist <= inc.dist
    BY <1>3
  <2>4. U = [T EXCEPT ![slot] = inc]
    BY <1>5
  <2> QED BY <2>1, <2>2, <2>3, <2>4, Replace
<1>8. Ids(U) = all
  BY <1>2, <1>3, <1>6, <1>7, EmptyIs
<1>9. SomeHome(U)
  <2> SUFFICES ASSUME Occ(U) = Slot PROVE \E i \in Slot : U[i].dist = 0
    BY DEF SomeHome
  <2> DEFINE j == Plus(slot, 1)
  <2>1. j \in Slot /\ j # slot /\ Pred(j) = slot
    <3>1. 1 \in 0..Capacity /\ 0 \in Slot /\ 0 + 1 = 1
      BY <1>0
    <3>2. j \in Slot /\ j # slot
      BY <1>1, <3>1, Ring
    <3>3. Plus(Plus(slot, 0 + 1), Capacity - 1) = Plus(slot, 0)
      BY <1>1, <3>1, Ring
    <3>4. Plus(slot, 0) = slot
      BY <1>1, Ring
    <3> QED BY <3>1, <3>2, <3>3, <3>4 DEF Pred
  <2> HIDE DEF j, T, U, slot
  <2>2. j \in Occ(T)
    BY <1>7, <2>1
  <2>3. Fits(T, j, T[j]) /\ T[j].dist \in Nat
    BY <1>0, <1>2, <2>1, <2>2, <1>3 DEF Sound, EntryType
  <2>4. ~(T[j].dist > 0)
    BY <1>3, <2>1, <2>3 DEF Fits
  <2>5. U[j] = T[j]
    BY <1>3, <1>5, <2>1 DEF U
  <2> QED BY <2>1, <2>3, <2>4, <2>5
<1> QED
  BY <1>2, <1>5, <1>7, <1>8, <1>9

(* insert keeps the order, takes one slot more, and loses no id.           *)
LEMMA PlacementKeeps ==
  ASSUME HashType, Sound(entries), NEW id \in Id, id \notin Ids(entries),
         Occ(entries) # Slot
  PROVE  /\ Sound(Placed(id))
         /\ SomeHome(Placed(id))
         /\ \E j \in Slot : j \notin Occ(entries) /\ Occ(Placed(id)) = Occ(entries) \cup {j}
         /\ Ids(Placed(id)) = Ids(entries) \cup {id}
<1> DEFINE h == hash[id]
           all == Ids(entries) \cup {id}
           Free == {s \in Slot : Plus(h, s) \notin Occ(entries)}
<1>0. /\ Slot \in SUBSET Nat /\ Slot = 0..(Capacity - 1) /\ Capacity \in Nat /\ Capacity >= 2
      /\ h \in Slot /\ entries \in [Slot -> EntryType]
  BY SlotIs, CapacityIsNat DEF Slot, HashType, Sound
<1> HIDE DEF h
<1>1. PICK F : /\ F \in [0..Capacity -> Rounds]
               /\ F[0] = Begun(id)
               /\ \A k \in 1..Capacity : F[k] = Probe(h, F[k - 1], k - 1)
               /\ Placed(id) = F[Capacity].table
  BY <1>0, PlacesInRounds DEF h
<1>2. Free # {}
  <2>1. PICK j \in Slot : j \notin Occ(entries)
    BY DEF Occ
  <2>2. Away(j, h) \in Slot /\ Plus(h, Away(j, h)) = j
    BY <1>0, AwayIs
  <2>3. Away(j, h) \in Free
    BY <2>1, <2>2
  <2> QED BY <2>3
<1>3. PICK q \in Free : \A s \in Free : q <= s
  <2>1. Free \in SUBSET Nat
    BY <1>0
  <2> HIDE DEF Free
  <2> QED BY <1>2, <2>1, LeastNat
<1>4. /\ q \in Slot /\ q \in Nat /\ Plus(h, q) \notin Occ(entries)
      /\ \A s \in Slot : s < q => Plus(h, s) \in Occ(entries)
  <2>1. q \in Slot /\ q \in Nat /\ Plus(h, q) \notin Occ(entries)
    BY <1>0
  <2>2. ASSUME NEW s \in Slot, s < q PROVE Plus(h, s) \in Occ(entries)
    <3>1. s \notin Free
      BY <1>0, <1>3, <2>1, <2>2
    <3> QED BY <3>1
  <2> QED BY <2>1, <2>2
<1>5. \A k \in 0..(Capacity - 1) : /\ F[k] \in Rounds /\ k \in Slot /\ k + 1 \in 1..Capacity
                                   /\ F[k + 1] = Probe(h, F[k], k)
  <2> TAKE k \in 0..(Capacity - 1)
  <2>1. k + 1 \in 1..Capacity /\ (k + 1) - 1 = k /\ k \in 0..Capacity /\ k \in Slot
    BY <1>0
  <2>2. F[k + 1] = Probe(h, F[(k + 1) - 1], (k + 1) - 1)
    BY <1>1, <2>1
  <2> QED BY <1>1, <2>1, <2>2
<1>6. Travels(F[0], h, 0, all)
  <2> DEFINE inc == [id |-> id, dist |-> 0]
  <2>1. F[0].table = entries /\ F[0].incoming = inc /\ ~F[0].placed
    BY <1>1 DEF Begun
  <2>2. inc.id = id /\ inc.dist = 0
    OBVIOUS
  <2>3. Plus(h, 0) = Plus(hash[inc.id], inc.dist)
    BY DEF h
  <2> HIDE DEF inc
  <2>4. Fits(entries, Plus(h, 0), inc)
    BY <2>2, <2>3 DEF Fits
  <2> QED BY <2>1, <2>2, <2>4 DEF Travels
<1>7. Travels(F[q], h, q, all)
  <2> DEFINE P == {k \in Nat : k <= q => Travels(F[k], h, k, all)}
  <2>1. 0 \in P
    BY <1>6
  <2>2. ASSUME NEW k \in P PROVE k + 1 \in P
    <3>1. CASE k + 1 <= q
      <4>1. k \in Slot /\ k + 1 \in Slot /\ k < q /\ k \in 0..(Capacity - 1)
        BY <1>0, <1>4, <3>1
      <4>2. Travels(F[k], h, k, all)
        BY <1>0, <1>4, <3>1
      <4>3. F[k] \in Rounds /\ F[k + 1] = Probe(h, F[k], k) /\ Plus(h, k) \in Occ(entries)
        BY <1>4, <1>5, <4>1
      <4> HIDE DEF all, P
      <4>4. Travels(F[k + 1], h, k + 1, all)
        BY <1>0, <4>1, <4>2, <4>3, TravelsOn
      <4> QED BY <4>4 DEF P
    <3>2. CASE ~(k + 1 <= q)
      BY <3>2
    <3> QED BY <3>1, <3>2
  <2>3. P \in SUBSET Nat
    OBVIOUS
  <2> HIDE DEF P
  <2>4. P = Nat
    BY <2>1, <2>2, <2>3, Induction
  <2>5. q \in P
    BY <1>4, <2>4
  <2>6. q <= q => Travels(F[q], h, q, all)
    BY <2>5 DEF P
  <2> QED BY <1>4, <2>6
<1> DEFINE b == F[q + 1]
<1>8. /\ b.placed /\ Sound(b.table) /\ SomeHome(b.table)
      /\ Occ(b.table) = Occ(entries) \cup {Plus(h, q)}
      /\ Ids(b.table) = all
  <2>1. q \in 0..(Capacity - 1)
    BY <1>0, <1>4
  <2>2. F[q] \in Rounds /\ b = Probe(h, F[q], q)
    BY <1>5, <2>1
  <2> HIDE DEF b, all
  <2> QED BY <1>0, <1>4, <1>7, <2>2, Arrives
<1>9. F[Capacity] = b
  <2> DEFINE P == {n \in Nat : q + 1 + n <= Capacity => F[q + 1 + n] = b}
  <2>1. 0 \in P
    BY <1>4
  <2>2. ASSUME NEW n \in P PROVE n + 1 \in P
    <3>1. CASE q + 1 + (n + 1) <= Capacity
      <4> DEFINE k == q + 1 + n
      <4>1. k \in 0..(Capacity - 1) /\ q + 1 + (n + 1) = k + 1 /\ k <= Capacity /\ n \in Nat
        BY <1>0, <1>4, <3>1
      <4>2. F[k] = b
        BY <4>1
      <4> HIDE DEF k, P
      <4>3. F[k] \in Rounds /\ F[k + 1] = Probe(h, F[k], k) /\ k \in Slot
        BY <1>5, <4>1
      <4>4. Probe(h, F[k], k) = F[k]
        <5>1. F[k].placed
          BY <1>8, <4>2
        <5>2. h \in Slot /\ F[k] \in Rounds /\ k \in Slot
          BY <1>0, <4>3
        <5> HIDE DEF b
        <5>3. \A a \in Rounds, g, s \in Slot : a.placed => Probe(g, a, s) = a
          BY RoundIs
        <5> QED BY <5>1, <5>2, <5>3
      <4>5. F[k + 1] = b
        BY <4>2, <4>3, <4>4
      <4> QED BY <4>1, <4>5 DEF P
    <3>2. CASE ~(q + 1 + (n + 1) <= Capacity)
      BY <3>2
    <3> QED BY <3>1, <3>2
  <2>3. P \in SUBSET Nat
    OBVIOUS
  <2> HIDE DEF P
  <2>4. P = Nat
    BY <2>1, <2>2, <2>3, Induction
  <2>5. Capacity - (q + 1) \in P /\ q + 1 + (Capacity - (q + 1)) = Capacity
    BY <1>0, <1>4, <2>4
  <2>6. q + 1 + (Capacity - (q + 1)) <= Capacity => F[q + 1 + (Capacity - (q + 1))] = b
    BY <2>5 DEF P
  <2> QED BY <1>0, <2>5, <2>6
<1>10. Plus(h, q) \in Slot
  <2>1. q \in 0..Capacity
    BY <1>0, <1>4
  <2> QED BY <1>0, <2>1, Ring
<1>11. Placed(id) = b.table
  BY <1>1, <1>9
<1> HIDE DEF b, h
<1> QED
  BY <1>4, <1>8, <1>10, <1>11

-----------------------------------------------------------------------------
(* The invariant.                                                          *)

(* The table holds as many ids as it has taken slots.                      *)
LEMMA CountIs ==
  ASSUME NEW T, Sound(T)
  PROVE  /\ IsFiniteSet(Occ(T)) /\ Cardinality(Occ(T)) \in 0..Capacity
         /\ Cardinality(Occ(T)) = Capacity <=> Occ(T) = Slot
         /\ Cardinality(Ids(T)) = Cardinality(Occ(T))
<1>0. Capacity \in Nat /\ Capacity >= 2 /\ Slot = 0..(Capacity - 1) /\ Occ(T) \subseteq Slot
  BY CapacityIsNat DEF Slot, Occ
<1>1. IsFiniteSet(Slot) /\ Cardinality(Slot) = Capacity
  <2>1. IsFiniteSet(0..(Capacity - 1)) /\ Cardinality(0..(Capacity - 1)) = Capacity
    BY <1>0, FS_Interval
  <2> QED BY <1>0, <2>1
<1>2. /\ IsFiniteSet(Occ(T)) /\ Cardinality(Occ(T)) \in Nat
      /\ Cardinality(Occ(T)) <= Capacity
      /\ Cardinality(Occ(T)) = Capacity <=> Occ(T) = Slot
  <2>1. /\ IsFiniteSet(Occ(T)) /\ Cardinality(Occ(T)) <= Cardinality(Slot)
        /\ Cardinality(Occ(T)) = Cardinality(Slot) => Occ(T) = Slot
    BY <1>0, <1>1, FS_Subset
  <2> QED BY <1>1, <2>1, FS_CardinalityType
<1>3. Cardinality(Ids(T)) = Cardinality(Occ(T))
  <2> DEFINE f == [i \in Occ(T) |-> T[i].id]
  <2>1. f \in Bijection(Occ(T), Ids(T))
    <3>1. f \in [Occ(T) -> Ids(T)]
      BY DEF Ids
    <3>2. \A i, j \in Occ(T) : f[i] = f[j] => i = j
      BY DEF Sound
    <3>3. \A x \in Ids(T) : \E i \in Occ(T) : f[i] = x
      BY DEF Ids
    <3> HIDE DEF f
    <3> QED BY <3>1, <3>2, <3>3 DEF Bijection, Injection, Surjection, IsInjective
  <2>2. ExistsBijection(Occ(T), Ids(T))
    BY <2>1, Zenon DEF ExistsBijection
  <2> QED BY <1>2, <2>2, FS_Bijection
<1> QED
  BY <1>0, <1>2, <1>3

(* A token that is still good names the slot of its id.                    *)
TokenFits ==
  /\ token \in [id: Id \cup {NoId}, index: Slot \cup {NoSlot}, fresh: BOOLEAN]
  /\ token.fresh => /\ token.index \in Occ(entries)
                    /\ entries[token.index].id = token.id

(* The inductive invariant. Searches, and with them the refinement, rest   *)
(* on the order of the table; the order alone does not give an end to      *)
(* compaction in a full table, which needs an entry at home; and           *)
(* erase(token), which does not search, needs TokenFits.                   *)
Inv ==
  /\ HashType
  /\ Sound(entries)
  /\ SomeHome(entries)
  /\ size = Cardinality(Occ(entries))
  /\ TokenFits

(* Table U is sound, and has n slots taken.                                *)
AfterChange(U, n) ==
  /\ Sound(U) /\ SomeHome(U) /\ Cardinality(Occ(U)) = n

(* A change of the table that leaves it sound and lets tokens expire keeps *)
(* the invariant.                                                          *)
LEMMA Changed ==
  ASSUME Inv, NEW U, NEW n, AfterChange(U, n),
         entries' = U, size' = n, Revise, UNCHANGED hash
  PROVE  Inv'
<1>1. HashType'
  BY DEF Inv, HashType
<1>2. Sound(entries)'
  BY DEF AfterChange, Sound, Fits, Occ, Pred, Plus
<1>3. SomeHome(entries)'
  BY DEF AfterChange, SomeHome, Occ
<1>4. (size = Cardinality(Occ(entries)))'
  BY DEF AfterChange, Occ
<1>5. TokenFits'
  BY DEF Inv, TokenFits, Revise
<1> QED
  BY <1>1, <1>2, <1>3, <1>4, <1>5 DEF Inv

(* So does a call that changes nothing.                                    *)
LEMMA Stutters ==
  ASSUME Inv, UNCHANGED <<hash, entries, size, token>>
  PROVE  Inv'
  BY DEF Inv, HashType, Sound, SomeHome, Fits, Occ, Pred, Plus, TokenFits

(* An insertion that is not refused.                                       *)
LEMMA Inserts ==
  ASSUME Inv, NEW id \in Id, Insert(id), FindIndex(id) = NoSlot, size # Capacity
  PROVE  /\ id \notin Ids(entries)
         /\ AfterChange(Placed(id), size + 1)
         /\ Ids(Placed(id)) = Ids(entries) \cup {id}
<1>1. id \notin Ids(entries)
  BY SearchIsExact DEF Inv
<1>2. Occ(entries) # Slot
  BY CountIs DEF Inv
<1>3. /\ Sound(Placed(id)) /\ SomeHome(Placed(id))
      /\ \E j \in Slot : j \notin Occ(entries) /\ Occ(Placed(id)) = Occ(entries) \cup {j}
      /\ Ids(Placed(id)) = Ids(entries) \cup {id}
  BY <1>1, <1>2, PlacementKeeps DEF Inv
<1>4. Cardinality(Occ(Placed(id))) = size + 1
  BY <1>3, CountIs, FS_AddElement DEF Inv
<1> QED
  BY <1>1, <1>3, <1>4 DEF AfterChange

(* An erasure.                                                             *)
LEMMA Erases ==
  ASSUME Inv, NEW i \in Occ(entries)
  PROVE  /\ AfterChange(Shifted(i), size - 1)
         /\ Ids(Shifted(i)) = Ids(entries) \ {entries[i].id}
<1>1. /\ Sound(Shifted(i))
      /\ \E j \in Occ(entries) : Occ(Shifted(i)) = Occ(entries) \ {j}
      /\ Ids(Shifted(i)) = Ids(entries) \ {entries[i].id}
  BY ShiftKeeps DEF Inv
<1>2. PICK j \in Occ(entries) : Occ(Shifted(i)) = Occ(entries) \ {j}
  BY <1>1
<1>3. Cardinality(Occ(Shifted(i))) = size - 1
  BY <1>2, CountIs, FS_RemoveElement DEF Inv
<1>4. SomeHome(Shifted(i))
  BY <1>2 DEF SomeHome, Occ
<1> QED
  BY <1>1, <1>3, <1>4 DEF AfterChange

(* An empty table.                                                         *)
LEMMA Clears ==
  LET U == [i \in Slot |-> Empty]
  IN AfterChange(U, 0) /\ Ids(U) = {}
<1> DEFINE U == [i \in Slot |-> Empty]
<1>1. Occ(U) = {} /\ U \in [Slot -> EntryType]
  BY EmptyIs DEF Occ
<1>2. 0 \in Slot /\ U[0] = Empty
  BY SlotIs
<1> HIDE DEF U
<1>3. Sound(U)
  BY <1>1 DEF Sound
<1>4. SomeHome(U)
  BY <1>1, <1>2 DEF SomeHome
<1>5. Cardinality(Occ(U)) = 0
  BY <1>1, FS_EmptySet
<1>6. Ids(U) = {}
  BY <1>1 DEF Ids
<1> QED
  BY <1>3, <1>4, <1>5, <1>6 DEF AfterChange, U

-----------------------------------------------------------------------------
(* Every step, and the theorems.                                           *)

(* The abstract state: the ids in the table, and the token without its     *)
(* slot.                                                                   *)
IdsNow == {entries[i].id : i \in Occupied}
TokenNow == [id |-> token.id, fresh |-> token.fresh]

(* A change of the set, as IdIndex has it.                                 *)
Expires == TokenNow' = [TokenNow EXCEPT !.fresh = FALSE]

(* The ids in the table.                                                   *)
LEMMA IdsNowIs == IdsNow = Ids(entries) /\ IdsNow' = Ids(entries')
  BY DEF IdsNow, Ids, Occ, Occupied

(* A record with another value of fresh.                                   *)
LEMMA Freshness ==
  ASSUME NEW a, NEW b, NEW c
  PROVE  [[id |-> a, fresh |-> b] EXCEPT !.fresh = c] = [id |-> a, fresh |-> c]
  OBVIOUS

(* IdIndex counts as this module does.                                     *)
LEMMA SameCount == \A S : Index!Cardinality(S) = Cardinality(S)
  BY Zenon DEF Index!Cardinality, Cardinality

(* A change of the table is a change of the set.                           *)
LEMMA SetChanges ==
  ASSUME Inv, NEW U, NEW n, AfterChange(U, n),
         entries' = U, size' = n, Revise, UNCHANGED hash
  PROVE  Inv' /\ IdsNow' = Ids(U) /\ Expires
<1>1. Inv'
  BY Changed
<1>2. IdsNow' = Ids(U)
  BY IdsNowIs
<1>3. token'.id = token.id /\ token'.fresh = FALSE
  BY DEF Revise, Inv, TokenFits
<1>4. Expires
  <2>1. TokenNow' = [id |-> token.id, fresh |-> FALSE]
    BY <1>3 DEF TokenNow
  <2>2. [TokenNow EXCEPT !.fresh = FALSE] = [id |-> token.id, fresh |-> FALSE]
    BY Freshness, Zenon DEF TokenNow
  <2> QED BY <2>1, <2>2 DEF Expires
<1> QED
  BY <1>1, <1>2, <1>4

(* A call that changes nothing does not change the set.                    *)
LEMMA SetStays ==
  ASSUME Inv, NEW text, Reply(text)
  PROVE  Inv' /\ answer' = text /\ UNCHANGED <<IdsNow, TokenNow>>
<1>1. Inv'
  BY Stutters DEF Reply
<1>2. UNCHANGED <<IdsNow, TokenNow>>
  BY IdsNowIs DEF Reply, TokenNow
<1> QED
  BY <1>1, <1>2 DEF Reply

(* Every call keeps the invariant and is the call of IdIndex by that name: *)
(* insert,                                                                 *)
LEMMA InsertStep ==
  ASSUME Inv, NEW id \in Id, Insert(id)
  PROVE  Inv' /\ Index!Insert(id)
<1>0. id \in IdsNow <=> FindIndex(id) # NoSlot
  BY SearchIsExact, IdsNowIs DEF Inv
<1>1. CASE FindIndex(id) # NoSlot /\ Reply("DuplicateOrderId")
  <2>1. Inv' /\ answer' = "DuplicateOrderId" /\ UNCHANGED <<IdsNow, TokenNow>>
    BY <1>1, SetStays
  <2>2. id \in IdsNow
    BY <1>0, <1>1
  <2> QED BY <2>1, <2>2, Zenon DEF Index!Insert, IdsNow, TokenNow
<1>2. CASE FindIndex(id) = NoSlot /\ size = Capacity /\ Reply("OrderIdMapFull")
  <2>1. Inv' /\ answer' = "OrderIdMapFull" /\ UNCHANGED <<IdsNow, TokenNow>>
    BY <1>2, SetStays
  <2>2. id \notin IdsNow /\ Cardinality(IdsNow) = Capacity
    BY <1>0, <1>2, CountIs, IdsNowIs DEF Inv
  <2>3. Index!Cardinality(IdsNow) = Capacity
    BY <2>2, SameCount
  <2> QED BY <2>1, <2>2, <2>3, Zenon DEF Index!Insert, IdsNow, TokenNow
<1>3. CASE /\ FindIndex(id) = NoSlot /\ size # Capacity
           /\ entries' = Placed(id)
           /\ size' = size + 1
           /\ answer' = "Accepted"
           /\ Revise
           /\ UNCHANGED hash
  <2>1. AfterChange(Placed(id), size + 1) /\ Ids(Placed(id)) = IdsNow \cup {id}
    BY <1>3, Inserts, IdsNowIs
  <2>2. Inv' /\ IdsNow' = IdsNow \cup {id} /\ Expires
    <3>1. Inv' /\ IdsNow' = Ids(Placed(id)) /\ Expires
      BY <1>3, <2>1, SetChanges
    <3> QED BY <2>1, <3>1
  <2>3. id \notin IdsNow /\ Cardinality(IdsNow) < Capacity
    BY <1>0, <1>3, CountIs, CapacityIsNat, IdsNowIs DEF Inv
  <2>4. Index!Cardinality(IdsNow) < Capacity
    BY <2>3, SameCount
  <2>5. answer' = "Accepted"
    BY <1>3
  <2> QED BY <2>2, <2>3, <2>4, <2>5, Zenon
         DEF Index!Insert, Index!Change, IdsNow, TokenNow, Expires
<1> QED
  BY <1>1, <1>2, <1>3 DEF Insert

(* find,                                                                   *)
LEMMA FindStep ==
  ASSUME Inv, NEW id \in Id, Find(id)
  PROVE  Inv' /\ Index!Find(id)
<1>1. Inv' /\ answer' = Found(id) /\ UNCHANGED <<IdsNow, TokenNow>>
  BY SetStays DEF Find
<1>2. Found(id) = IF id \in IdsNow THEN "found" ELSE "missing"
  BY SearchIsExact, IdsNowIs DEF Inv, Found
<1> QED
  BY <1>1, <1>2 DEF Index!Find, IdsNow, TokenNow

(* find_for_erase,                                                         *)
LEMMA FindForEraseStep ==
  ASSUME Inv, NEW id \in Id, FindForErase(id)
  PROVE  Inv' /\ Index!FindForErase(id)
<1>1. /\ id \in IdsNow <=> FindIndex(id) # NoSlot
      /\ FindIndex(id) # NoSlot =>
           FindIndex(id) \in Occ(entries) /\ entries[FindIndex(id)].id = id
  BY SearchIsExact, IdsNowIs DEF Inv
<1>2. answer' = IF id \in IdsNow THEN "found" ELSE "missing"
  BY <1>1 DEF FindForErase, Found
<1>3. UNCHANGED IdsNow
  BY IdsNowIs DEF FindForErase
<1>4. TokenNow' = IF id \in IdsNow THEN [id |-> id, fresh |-> TRUE]
                  ELSE [id |-> NoId, fresh |-> FALSE]
  BY <1>1 DEF FindForErase, TokenNow, NoToken
<1>5. TokenFits'
  BY <1>1 DEF FindForErase, TokenFits, NoToken, Occ
<1>6. Inv'
  BY <1>5 DEF FindForErase, Inv, HashType, Sound, SomeHome, Fits, Occ, Pred, Plus
<1> QED
  BY <1>2, <1>3, <1>4, <1>6 DEF Index!FindForErase, Index!NoToken, IdsNow, TokenNow

(* erase_index, which is part of                                           *)
LEMMA EraseIndexStep ==
  ASSUME Inv, NEW i \in Occ(entries), EraseIndex(i)
  PROVE  Inv' /\ answer' = "erased" /\ IdsNow' = IdsNow \ {entries[i].id} /\ Expires
<1>1. AfterChange(Shifted(i), size - 1) /\ Ids(Shifted(i)) = IdsNow \ {entries[i].id}
  BY Erases, IdsNowIs
<1>2. entries' = Shifted(i) /\ size' = size - 1 /\ Revise /\ UNCHANGED hash /\ answer' = "erased"
  BY DEF EraseIndex
<1>3. Inv' /\ IdsNow' = Ids(Shifted(i)) /\ Expires
  BY <1>1, <1>2, SetChanges
<1> QED
  BY <1>1, <1>2, <1>3

(* erase(id)                                                               *)
LEMMA EraseStep ==
  ASSUME Inv, NEW id \in Id, Erase(id)
  PROVE  Inv' /\ Index!Erase(id)
<1>1. /\ id \in IdsNow <=> FindIndex(id) # NoSlot
      /\ FindIndex(id) # NoSlot =>
           FindIndex(id) \in Occ(entries) /\ entries[FindIndex(id)].id = id
  BY SearchIsExact, IdsNowIs DEF Inv
<1>2. CASE FindIndex(id) = NoSlot /\ Reply("refused")
  <2>1. Inv' /\ answer' = "refused" /\ UNCHANGED <<IdsNow, TokenNow>>
    BY <1>2, SetStays
  <2> QED BY <1>1, <1>2, <2>1 DEF Index!Erase, IdsNow, TokenNow
<1>3. CASE FindIndex(id) # NoSlot /\ EraseIndex(FindIndex(id))
  <2>1. Inv' /\ answer' = "erased" /\ IdsNow' = IdsNow \ {id} /\ Expires
    <3>1. FindIndex(id) \in Occ(entries) /\ entries[FindIndex(id)].id = id
      BY <1>1, <1>3
    <3>2. Inv' /\ answer' = "erased" /\ IdsNow' = IdsNow \ {entries[FindIndex(id)].id} /\ Expires
      BY <1>3, <3>1, EraseIndexStep
    <3> QED BY <3>1, <3>2
  <2> QED BY <1>1, <1>3, <2>1 DEF Index!Erase, Index!Change, IdsNow, TokenNow, Expires
<1> QED
  BY <1>2, <1>3 DEF Erase

(* and erase(token),                                                       *)
LEMMA EraseTokenStep ==
  ASSUME Inv, EraseToken
  PROVE  Inv' /\ Index!EraseToken
<1> DEFINE good == token.fresh /\ entries[token.index].id = token.id
<1>1. /\ good <=> TokenNow.fresh
      /\ good => token.index \in Occ(entries) /\ entries[token.index].id = TokenNow.id
  BY DEF Inv, TokenFits, TokenNow
<1>2. (~good /\ Reply("refused")) \/ (good /\ EraseIndex(token.index))
  BY DEF EraseToken
<1> HIDE DEF good
<1>3. CASE ~good /\ Reply("refused")
  <2>1. Inv' /\ answer' = "refused" /\ UNCHANGED <<IdsNow, TokenNow>>
    BY <1>3, SetStays
  <2> QED BY <1>1, <1>3, <2>1 DEF Index!EraseToken, IdsNow, TokenNow
<1>4. CASE good /\ EraseIndex(token.index)
  <2>1. Inv' /\ answer' = "erased" /\ IdsNow' = IdsNow \ {TokenNow.id} /\ Expires
    <3>1. token.index \in Occ(entries)
      BY <1>1, <1>4
    <3>2. Inv' /\ answer' = "erased" /\ IdsNow' = IdsNow \ {entries[token.index].id} /\ Expires
      BY <1>4, <3>1, EraseIndexStep
    <3> QED BY <1>1, <1>4, <3>2
  <2> QED BY <1>1, <1>4, <2>1 DEF Index!EraseToken, Index!Change, IdsNow, TokenNow, Expires
<1> QED
  BY <1>2, <1>3, <1>4

(* and clear.                                                              *)
LEMMA ClearStep ==
  ASSUME Inv, Clear
  PROVE  Inv' /\ Index!Clear
<1> DEFINE U == [i \in Slot |-> Empty]
<1>1. AfterChange(U, 0) /\ Ids(U) = {}
  BY Clears
<1>2. entries' = U /\ size' = 0 /\ Revise /\ UNCHANGED hash /\ answer' = "none"
  BY DEF Clear
<1>3. Inv' /\ IdsNow' = Ids(U) /\ Expires
  BY <1>1, <1>2, SetChanges
<1>4. IdsNow' = {} /\ Expires
  BY <1>1, <1>3
<1> QED
  BY <1>2, <1>3, <1>4 DEF Index!Clear, Index!Change, IdsNow, TokenNow, Expires

(* The initial states.                                                     *)
LEMMA NewTable ==
  ASSUME Init
  PROVE  Inv /\ Index!Init
<1> DEFINE U == [i \in Slot |-> Empty]
<1>1. AfterChange(U, 0) /\ Ids(U) = {}
  BY Clears
<1>2. entries = U /\ size = 0 /\ token = NoToken /\ hash \in [Id -> Slot] /\ answer = "none"
  BY DEF Init
<1> HIDE DEF U
<1>3. Inv
  BY <1>1, <1>2 DEF AfterChange, Inv, HashType, TokenFits, NoToken
<1>4. IdsNow = {}
  BY <1>1, <1>2, IdsNowIs
<1>5. TokenNow = [id |-> NoId, fresh |-> FALSE]
  BY <1>2 DEF NoToken, TokenNow
<1> QED
  BY <1>2, <1>3, <1>4, <1>5 DEF Index!Init, Index!NoToken, IdsNow, TokenNow

(* Every step.                                                             *)
LEMMA EveryStep ==
  ASSUME Inv, [Next]_vars
  PROVE  Inv' /\ [Index!Next]_(Index!vars)
<1>1. CASE UNCHANGED vars
  <2>1. Reply(answer)
    BY <1>1 DEF vars, Reply
  <2>2. Inv' /\ answer' = answer /\ UNCHANGED <<IdsNow, TokenNow>>
    BY <2>1, SetStays
  <2> QED BY <2>2 DEF Index!vars, IdsNow, TokenNow
<1>2. ASSUME NEW id \in Id, Insert(id) \/ Find(id) \/ FindForErase(id) \/ Erase(id)
      PROVE  Inv' /\ Index!Next
  BY <1>2, InsertStep, FindStep, FindForEraseStep, EraseStep DEF Index!Next
<1>3. CASE EraseToken
  BY <1>3, EraseTokenStep DEF Index!Next
<1>4. CASE Clear
  BY <1>4, ClearStep DEF Index!Next
<1> QED
  BY <1>1, <1>2, <1>3, <1>4 DEF Next

(* Inv is an invariant.                                                    *)
LEMMA Invariance == Spec => []Inv
<1>1. Init => Inv
  BY NewTable
<1>2. Inv /\ [Next]_vars => Inv'
  BY EveryStep
<1> QED
  BY <1>1, <1>2, PTL DEF Spec

(* The table is in Robin Hood order, every entry within reach of its home, *)
(* after any insertions, erasures and compactions, whatever the hash       *)
(* function and the (power of two) capacity.                               *)
THEOREM TableIsAlwaysSound == Spec => []TableIsSound
<1>1. Inv => TableIsSound
  <2> SUFFICES ASSUME Inv PROVE TableIsSound
    OBVIOUS
  <2>1. Occupied = Occ(entries) /\ \A i \in Occ(entries) : i \in Slot
    BY DEF Occupied, Occ
  <2>2. entries \in [Slot -> EntryType] /\ \A i \in Occ(entries) : Fits(entries, i, entries[i])
    BY DEF Inv, Sound
  <2> QED BY <2>1, <2>2 DEF TableIsSound, Inv, Fits, Pred, EntryType
<1> QED
  BY <1>1, Invariance, PTL

(* erase_index's loop, which has no bound of its own, always meets an      *)
(* entry that ends it, even in a full table.                               *)
THEOREM CompactionAlwaysEnds == Spec => []CompactionEnds
<1>1. Inv => CompactionEnds
  BY Compacts DEF CompactionEnds, Inv, Occupied, Occ
<1> QED
  BY <1>1, Invariance, PTL

(* The table answers every call as IdIndex does: no search misses an id,   *)
(* insertion is refused only for a duplicate or when every slot is taken,  *)
(* and a token erases its own id or nothing.                               *)
THEOREM AlwaysAnIdIndex == Spec => ImplementsIdIndex
<1>1. Init => Index!Init
  BY NewTable
<1>2. Inv /\ [Next]_vars => [Index!Next]_(Index!vars)
  BY EveryStep
<1> QED
  BY <1>1, <1>2, Invariance, PTL DEF Spec, ImplementsIdIndex, Index!Spec

-----------------------------------------------------------------------------
(* The logs.                                                               *)

(* The inductive invariant: the span is exact because what is still        *)
(* reserved fits behind it. A log without slots never leaves index 0.      *)
LogInv ==
  /\ LogTypeOK
  /\ SpanIsOperation
  /\ ReservationFits
  /\ capacity = 0 => write = 0

(* A new log satisfies the invariant. *)
LEMMA LogInvInit == LogInit => LogInv
BY LogAssumption DEF LogInit, LogInv, LogTypeOK, SpanIsOperation, ReservationFits, LogIndex,
  Kind, Unsequenced

(* Starting an operation preserves it: the span is empty, and the write    *)
(* index moved to the start if the reservation needs it.                   *)
LEMMA StartPreserves == ASSUME LogInv, NEW n \in Needs, Start(n) PROVE LogInv'
<1> USE LogAssumption DEF LogInv, LogTypeOK, LogIndex
<1>1. n \in Nat /\ capacity \in Nat /\ (capacity = 0 => n = 0)
  BY DEF Needs
<1>2. CanRecord(n) => n <= capacity
  BY <1>1 DEF CanRecord, Kind
<1>3. CanRecord(n) /\ kind = "market" => n <= MaxSequence - sequence
  BY <1>1 DEF CanRecord
<1>4. LogTypeOK'
  BY <1>1, <1>2 DEF Start
<1>5. ReservationFits'
  BY <1>1, <1>2, <1>3 DEF Start, ReservationFits
<1>6. SpanIsOperation'
  BY <1>1, <1>2 DEF Start, SpanIsOperation
<1>7. (capacity = 0 => write = 0)'
  BY <1>1 DEF Start
<1> QED BY <1>4, <1>5, <1>6, <1>7

(* With room reserved, an append keeps its event and preserves it.         *)
LEMMA StorePreserves ==
  ASSUME LogInv, NEW n \in 0..MaxSequence, Store(n), sequence' \in 0..MaxSequence,
         kind = "market" => sequence' = sequence + 1
  PROVE  LogInv'
<1> USE LogAssumption DEF LogInv, LogTypeOK, LogIndex
<1>1. Keeps
  BY DEF Store, Keeps, ReservationFits
<1>2. /\ slots' = [slots EXCEPT ![write] = n]
      /\ write' = IF write + 1 = capacity THEN 0 ELSE write + 1
      /\ span' = span + 1
      /\ reserved > 0 /\ reserved' = reserved - 1
      /\ emitted' = Append(emitted, n)
      /\ kind' = kind /\ capacity' = capacity /\ begin' = begin
  BY <1>1 DEF Store
<1>3. write = begin + span /\ write \in LogIndex /\ capacity \in Nat
  BY <1>2 DEF ReservationFits
<1>4. LogTypeOK'
  BY <1>2, <1>3
<1>5. ReservationFits'
  <2>1. begin' + span' + reserved' <= capacity'
    BY <1>2, <1>3 DEF ReservationFits
  <2>2. reserved' > 0 => write' = begin' + span'
    BY <1>2, <1>3 DEF ReservationFits
  <2>3. kind' = "market" => reserved' <= MaxSequence - sequence'
    BY <1>2 DEF ReservationFits
  <2> QED BY <2>1, <2>2, <2>3 DEF ReservationFits
<1>6. SpanIsOperation'
  <2>1. Len(emitted') = span' /\ begin' + span' <= capacity'
    BY <1>2, <1>3 DEF SpanIsOperation
  <2>2. ASSUME NEW i \in 1..span' PROVE slots'[begin' + i - 1] = emitted'[i]
    <3>1. CASE i = span + 1
      <4>1. begin' + i - 1 = write
        BY <3>1, <1>2, <1>3
      <4>2. slots'[write] = n
        BY <1>2, <1>3
      <4>3. emitted'[i] = n
        BY <3>1, <1>2 DEF SpanIsOperation
      <4> QED BY <4>1, <4>2, <4>3
    <3>2. CASE i \in 1..span
      <4>1. begin + i - 1 \in LogIndex /\ begin + i - 1 # write
        BY <3>2, <1>3
      <4>2. slots'[begin + i - 1] = slots[begin + i - 1]
        BY <4>1, <1>2
      <4>3. emitted'[i] = emitted[i]
        BY <3>2, <1>2 DEF SpanIsOperation
      <4>4. slots[begin + i - 1] = emitted[i]
        BY <3>2 DEF SpanIsOperation
      <4> QED BY <4>2, <4>3, <4>4, <1>2
    <3>3. i = span + 1 \/ i \in 1..span
      BY <1>2
    <3> QED BY <3>1, <3>2, <3>3
  <2> QED BY <2>1, <2>2 DEF SpanIsOperation
<1> QED BY <1>2, <1>3, <1>4, <1>5, <1>6

(* Every step preserves the invariant. *)
LEMMA LogInvNext == LogInv /\ [LogNext]_logVars => LogInv'
<1> SUFFICES ASSUME LogInv, [LogNext]_logVars PROVE LogInv'
  OBVIOUS
<1> USE LogAssumption
<1>1. ASSUME NEW n \in Needs, Start(n) PROVE LogInv'
  BY <1>1, StartPreserves
<1>2. CASE AppendSequenced
  <2>1. sequence' \in 0..MaxSequence
    BY <1>2 DEF AppendSequenced, LogInv, LogTypeOK
  <2>2. kind = "market" => sequence' = sequence + 1
    BY <1>2 DEF AppendSequenced, Store, Keeps, LogInv, LogTypeOK, ReservationFits
  <2> QED BY <1>2, <2>1, <2>2, StorePreserves DEF AppendSequenced
<1>3. CASE AppendUnsequenced
  <2>1. /\ sequence' \in 0..MaxSequence
        /\ kind # "market"
        /\ Store(0) /\ 0 \in 0..MaxSequence
    BY <1>3 DEF AppendUnsequenced, Unsequenced, LogInv, LogTypeOK
  <2> QED BY <2>1, StorePreserves
<1>4. ASSUME NEW n \in 0..MaxSequence, Reset(n) PROVE LogInv'
  BY <1>4 DEF Reset, LogInv, LogTypeOK, SpanIsOperation, ReservationFits, LogIndex
<1>5. CASE UNCHANGED logVars
  BY <1>5 DEF logVars, LogInv, LogTypeOK, SpanIsOperation, ReservationFits, LogIndex
<1> QED BY <1>1, <1>2, <1>3, <1>4, <1>5 DEF LogNext

(* The inductive invariant holds throughout. *)
THEOREM LogInvariance == LogSpec => []LogInv
<1>1. LogInv /\ [LogNext]_logVars => LogInv'
  BY LogInvNext
<1> QED BY <1>1, LogInvInit, PTL DEF LogSpec

(* last_events() is always exactly what the last operation appended: the   *)
(* ring never wraps inside an operation and drops nothing it reserved for. *)
THEOREM SpanIsAlwaysExact == LogSpec => []SpanIsOperation
<1>1. LogInv => SpanIsOperation
  BY DEF LogInv
<1> QED BY <1>1, LogInvariance, PTL

(* What an operation still has reserved always fits behind its span, and a *)
(* market-data operation never runs out of numbers it reserved.            *)
THEOREM ReservationAlwaysFits == LogSpec => []ReservationFits
<1>1. LogInv => ReservationFits
  BY DEF LogInv
<1> QED BY <1>1, LogInvariance, PTL

(* Every variable keeps its type. *)
THEOREM LogTypeCorrectness == LogSpec => []LogTypeOK
<1>1. LogInv => LogTypeOK
  BY DEF LogInv
<1> QED BY <1>1, LogInvariance, PTL

-----------------------------------------------------------------------------
(* The numbers of an operation.                                            *)

(* The sequenced events that follow event i. *)
Later(i) == {j \in DOMAIN emitted : j > i /\ emitted[j] # Unsequenced}

(* Event i has the largest number, the log's current one if no sequenced   *)
(* event follows, or the one before the next sequenced event's.            *)
Numbered(i) ==
  \/ kind = "events" /\ emitted[i] = MaxSequence
  \/ Later(i) = {} /\ emitted[i] = sequence
  \/ \E j \in Later(i) : emitted[j] = emitted[i] + 1 /\ \A k \in Later(i) : j <= k

(* The property, event by event. *)
LEMMA Numbers ==
  /\ NumbersAreConsecutive
       <=> \A i \in DOMAIN emitted : emitted[i] # Unsequenced => Numbered(i)
  /\ NumbersAreConsecutive'
       <=> \A i \in DOMAIN emitted' : emitted'[i] # Unsequenced => Numbered(i)'
BY DEF NumbersAreConsecutive, Numbered, Later

(* An append keeps the events before it. *)
LEMMA Appended ==
  ASSUME LogInv, NEW n \in 0..MaxSequence, Store(n)
  PROVE  /\ Len(emitted) \in Nat /\ DOMAIN emitted = 1..Len(emitted)
         /\ DOMAIN emitted' = 1..(Len(emitted) + 1)
         /\ emitted'[Len(emitted) + 1] = n
         /\ \A i \in 1..Len(emitted) : emitted'[i] = emitted[i] /\ emitted[i] \in 0..MaxSequence
         /\ kind' = kind
BY LogAssumption DEF LogInv, LogTypeOK, Store

(* A diagnostic leaves the numbers of the others as they are.              *)
LEMMA DiagnosticKeepsNumbers ==
  ASSUME LogInv, NumbersAreConsecutive, AppendUnsequenced
  PROVE  NumbersAreConsecutive'
<1> DEFINE m == Len(emitted)
<1>1. 0 \in 0..MaxSequence /\ Store(0) /\ sequence' = sequence
  BY LogAssumption DEF AppendUnsequenced, Unsequenced
<1>2. /\ m \in Nat /\ DOMAIN emitted = 1..m /\ DOMAIN emitted' = 1..(m + 1)
      /\ emitted'[m + 1] = 0 /\ kind' = kind
      /\ \A i \in 1..m : emitted'[i] = emitted[i]
  BY <1>1, Appended
<1> HIDE DEF m
<1>3. ASSUME NEW i \in DOMAIN emitted', emitted'[i] # Unsequenced PROVE Numbered(i)'
  <2>1. i \in 1..m /\ emitted'[i] = emitted[i]
    BY <1>2, <1>3 DEF Unsequenced
  <2>2. Later(i)' = Later(i)
    BY <1>2, <2>1 DEF Later, Unsequenced
  <2>3. Numbered(i)
    BY <1>2, <1>3, <2>1, Numbers
  <2>4. \A j \in Later(i) : emitted'[j] = emitted[j]
    BY <1>2 DEF Later
  <2> QED BY <1>1, <1>2, <2>1, <2>2, <2>3, <2>4 DEF Numbered
<1> QED BY <1>3, Numbers

(* A sequenced event takes the number after the last one drawn, except     *)
(* that an exhausted event log repeats its last.                           *)
LEMMA SequencedKeepsNumbers ==
  ASSUME LogInv, NumbersAreConsecutive, AppendSequenced
  PROVE  NumbersAreConsecutive'
<1> DEFINE m == Len(emitted)
           n == sequence'
<1>1. /\ n \in 1..MaxSequence /\ sequence \in 0..MaxSequence /\ MaxSequence \in Nat
      /\ \/ n = sequence + 1
         \/ kind = "events" /\ n = sequence /\ sequence = MaxSequence
  <2>1. /\ sequence \in 0..MaxSequence /\ MaxSequence \in Nat \ {0}
        /\ kind = "events" \/ kind = "market"
    BY LogAssumption DEF LogInv, LogTypeOK, Kind
  <2>2. kind = "market" => Keeps /\ sequence # MaxSequence
    BY LogAssumption DEF AppendSequenced, Store, Keeps, LogInv, LogTypeOK, ReservationFits
  <2>3. n = IF sequence = MaxSequence \/ (kind = "market" /\ ~Keeps)
            THEN sequence ELSE sequence + 1
    BY DEF AppendSequenced
  <2> HIDE DEF n
  <2> QED BY <2>1, <2>2, <2>3
<1>2. n \in 0..MaxSequence /\ Store(n)
  BY <1>1 DEF AppendSequenced
<1>3. /\ m \in Nat /\ DOMAIN emitted = 1..m /\ DOMAIN emitted' = 1..(m + 1)
      /\ emitted'[m + 1] = n /\ kind' = kind
      /\ \A i \in 1..m : emitted'[i] = emitted[i] /\ emitted[i] \in 0..MaxSequence
  BY <1>2, Appended
<1>4. n = sequence'
  OBVIOUS
<1> HIDE DEF m, n
<1>5. ASSUME NEW i \in DOMAIN emitted', emitted'[i] # Unsequenced PROVE Numbered(i)'
  <2>1. CASE i = m + 1
    <3>1. Later(i)' = {}
      BY <1>3, <2>1 DEF Later
    <3> QED BY <1>3, <1>4, <2>1, <3>1 DEF Numbered
  <2>2. CASE i \in 1..m
    <3>1. emitted'[i] = emitted[i] /\ Numbered(i)
      BY <1>3, <1>5, <2>2, Numbers
    <3>2. Later(i)' = Later(i) \cup {m + 1}
      BY <1>1, <1>3, <2>2 DEF Later, Unsequenced
    <3>3. \A j \in Later(i) : j \in 1..m /\ emitted'[j] = emitted[j]
      BY <1>3 DEF Later
    <3>4. CASE kind = "events" /\ emitted[i] = MaxSequence
      BY <1>3, <3>1, <3>4 DEF Numbered
    <3>5. CASE Later(i) = {} /\ emitted[i] = sequence
      <4>1. \/ emitted'[m + 1] = emitted'[i] + 1
            \/ kind = "events" /\ emitted[i] = MaxSequence
        BY <1>1, <1>3, <3>1, <3>5
      <4>2. Later(i)' = {m + 1}
        BY <3>2, <3>5
      <4> QED BY <1>3, <3>1, <4>1, <4>2 DEF Numbered
    <3>6. CASE \E j \in Later(i) : emitted[j] = emitted[i] + 1 /\ \A k \in Later(i) : j <= k
      <4>1. PICK j \in Later(i) : emitted[j] = emitted[i] + 1 /\ \A k \in Later(i) : j <= k
        BY <3>6
      <4>2. j \in Later(i)' /\ emitted'[j] = emitted'[i] + 1
        BY <3>1, <3>2, <3>3, <4>1
      <4>3. \A k \in Later(i)' : j <= k
        BY <1>3, <3>2, <3>3, <4>1
      <4> QED BY <4>2, <4>3 DEF Numbered
    <3> QED BY <3>1, <3>4, <3>5, <3>6 DEF Numbered
  <2> QED BY <1>3, <2>1, <2>2
<1> QED BY <1>5, Numbers

(* Every step keeps the numbers of an operation without a gap.             *)
LEMMA NumbersNext == LogInv /\ NumbersAreConsecutive /\ [LogNext]_logVars => NumbersAreConsecutive'
<1> SUFFICES ASSUME LogInv, NumbersAreConsecutive, [LogNext]_logVars PROVE NumbersAreConsecutive'
  OBVIOUS
<1>1. ASSUME emitted' = <<>> PROVE NumbersAreConsecutive'
  BY <1>1, Numbers
<1>2. CASE UNCHANGED logVars
  BY <1>2 DEF logVars, NumbersAreConsecutive
<1> QED
  BY <1>1, <1>2, DiagnosticKeepsNumbers, SequencedKeepsNumbers DEF LogNext, Start, Reset

(* The sequenced events of an operation are always numbered without a gap  *)
(* up to the log's current sequence, in every interleaving with            *)
(* diagnostics, and only an exhausted event log repeats a number.          *)
THEOREM NumbersAreAlwaysConsecutive == LogSpec => []NumbersAreConsecutive
<1>1. LogInit => NumbersAreConsecutive
  BY DEF LogInit, NumbersAreConsecutive
<1> QED BY <1>1, LogInvInit, LogInvNext, NumbersNext, PTL DEF LogSpec

-----------------------------------------------------------------------------
(* The consumer of market data.                                            *)

(* The detector's last event bounds what was applied; a fresh detector has *)
(* applied nothing.                                                        *)
Bounded ==
  \A n \in 1..MaxNumber : applied[n] > 0 => detector.initialized /\ n <= detector.last

(* What was applied without a Gap is an interval that ends at the          *)
(* detector's last event, and starts after the snapshot if that counts.    *)
Interval ==
  ~missed =>
    \/ Applied = {} /\ detector = Detector(base)
    \/ \E lo \in 1..MaxNumber :
         /\ lo <= detector.last
         /\ \A n \in 1..MaxNumber : applied[n] > 0 <=> lo <= n /\ n <= detector.last
         /\ base \notin {0, MaxNumber} => lo = base + 1

(* The inductive invariant. *)
FeedInv == FeedTypeOK /\ Bounded /\ Interval /\ NoneAppliedTwice

(* A detector that was just reset is well typed. *)
LEMMA DetectorTyped ==
  ASSUME NEW n \in 0..MaxNumber
  PROVE  Detector(n) \in [last: 0..MaxNumber, initialized: BOOLEAN]
<1>1. (n # 0) \in BOOLEAN
  OBVIOUS
<1>2. \A b \in BOOLEAN : [last |-> n, initialized |-> b] \in [last: 0..MaxNumber, initialized: BOOLEAN]
  OBVIOUS
<1> QED BY <1>1, <1>2 DEF Detector

(* A consumer with its first snapshot satisfies it. *)
LEMMA FeedInvInit == FeedInit => FeedInv
<1> SUFFICES ASSUME FeedInit PROVE FeedInv
  OBVIOUS
<1>1. applied = [n \in 1..MaxNumber |-> 0]
  BY DEF FeedInit, NoneApplied
<1>2. FeedTypeOK
  <2>1. current \in 0..MaxNumber /\ base = current /\ detector = Detector(base)
    BY FeedAssumption DEF FeedInit
  <2>2. detector \in [last: 0..MaxNumber, initialized: BOOLEAN]
    BY <2>1, DetectorTyped
  <2>3. report = "none" /\ missed \in BOOLEAN
    BY DEF FeedInit
  <2> QED BY <1>1, <2>1, <2>2, <2>3 DEF FeedTypeOK
<1>3. Bounded /\ NoneAppliedTwice
  BY <1>1 DEF Bounded, NoneAppliedTwice
<1>4. Applied = {}
  BY <1>1 DEF Applied
<1> QED BY <1>2, <1>3, <1>4 DEF FeedInit, FeedInv, Interval

(* A delivery keeps the types. *)
LEMMA DeliverTyped == ASSUME FeedInv, NEW n \in 1..MaxNumber, Deliver(n) PROVE FeedTypeOK'
BY FeedAssumption DEF FeedInv, FeedTypeOK, Deliver, Status, Observed, NextExpected, Check

(* A delivery that is not applied leaves the interval, or reports a Gap.   *)
LEMMA IgnoredPreserves ==
  ASSUME FeedInv, NEW n \in 1..MaxNumber, Deliver(n), report' \notin {"First", "Contiguous"}
  PROVE  Bounded' /\ Interval' /\ NoneAppliedTwice'
<1> USE FeedAssumption DEF FeedInv, FeedTypeOK
<1>1. applied' = applied /\ base' = base /\ detector.initialized
  BY DEF Deliver, Status
<1>2. CASE n <= detector.last
  <2>1. detector' = detector
    BY <1>1, <1>2 DEF Deliver, Observed
  <2>2. missed' = missed
    BY <1>1, <1>2 DEF Deliver, Status
  <2> QED BY <1>1, <2>1, <2>2 DEF Bounded, Interval, NoneAppliedTwice, Applied, Detector
<1>3. CASE n > detector.last
  <2>1. missed'
    BY <1>1, <1>3 DEF Deliver, Status
  <2>2. detector' = [last |-> n, initialized |-> TRUE]
    <3>1. ~(n <= detector.last)
      BY <1>3
    <3> QED BY <3>1 DEF Deliver, Observed
  <2> QED BY <1>1, <1>3, <2>1, <2>2 DEF Bounded, Interval, NoneAppliedTwice
<1> QED BY <1>2, <1>3

(* The first event after a snapshot that does not count starts the         *)
(* interval.                                                               *)
LEMMA FirstPreserves ==
  ASSUME FeedInv, NEW n \in 1..MaxNumber, Deliver(n), ~detector.initialized
  PROVE  Bounded' /\ Interval' /\ NoneAppliedTwice'
<1> USE FeedAssumption DEF FeedInv, FeedTypeOK
<1>1. \A k \in 1..MaxNumber : applied[k] = 0
  BY DEF Bounded
<1>2. /\ applied' = [applied EXCEPT ![n] = 1]
      /\ detector' = [last |-> n, initialized |-> TRUE]
      /\ base' = base /\ missed' = missed
  BY <1>1 DEF Deliver, Status, Observed
<1>3. \A k \in 1..MaxNumber : applied'[k] > 0 <=> k = n
  BY <1>1, <1>2
<1>4. Bounded' /\ NoneAppliedTwice'
  BY <1>1, <1>2 DEF Bounded, NoneAppliedTwice
<1>5. ~missed => base = 0
  <2>1. Applied = {}
    BY <1>1 DEF Applied
  <2>2. ~missed => detector = Detector(base)
    BY <1>1 DEF Interval
  <2> QED BY <2>1, <2>2 DEF Detector
<1>6. Interval'
  BY <1>2, <1>3, <1>5 DEF Interval
<1> QED BY <1>4, <1>6

(* The next event extends the interval by itself.                          *)
LEMMA ContiguousPreserves ==
  ASSUME FeedInv, NEW n \in 1..MaxNumber, Deliver(n), detector.initialized,
         n = NextExpected(detector)
  PROVE  Bounded' /\ Interval' /\ NoneAppliedTwice'
<1> USE FeedAssumption DEF FeedInv, FeedTypeOK
<1>1. /\ applied' = [applied EXCEPT ![n] = IF @ = 0 THEN 1 ELSE 2]
      /\ detector' = [last |-> n, initialized |-> TRUE]
      /\ base' = base /\ missed' = missed
  <2>1. report' = "Contiguous"
    BY DEF Deliver, Status
  <2>2. detector.last >= n => n = detector.last
    BY DEF NextExpected
  <2>3. detector' = [last |-> n, initialized |-> TRUE]
    BY <2>2 DEF Deliver, Observed
  <2> QED BY <2>1, <2>3 DEF Deliver
<1>2. n = detector.last + 1 \/ (n = detector.last /\ n = MaxNumber)
  BY DEF NextExpected
<1>3. \A k \in 1..MaxNumber : applied'[k] > 0 <=> applied[k] > 0 \/ k = n
  BY <1>1
<1>4. Bounded'
  BY <1>1, <1>2, <1>3 DEF Bounded
<1>5. NoneAppliedTwice'
  BY <1>1, <1>2 DEF Bounded, NoneAppliedTwice
<1>6. ASSUME ~missed, Applied = {}, detector = Detector(base)
      PROVE  Interval'
  <2>1. \A k \in 1..MaxNumber : applied'[k] > 0 <=> k = n
    BY <1>3, <1>6 DEF Applied
  <2>2. base \notin {0, MaxNumber} => n = base + 1
    BY <1>2, <1>6 DEF Detector
  <2> QED BY <1>1, <2>1, <2>2 DEF Interval
<1>7. ASSUME NEW lo \in 1..MaxNumber, lo <= detector.last,
             \A k \in 1..MaxNumber : applied[k] > 0 <=> lo <= k /\ k <= detector.last,
             base \notin {0, MaxNumber} => lo = base + 1
      PROVE  Interval'
  <2>1. \A k \in 1..MaxNumber : applied'[k] > 0 <=> lo <= k /\ k <= n
    BY <1>2, <1>3, <1>7
  <2>2. lo <= n
    BY <1>2, <1>7
  <2> QED BY <1>1, <1>7, <2>1, <2>2 DEF Interval
<1>8. Interval'
  <2>1. CASE missed
    BY <1>1, <2>1 DEF Interval
  <2> QED BY <1>6, <1>7, <2>1 DEF Interval
<1> QED BY <1>4, <1>5, <1>8

(* Every step preserves the invariant. *)
LEMMA FeedInvNext == FeedInv /\ [FeedNext]_feedVars => FeedInv'
<1> SUFFICES ASSUME FeedInv, [FeedNext]_feedVars PROVE FeedInv'
  OBVIOUS
<1> USE FeedAssumption
<1>1. CASE Publish
  BY <1>1 DEF Publish, FeedInv, FeedTypeOK, Bounded, Interval, NoneAppliedTwice, Applied, Detector
<1>2. ASSUME NEW n \in 1..MaxNumber, Deliver(n) PROVE FeedInv'
  <2>1. CASE report' \notin {"First", "Contiguous"}
    BY <1>2, <2>1, DeliverTyped, IgnoredPreserves DEF FeedInv
  <2>2. CASE ~detector.initialized
    BY <1>2, <2>2, DeliverTyped, FirstPreserves DEF FeedInv
  <2>3. CASE detector.initialized /\ report' \in {"First", "Contiguous"}
    <3>1. n = NextExpected(detector)
      BY <1>2, <2>3 DEF Deliver, Status
    <3> QED BY <1>2, <2>3, <3>1, DeliverTyped, ContiguousPreserves DEF FeedInv
  <2> QED BY <2>1, <2>2, <2>3
<1>3. CASE DeliverForeign
  BY <1>3 DEF DeliverForeign, FeedInv, FeedTypeOK, Bounded, Interval, NoneAppliedTwice, Applied,
    Detector, Check
<1>4. CASE Resume
  <2>1. /\ applied' = [n \in 1..MaxNumber |-> 0]
        /\ base' = current /\ detector' = Detector(current)
        /\ current' = current /\ report' = "none" /\ missed' = FALSE
    BY <1>4 DEF Resume, NoneApplied
  <2>2. FeedTypeOK'
    <3>1. current \in 0..MaxNumber
      BY DEF FeedInv, FeedTypeOK
    <3>2. detector' \in [last: 0..MaxNumber, initialized: BOOLEAN]
      BY <2>1, <3>1, DetectorTyped
    <3>3. applied' \in [1..MaxNumber -> 0..2]
      BY <2>1
    <3>4. missed' \in BOOLEAN
      BY <2>1
    <3> QED BY <2>1, <3>1, <3>2, <3>3, <3>4 DEF FeedTypeOK
  <2>3. Bounded' /\ NoneAppliedTwice'
    BY <2>1 DEF Bounded, NoneAppliedTwice
  <2>4. Applied' = {}
    BY <2>1 DEF Applied
  <2>5. detector' = Detector(base')
    BY <2>1
  <2>6. Interval'
    BY <2>4, <2>5, Zenon DEF Interval
  <2> QED BY <2>2, <2>3, <2>6 DEF FeedInv
<1>5. CASE UNCHANGED feedVars
  BY <1>5 DEF feedVars, FeedInv, FeedTypeOK, Bounded, Interval, NoneAppliedTwice, Applied, Detector
<1> QED BY <1>1, <1>2, <1>3, <1>4, <1>5 DEF FeedNext

(* The inductive invariant holds throughout. *)
THEOREM FeedInvariance == FeedSpec => []FeedInv
<1> QED BY FeedInvInit, FeedInvNext, PTL DEF FeedSpec

(* No event is applied twice but the one with the largest number, however  *)
(* often the transport repeats it and in whatever order.                   *)
THEOREM NothingIsAppliedTwice == FeedSpec => []NoneAppliedTwice
<1>1. FeedInv => NoneAppliedTwice
  BY DEF FeedInv
<1> QED BY <1>1, FeedInvariance, PTL

(* As long as no Gap was reported, what was applied is an interval that    *)
(* starts right after a snapshot whose sequence counts.                    *)
THEOREM AppliedNeverHasAHole == FeedSpec => []AppliedHasNoHole
<1>1. FeedInv => AppliedHasNoHole
  <2> SUFFICES ASSUME FeedInv, ~missed, Applied # {}
               PROVE  /\ Applied = Min(Applied)..detector.last
                      /\ base \notin {0, MaxNumber} => Min(Applied) = base + 1
    BY DEF AppliedHasNoHole
  <2> USE FeedAssumption DEF FeedInv, FeedTypeOK
  <2>1. PICK lo \in 1..MaxNumber :
          /\ lo <= detector.last
          /\ \A n \in 1..MaxNumber : applied[n] > 0 <=> lo <= n /\ n <= detector.last
          /\ base \notin {0, MaxNumber} => lo = base + 1
    BY DEF Interval
  <2>2. Applied = lo..detector.last
    BY <2>1 DEF Applied
  <2>3. lo \in Applied /\ \A n \in Applied : lo <= n /\ n \in Int
    BY <2>1, <2>2
  <2>4. \A x \in Applied : (\A y \in Applied : x <= y) => x = lo
    BY <2>3
  <2>5. Min(Applied) = lo
    BY <2>3, <2>4 DEF Min
  <2> QED BY <2>1, <2>2, <2>5
<1> QED BY <1>1, FeedInvariance, PTL

=============================================================================
