----------------------------- MODULE OrderNodes -----------------------------
(***************************************************************************)
(* The nodes under a book: a pool of Order slots with an intrusive free    *)
(* list (include/MemoryPool.hpp) and price levels that string nodes into   *)
(* FIFOs through the nodes' own links (include/PriceLevel.hpp, Order.hpp), *)
(* driven as OrderBook and its sides drive them. One node at a time is in  *)
(* hand: taken from the pool or a level and not yet linked or given back.  *)
(*                                                                         *)
(*   level, prev, next, qty     Order's links and quantity, by slot        *)
(*   head, tail, count, total   PriceLevel's fields, by level              *)
(*   link, inUse, freeHead,     MemoryPool's: Slot::next, Slot::in_use,    *)
(*   poolSize                   free_head_, size_                          *)
(*   held                       the node in hand                           *)
(*   queue, spare               auxiliary: the nodes of each level by      *)
(*                              arrival, and the free slots by release; no *)
(*                              step of the code depends on them: Leave    *)
(*                              and Reduce take any node linked into a     *)
(*                              level, and queue says which those are      *)
(***************************************************************************)
EXTENDS Integers, Sequences, SequencesExt

CONSTANTS
  PoolCapacity,  (* capacity_ of the pool.                                 *)
  Level,         (* Price levels.                                          *)
  NoLevel,       (* A null level pointer.                                  *)
  MaxQuantity    (* Largest Quantity.                                      *)

ASSUME PoolAssumption == PoolCapacity \in Nat \ {0}
ASSUME LevelAssumption == NoLevel \notin Level
ASSUME WidthAssumption == MaxQuantity \in Nat \ {0}

VARIABLES level, prev, next, qty, head, tail, count, total,
          link, inUse, freeHead, poolSize, held, queue, spare

nodes == <<level, prev, next, qty>>
levels == <<head, tail, count, total>>
pool == <<link, inUse, freeHead, poolSize>>
nodesVars == <<nodes, levels, pool, held, queue, spare>>

Node == 0..(PoolCapacity - 1)
NoNode == PoolCapacity      (* kNoSlot, a null node pointer *)
Quantity == 0..MaxQuantity
Width == MaxQuantity + 1

TypeOK ==
  /\ level \in [Node -> Level \cup {NoLevel}]
  /\ prev \in [Node -> Node \cup {NoNode}] /\ next \in [Node -> Node \cup {NoNode}]
  /\ qty \in [Node -> Quantity]
  /\ head \in [Level -> Node \cup {NoNode}] /\ tail \in [Level -> Node \cup {NoNode}]
  /\ count \in [Level -> Nat] /\ total \in [Level -> Quantity]
  /\ link \in [Node -> Node \cup {NoNode}] /\ inUse \in [Node -> BOOLEAN]
  /\ freeHead \in Node \cup {NoNode} /\ poolSize \in 0..PoolCapacity
  /\ held \in Node \cup {NoNode}
  /\ queue \in [Level -> Seq(Node)] /\ spare \in Seq(Node)

(* PriceLevel::reset, MemoryPool::reset_free_list *)
NodesInit ==
  /\ level = [n \in Node |-> NoLevel]
  /\ prev = [n \in Node |-> NoNode] /\ next = [n \in Node |-> NoNode]
  /\ qty = [n \in Node |-> 0]
  /\ head = [l \in Level |-> NoNode] /\ tail = [l \in Level |-> NoNode]
  /\ count = [l \in Level |-> 0] /\ total = [l \in Level |-> 0]
  /\ link = [n \in Node |-> n + 1] /\ inUse = [n \in Node |-> FALSE]
  /\ freeHead = 0 /\ poolSize = 0
  /\ held = NoNode
  /\ queue = [l \in Level |-> <<>>] /\ spare = [i \in 1..PoolCapacity |-> i - 1]

-----------------------------------------------------------------------------

(* MemoryPool::allocate: the head of the free list, with a fresh Order.    *)
Allocate ==
  /\ held = NoNode /\ freeHead # NoNode
  /\ freeHead' = link[freeHead]
  /\ inUse' = [inUse EXCEPT ![freeHead] = TRUE]
  /\ poolSize' = poolSize + 1
  /\ level' = [level EXCEPT ![freeHead] = NoLevel]
  /\ prev' = [prev EXCEPT ![freeHead] = NoNode]
  /\ next' = [next EXCEPT ![freeHead] = NoNode]
  /\ qty' = [qty EXCEPT ![freeHead] = 0]
  /\ held' = freeHead
  /\ spare' = Tail(spare)
  /\ UNCHANGED <<levels, link, queue>>

(* PriceLevel::append's checks. *)
Appendable(n, l, q) ==
  /\ q # 0
  /\ level[n] = NoLevel /\ prev[n] = NoNode /\ next[n] = NoNode
  /\ MaxQuantity - total[l] >= q

(* Order::reset and PriceLevel::append of the node in hand. *)
Rest(l, q) ==
  /\ held # NoNode /\ Appendable(held, l, q)
  /\ level' = [level EXCEPT ![held] = l]
  /\ prev' = [prev EXCEPT ![held] = tail[l]]
  /\ next' = IF tail[l] = NoNode THEN next ELSE [next EXCEPT ![tail[l]] = held]
  /\ qty' = [qty EXCEPT ![held] = q]
  /\ head' = IF tail[l] = NoNode THEN [head EXCEPT ![l] = held] ELSE head
  /\ tail' = [tail EXCEPT ![l] = held]
  /\ count' = [count EXCEPT ![l] = @ + 1]
  /\ total' = [total EXCEPT ![l] = @ + q]
  /\ held' = NoNode
  /\ queue' = [queue EXCEPT ![l] = Append(@, held)]
  /\ UNCHANGED <<pool, spare>>

(* Mutant of Unlink: the successor still points back at the node. *)
UnlinkForwards(n, l) ==
  LET p == prev[n]
      s == next[n]
      middle == [next EXCEPT ![n] = NoNode]
  IN /\ next' = IF p = NoNode THEN middle ELSE [middle EXCEPT ![p] = s]
     /\ prev' = [prev EXCEPT ![n] = NoNode]
     /\ head' = IF p = NoNode THEN [head EXCEPT ![l] = s] ELSE head
     /\ tail' = IF s = NoNode THEN [tail EXCEPT ![l] = p] ELSE tail
     /\ level' = [level EXCEPT ![n] = NoLevel]
     /\ count' = [count EXCEPT ![l] = @ - 1]

(* PriceLevel::remove's relinking: n leaves the chain of level l.          *)
Unlink(n, l) ==
  LET p == prev[n]
      s == next[n]
      before == [prev EXCEPT ![n] = NoNode]
      after == [next EXCEPT ![n] = NoNode]
  IN /\ next' = IF p = NoNode THEN after ELSE [after EXCEPT ![p] = s]
     /\ prev' = IF s = NoNode THEN before ELSE [before EXCEPT ![s] = p]
     /\ head' = IF p = NoNode THEN [head EXCEPT ![l] = s] ELSE head
     /\ tail' = IF s = NoNode THEN [tail EXCEPT ![l] = p] ELSE tail
     /\ level' = [level EXCEPT ![n] = NoLevel]
     /\ count' = [count EXCEPT ![l] = @ - 1]

(* PriceLevel::remove of any order: a cancel, or the first half of a       *)
(* replace, which keeps the node in hand.                                  *)
Leave(l, i) ==
  LET n == queue[l][i]
  IN /\ held = NoNode
     /\ level[n] = l /\ count[l] # 0 /\ qty[n] <= total[l]
     /\ Unlink(n, l)
     /\ total' = [total EXCEPT ![l] = @ - qty[n]]
     /\ held' = n
     /\ queue' = [queue EXCEPT ![l] = RemoveAt(@, i)]
     /\ UNCHANGED <<qty, pool, spare>>

(* Mutant of Freed: the released slot ends the free list. *)
FreedLast(n) ==
  /\ link' = [link EXCEPT ![n] = NoNode]
  /\ inUse' = [inUse EXCEPT ![n] = FALSE]
  /\ freeHead' = n
  /\ poolSize' = poolSize - 1
  /\ spare' = <<n>> \o spare

(* MemoryPool::release of a slot in use: it becomes the next one out.      *)
Freed(n) ==
  /\ link' = [link EXCEPT ![n] = freeHead]
  /\ inUse' = [inUse EXCEPT ![n] = FALSE]
  /\ freeHead' = n
  /\ poolSize' = poolSize - 1
  /\ spare' = <<n>> \o spare

(* Order::clear and release of the node in hand: a cancelled order, a      *)
(* replaced one that does not rest again, or one that was refused.         *)
Release ==
  /\ held # NoNode
  /\ IF inUse[held] THEN Freed(held) ELSE UNCHANGED <<pool, spare>>
  /\ qty' = [qty EXCEPT ![held] = 0]
  /\ held' = NoNode
  /\ UNCHANGED <<level, prev, next, levels, queue>>

(* Mutant of Reduce: the level's total stays. *)
ReduceNodeOnly(n, q) ==
  /\ level[n] # NoLevel /\ q # 0 /\ q <= qty[n] /\ qty[n] - q <= total[level[n]]
  /\ qty' = [qty EXCEPT ![n] = q]
  /\ UNCHANGED <<level, prev, next, levels, pool, held, queue, spare>>

(* PriceLevel::set_quantity_keep_priority *)
Reduce(n, q) ==
  /\ level[n] # NoLevel /\ q # 0 /\ q <= qty[n] /\ qty[n] - q <= total[level[n]]
  /\ total' = [total EXCEPT ![level[n]] = @ - (qty[n] - q)]
  /\ qty' = [qty EXCEPT ![n] = q]
  /\ UNCHANGED <<level, prev, next, head, tail, count, pool, held, queue, spare>>

(* PriceLevel::fill_front leaves something of the front order.             *)
FillSome(l, q) ==
  /\ head[l] # NoNode /\ q # 0 /\ q < qty[head[l]]
  /\ qty' = [qty EXCEPT ![head[l]] = @ - q]
  /\ total' = [total EXCEPT ![l] = (@ - q) % Width]
  /\ UNCHANGED <<level, prev, next, head, tail, count, pool, held, queue, spare>>

(* fill_front of all of it; match removes, clears and releases the node at *)
(* once, even while a replaced node is in hand.                            *)
FillAll(l) ==
  LET n == head[l]
  IN /\ n # NoNode /\ qty[n] # 0
     /\ level[n] = l /\ count[l] # 0
     /\ qty' = [qty EXCEPT ![n] = 0]
     /\ total' = [total EXCEPT ![l] = (@ - qty[n]) % Width]
     /\ Unlink(n, l)
     /\ IF inUse[n] THEN Freed(n) ELSE UNCHANGED <<pool, spare>>
     /\ queue' = [queue EXCEPT ![l] = RemoveAt(@, 1)]
     /\ UNCHANGED held

(* OrderBook::clear_for_snapshot_restore: PriceLevel::reset of each level, *)
(* MemoryPool::clear. Nodes keep their bytes until they are allocated.     *)
ClearNodes ==
  /\ held = NoNode
  /\ head' = [l \in Level |-> NoNode] /\ tail' = [l \in Level |-> NoNode]
  /\ count' = [l \in Level |-> 0] /\ total' = [l \in Level |-> 0]
  /\ link' = [n \in Node |-> n + 1] /\ inUse' = [n \in Node |-> FALSE]
  /\ freeHead' = 0 /\ poolSize' = 0
  /\ queue' = [l \in Level |-> <<>>] /\ spare' = [i \in 1..PoolCapacity |-> i - 1]
  /\ UNCHANGED <<nodes, held>>

NodesNext ==
  \/ Allocate
  \/ \E l \in Level, q \in Quantity : Rest(l, q)
  \/ \E l \in Level : \E i \in DOMAIN queue[l] : Leave(l, i)
  \/ Release
  \/ \E l \in Level, q \in Quantity : \E i \in DOMAIN queue[l] : Reduce(queue[l][i], q)
  \/ \E l \in Level, q \in Quantity : FillSome(l, q)
  \/ \E l \in Level : FillAll(l)
  \/ ClearNodes

NodesSpec == NodesInit /\ [][NodesNext]_nodesVars

-----------------------------------------------------------------------------
(* Properties.                                                             *)

At(q, i) == IF i \in DOMAIN q THEN q[i] ELSE NoNode

(* The links of a level spell its orders in the order of arrival, forwards *)
(* from head and backwards from tail, after whatever was taken out of the  *)
(* middle, filled at the front or appended meanwhile.                      *)
LinksSpellQueues ==
  \A l \in Level :
    LET q == queue[l]
    IN /\ head[l] = At(q, 1) /\ tail[l] = At(q, Len(q))
       /\ count[l] = Len(q)
       /\ \A i \in DOMAIN q :
            /\ level[q[i]] = l
            /\ next[q[i]] = At(q, i + 1) /\ prev[q[i]] = At(q, i - 1)

(* Each slot is at one place only: in the free list, in one level once, or *)
(* in hand; and the free list, followed from its head, is complete.        *)
SlotsHaveOnePlace ==
  /\ freeHead = At(spare, 1)
  /\ \A i \in DOMAIN spare : link[spare[i]] = At(spare, i + 1) /\ ~inUse[spare[i]]
  /\ \A i, j \in DOMAIN spare : spare[i] = spare[j] => i = j
  /\ poolSize + Len(spare) = PoolCapacity
  /\ \A l \in Level : \A i \in DOMAIN queue[l] :
       /\ inUse[queue[l][i]] /\ queue[l][i] # held
       /\ \A k \in Level : \A j \in DOMAIN queue[k] :
            queue[l][i] = queue[k][j] => l = k /\ i = j
  /\ held # NoNode => inUse[held] /\ level[held] = NoLevel

(* The cached total of a level is what its orders add up to. *)
TotalsAreSums ==
  \A l \in Level : total[l] = FoldLeft(LAMBDA x, n : x + qty[n], 0, queue[l])

=============================================================================
