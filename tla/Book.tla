-------------------------------- MODULE Book --------------------------------
(***************************************************************************)
(* The storage of one limit order book and the operators on it: the two    *)
(* sides of price levels with their FIFOs, cached aggregates and cached    *)
(* best price, the order pool and the order-id index                       *)
(* (include/BookSide.hpp, include/PriceLevel.hpp, include/Order.hpp).      *)
(*                                                                         *)
(* A book is a record:                                                     *)
(*   level[s][p]  FIFO of the order ids resting on side s at price p       *)
(*   total[s][p]  PriceLevel::total_quantity_, kept beside the FIFO        *)
(*   best[s]      cached best price, NoPrice when the side is empty        *)
(*   order[id]    the live Order node of id, Blank when it has none        *)
(*   index        the ids in the OrderIdMap                                *)
(*   used         the number of pool slots in use                          *)
(*   seq          next_sequence_, the FIFO sequence counter                *)
(*                                                                         *)
(* Timestamps, initial quantities, lifecycle states and the post-only flag *)
(* are stored in the node but decide nothing here and are left out.        *)
(***************************************************************************)
EXTENDS Integers, Sequences, FiniteSets, SequencesExt, FiniteSetsExt, Folds

CONSTANTS
  OrderId,      (* Valid order ids.                                        *)
  Price,        (* The on-tick prices of the configured range.             *)
  NoPrice,      (* "No price": kInvalidIndex, or a market order's limit.   *)
  Participant,  (* Participant ids, Anonymous among them.                  *)
  Anonymous,    (* kAnonymousParticipantId.                                *)
  MaxQuantity,  (* Largest Quantity: quantities are MaxQuantity + 1 wide.  *)
  MaxSequence   (* Largest SequenceNumber of the FIFO counter (saturates). *)

ASSUME WidthAssumption ==
  /\ MaxQuantity \in Nat \ {0}
  /\ MaxSequence \in Nat \ {0}

ASSUME ParticipantAssumption == Anonymous \in Participant

(* The price grid is finite, so every non-empty part of it has a lowest    *)
(* and a highest price.                                                    *)
ASSUME PriceAssumption ==
  /\ Price \subseteq Int
  /\ NoPrice \notin Price
  /\ \A P \in SUBSET Price :
       P # {} => /\ \E lo \in P : \A p \in P : lo <= p
                 /\ \E hi \in P : \A p \in P : p <= hi

-----------------------------------------------------------------------------
(* Sides and prices.                                                       *)

Side == {"Buy", "Sell"}
Opposite(s) == IF s = "Buy" THEN "Sell" ELSE "Buy"

(* Price p has priority over price q on side s. *)
Better(s, p, q) == IF s = "Buy" THEN p > q ELSE p < q

(* Mutant of Crosses: an equal price does not cross. *)
CrossesStrictly(s, p, limit) ==
  limit # NoPrice => IF s = "Sell" THEN p < limit ELSE p > limit

(* An aggressor limited by limit reaches price p of the resting side s.    *)
Crosses(s, p, limit) ==
  limit # NoPrice => IF s = "Sell" THEN p <= limit ELSE p >= limit

-----------------------------------------------------------------------------
(* Book records.                                                           *)

Blank == [side |-> "Buy", price |-> NoPrice, qty |-> 0, seq |-> 0,
          owner |-> Anonymous]

Order == [side: Side, price: Price \cup {NoPrice}, qty: 0..MaxQuantity,
          seq: 0..MaxSequence, owner: Participant]

BookType ==
  [level: [Side -> [Price -> Seq(OrderId)]],
   total: [Side -> [Price -> 0..MaxQuantity]],
   best:  [Side -> Price \cup {NoPrice}],
   order: [OrderId -> Order],
   index: SUBSET OrderId,
   used:  Nat,
   seq:   0..MaxSequence]

EmptyBook ==
  [level |-> [s \in Side |-> [p \in Price |-> <<>>]],
   total |-> [s \in Side |-> [p \in Price |-> 0]],
   best  |-> [s \in Side |-> NoPrice],
   order |-> [id \in OrderId |-> Blank],
   index |-> {},
   used  |-> 0,
   seq   |-> 0]

Occupied(b, s) == {p \in Price : b.level[s][p] # <<>>}

BestOf(s, P) ==
  IF P = {} THEN NoPrice ELSE CHOOSE p \in P : \A q \in P : ~Better(s, q, p)

(* best_quote: validity, price, quantity and order count of the best level. *)
Quote(b, s) ==
  IF b.best[s] = NoPrice
  THEN [price |-> NoPrice, qty |-> 0, count |-> 0]
  ELSE [price |-> b.best[s], qty |-> b.total[s][b.best[s]],
        count |-> Len(b.level[s][b.best[s]])]

Depth(b, s, p) == [qty |-> b.total[s][p], count |-> Len(b.level[s][p])]

Min2(x, y) == IF x < y THEN x ELSE y

-----------------------------------------------------------------------------
(* Changes to a book.                                                      *)

(* Mutant of BestAfterAdd: the newest level becomes the best. *)
BestIsNewest(b, s, p) == p

(* set_occupied: a price that gained an order may become the best.         *)
BestAfterAdd(b, s, p) ==
  IF b.best[s] = NoPrice \/ Better(s, p, b.best[s]) THEN p ELSE b.best[s]

(* Mutant of BestAfterRemove: the cached best outlives its level. *)
BestIsKept(b, s, p, fifo) == b.best[s]

(* clear_occupied and remove_occupied_level: only the loss of the best     *)
(* price itself makes the side look for a new one.                         *)
BestAfterRemove(b, s, p, fifo) ==
  IF fifo = <<>> /\ b.best[s] = p
  THEN BestOf(s, Occupied(b, s) \ {p})
  ELSE b.best[s]

(* PriceLevel::remove refuses an order larger than its level's total.      *)
Removable(b, id) ==
  b.order[id].qty <= b.total[b.order[id].side][b.order[id].price]

(* remove_order: take id out of its FIFO and its level's total.            *)
Unlinked(b, id) ==
  LET o    == b.order[id]
      fifo == b.level[o.side][o.price]
      rest == RemoveAt(fifo, CHOOSE i \in DOMAIN fifo : fifo[i] = id)
  IN [b EXCEPT !.level[o.side][o.price] = rest,
               !.total[o.side][o.price] = @ - o.qty,
               !.best[o.side] = BestAfterRemove(b, o.side, o.price, rest)]

(* Mutant of Unindexed: the erase is forgotten. *)
StillIndexed(b, id) == b

(* OrderIdMap::erase. *)
Unindexed(b, id) == [b EXCEPT !.index = @ \ {id}]

(* Mutant of Released: the slot is cleared but never returned. *)
ClearedOnly(b, id) == [b EXCEPT !.order[id] = Blank]

(* Order::clear and MemoryPool::release. *)
Released(b, id) == [b EXCEPT !.order[id] = Blank, !.used = @ - 1]

(* A resting order leaves the book for good. *)
Removed(b, id) == Released(Unindexed(Unlinked(b, id), id), id)

(* Mutant of Reduced: the level's total is not reduced. *)
ReducedNodeOnly(b, id, qty) == [b EXCEPT !.order[id].qty = qty]

(* reduce_order: quantity falls, priority stays. *)
Reduced(b, id, qty) ==
  LET o == b.order[id]
  IN [b EXCEPT !.order[id].qty = qty,
               !.total[o.side][o.price] = @ - (o.qty - qty)]

(* fill_front for x, then removal of the front order if nothing is left;   *)
(* the total is an unsigned subtraction without a check.                   *)
FilledFront(b, s, x) ==
  LET p  == b.best[s]
      id == Head(b.level[s][p])
      after == [b EXCEPT !.order[id].qty = @ - x,
                         !.total[s][p] = (@ - x) % (MaxQuantity + 1)]
  IN IF after.order[id].qty = 0 THEN Removed(after, id) ELSE after

(* Mutant of NextSequence: the counter never moves. *)
SameSequence(b) == b.seq

NextSequence(b) == Min2(b.seq + 1, MaxSequence)

(* Order::reset with a fresh sequence, add_order at the tail of the level, *)
(* and the insertion into the id index. The pool slot is already taken.    *)
Rested(b, id, s, p, qty, owner) ==
  [b EXCEPT !.order[id] = [side |-> s, price |-> p, qty |-> qty,
                           seq |-> NextSequence(b), owner |-> owner],
            !.level[s][p] = Append(@, id),
            !.total[s][p] = @ + qty,
            !.best[s] = BestAfterAdd(b, s, p),
            !.index = @ \cup {id},
            !.seq = NextSequence(b)]

-----------------------------------------------------------------------------
(* Read-only walks over the side an aggressor would trade with.            *)

(* The crossing levels from the cached best outwards, best first.          *)
CrossingPrices(b, s, limit) ==
  {p \in Occupied(b, s) : /\ b.best[s] # NoPrice
                          /\ ~Better(s, p, b.best[s])
                          /\ Crosses(s, p, limit)}

(* executable_quantity: what the level totals offer, up to qty.            *)
ExecutableQuantity(b, s, qty, limit) ==
  Min2(qty, MapThenSumSet(LAMBDA p : b.total[s][p], CrossingPrices(b, s, limit)))

(* Mutant of Sweep: the walk stops after the best level. *)
SweepBest(b, s, limit) ==
  IF CrossingPrices(b, s, limit) = {} THEN {} ELSE ToSet(b.level[s][b.best[s]])

(* The resting ids an aggressor limited by limit reaches on side s.        *)
Sweep(b, s, limit) ==
  UNION {ToSet(b.level[s][p]) : p \in CrossingPrices(b, s, limit)}

(* Where id stands in its FIFO. *)
Place(b, id) ==
  LET fifo == b.level[b.order[id].side][b.order[id].price]
  IN CHOOSE i \in DOMAIN fifo : fifo[i] = id

(* The walk comes to x before y: a better level, or nearer the front.      *)
Ahead(b, x, y) ==
  LET o == b.order[x]
      r == b.order[y]
  IN \/ Better(r.side, o.price, r.price)
     \/ o.price = r.price /\ Place(b, x) < Place(b, y)

(* Of some ids of one side, the one the walk comes to last. *)
LastOf(b, ids) == CHOOSE y \in ids : \A x \in ids \ {y} : Ahead(b, x, y)

(* Visit, applied to each id in price-time priority and what became of     *)
(* base before it.                                                         *)
Walk(b, Visit(_, _), base, ids) ==
  MapThenFoldSet(Visit, base, LAMBDA id : id, LAMBDA some : LastOf(b, some), ids)

SelfTrade(policy, resting, aggressor) ==
  policy # "Disabled" /\ aggressor # Anonymous /\ resting = aggressor

(* What preflight makes of id, with acc so far. *)
Visited(b, owner, policy, id, acc) ==
  LET o == b.order[id]
      x == Min2(acc.remaining, o.qty)
  IN CASE acc.stopped \/ acc.remaining = 0 -> acc
       [] ~(acc.stopped \/ acc.remaining = 0)
          /\ SelfTrade(policy, o.owner, owner) ->
            [acc EXCEPT !.cancels = IF policy = "CancelAggressor" THEN @ ELSE @ + 1,
                        !.stopped = policy # "CancelResting"]
       [] OTHER ->
            [acc EXCEPT !.remaining = @ - x, !.executable = @ + x,
                        !.fills = @ + 1]

(* preflight's loop, with acc so far. *)
Outlook(b, s, limit, owner, policy, acc) ==
  Walk(b, LAMBDA id, a : Visited(b, owner, policy, id, a), acc, Sweep(b, s, limit))

(* preflight: the outcome match would have, without changing the book.     *)
Preflight(b, s, qty, limit, owner, policy) ==
  Outlook(b, s, limit, owner, policy,
          [remaining |-> qty, executable |-> 0, fills |-> 0,
           cancels |-> 0, stopped |-> FALSE])

-----------------------------------------------------------------------------
(* What makes a book record a book.                                        *)

(* The cached best price is the best occupied one. *)
BestIsCached(b) ==
  \A s \in Side :
    IF Occupied(b, s) = {}
    THEN b.best[s] = NoPrice
    ELSE /\ b.best[s] \in Occupied(b, s)
         /\ \A p \in Occupied(b, s) : ~Better(s, p, b.best[s])

(* Each indexed order is queued where its node says.                       *)
IndexedAreQueued(b) ==
  \A id \in b.index :
    /\ b.order[id].price \in Price
    /\ \E i \in DOMAIN b.level[b.order[id].side][b.order[id].price] :
         b.level[b.order[id].side][b.order[id].price][i] = id

(* Whatever is queued is indexed, there, and once. *)
QueuedAreIndexed(b) ==
  \A s \in Side, p \in Price : \A i \in DOMAIN b.level[s][p] :
    LET id == b.level[s][p][i]
    IN /\ id \in b.index
       /\ b.order[id].side = s
       /\ b.order[id].price = p
       /\ \A j \in DOMAIN b.level[s][p] : b.level[s][p][j] = id => j = i

(* What the orders of a FIFO add up to. *)
QuantityOf(b, fifo) ==
  LET qty == [id \in OrderId |-> b.order[id].qty]
  IN FoldLeft(LAMBDA sum, id : sum + qty[id], 0, fifo)

(* No bid at or above an ask. *)
Uncrossed(b) ==
  \A bid \in Occupied(b, "Buy"), ask \in Occupied(b, "Sell") : bid < ask

=============================================================================
