----------------------------- MODULE SparseSide -----------------------------
(***************************************************************************)
(* SparseBookSide (include/BookSide.hpp): a pool of level slots, handed    *)
(* out from a stack, listed by price in sorted_slots_ and found through a  *)
(* hash map with Robin Hood insertion and tombstones. A side is a record:  *)
(*   price, queue, position  levels_ and metadata_ of each slot; a slot    *)
(*                           that is not occupied has price NoPrice        *)
(*   free, sorted, best      free_slots_ (a stack), sorted_slots_,         *)
(*                           best_slot_                                    *)
(*   table, size, tombs      level_map_ and its two counters               *)
(* A level's price_ and its metadata's price change together and are one.  *)
(***************************************************************************)
EXTENDS LevelWalk

CONSTANTS
  MaxOrders,     (* level_capacity_: config.max_orders.                    *)
  MapCapacity    (* level_map_capacity_.                                   *)

(* level_map_capacity_for, next_power_of_two: at least twice the levels.   *)
IsMapCapacityFor(n, levels) ==
  /\ \E k \in 1..31 : n = 2^k
  /\ 2 * levels <= n /\ (n < 4 * levels \/ n = 2)

Slot == 0..(MaxOrders - 1)
NoSlot == MaxOrders
Cell == 0..(MapCapacity - 1)
NoCell == MapCapacity
Plus(c, n) == (c + n) % MapCapacity

EmptyEntry == [state |-> "Empty", price |-> NoPrice, slot |-> NoSlot, dist |-> 0]
Tombstone == [EmptyEntry EXCEPT !.state = "Deleted"]

(* clear and reset_free_slots *)
SparseCleared(side, hash) ==
  [side |-> side, hash |-> hash,
   price |-> [s \in Slot |-> NoPrice], queue |-> [s \in Slot |-> <<>>],
   position |-> [s \in Slot |-> NoSlot],
   free |-> [n \in 1..MaxOrders |-> MaxOrders - n],
   sorted |-> <<>>, best |-> NoSlot,
   table |-> [c \in Cell |-> EmptyEntry], size |-> 0, tombs |-> 0]

Count(s) == Len(s.sorted)
Home(s, p) == s.hash[p] % MapCapacity

-----------------------------------------------------------------------------
(* The price map.                                                          *)

(* Mutant of FindCell: a tombstone ends the search. *)
FindCellToTombstone(s, p) ==
  LET at(n) == s.table[Plus(Home(s, p), n)]
      stops == {n \in Cell : at(n).state # "Occupied" \/ at(n).price = p}
  IN IF stops # {} /\ at(Min(stops)).state = "Occupied"
     THEN Plus(Home(s, p), Min(stops)) ELSE NoCell

(* find_map_index: probe past other prices and tombstones, a cell at a     *)
(* time and each at most once.                                             *)
FindCell(s, p) ==
  LET at(n) == s.table[Plus(Home(s, p), n)]
      stops == {n \in Cell : \/ at(n).state = "Empty"
                            \/ (at(n).state = "Occupied" /\ at(n).price = p)}
  IN IF stops # {} /\ at(Min(stops)).state = "Occupied"
     THEN Plus(Home(s, p), Min(stops)) ELSE NoCell

FindSlot(s, p) ==
  LET cell == FindCell(s, p)
  IN IF cell = NoCell THEN NoSlot ELSE s.table[cell].slot

(* A round of map_insert's loop: the incoming entry takes the first cell   *)
(* without a level, and that of any entry closer to its home, which then   *)
(* travels on.                                                             *)
Probe(home, acc, n) ==
  LET cell == Plus(home, n)
      here == acc.table[cell]
  IN CASE acc.placed -> acc
       [] ~acc.placed /\ here.state # "Occupied" ->
            [acc EXCEPT !.table[cell] = acc.incoming, !.placed = TRUE,
                        !.reused = here.state = "Deleted"]
       [] OTHER ->
            IF here.dist < acc.incoming.dist
            THEN [acc EXCEPT !.table[cell] = acc.incoming,
                             !.incoming = [here EXCEPT !.dist = @ + 1]]
            ELSE [acc EXCEPT !.incoming.dist = @ + 1]

Placed(s, p, slot) ==
  FoldLeft(LAMBDA acc, n : Probe(Home(s, p), acc, n),
           [table |-> s.table, placed |-> FALSE, reused |-> FALSE,
            incoming |-> [state |-> "Occupied", price |-> p, slot |-> slot, dist |-> 0]],
           [n \in 1..MapCapacity |-> n - 1])

CanInsert(s, p) == s.size # MapCapacity /\ FindSlot(s, p) = NoSlot

MapInserted(s, p, slot) ==
  LET r == Placed(s, p, slot)
  IN [s EXCEPT !.table = r.table, !.size = @ + 1,
               !.tombs = IF r.reused THEN @ - 1 ELSE @]

MapErased(s, cell, p) ==
  IF cell = NoCell THEN s
  ELSE IF s.table[cell].state # "Occupied" \/ s.table[cell].price # p THEN s
  ELSE [s EXCEPT !.table[cell] = Tombstone, !.size = @ - 1, !.tombs = @ + 1]

-----------------------------------------------------------------------------
(* Slots in price order.                                                   *)

(* A round of lower_bound_price: half of the count that is left.           *)
Halve(s, p, r) ==
  LET step == r.count \div 2
      position == r.first + step
  IN IF r.count = 0 THEN r
     ELSE IF s.price[s.sorted[position + 1]] < p
     THEN [first |-> position + 1, count |-> r.count - (step + 1)]
     ELSE [r EXCEPT !.count = step]

LowerBound(s, p) ==
  FoldLeft(LAMBDA r, k : Halve(s, p, r), [first |-> 0, count |-> Count(s)], s.sorted).first

(* The entries moved by a shift have their sorted_position rewritten.      *)
Repositioned(s, sorted, changed) ==
  [s EXCEPT !.sorted = sorted,
            !.position = [x \in Slot |->
               IF x \in {sorted[n] : n \in (DOMAIN sorted) \cap changed}
               THEN CHOOSE n \in 0..Len(sorted) - 1 : sorted[n + 1] = x ELSE @[x]]]

RefreshBest(s) ==
  [s EXCEPT !.best = IF Count(s) = 0 THEN NoSlot
                     ELSE IF s.side = "Buy" THEN Last(s.sorted) ELSE Head(s.sorted)]

InsertSorted(s, slot) ==
  LET n == LowerBound(s, s.price[slot]) + 1
  IN RefreshBest(Repositioned(s, InsertAt(s.sorted, n, slot), n..MaxOrders))

(* Mutant of RemoveSorted: the shifted slots keep their positions. *)
RemoveSortedOnly(s, slot) ==
  [s EXCEPT !.sorted = RemoveAt(@, s.position[slot] + 1), !.position[slot] = NoSlot]

RemoveSorted(s, slot) ==
  LET n == s.position[slot] + 1
      moved == Repositioned(s, RemoveAt(s.sorted, n), n..MaxOrders)
  IN IF n > Count(s) THEN s ELSE [moved EXCEPT !.position[slot] = NoSlot]

(* find_next_slot_after *)
SparseFindNext(s, slot) ==
  LET next == IF s.side = "Buy" THEN s.position[slot] - 1 ELSE s.position[slot] + 1
  IN IF slot = NoSlot \/ s.price[slot] = NoPrice \/ next + 1 \notin DOMAIN s.sorted
     THEN NoSlot ELSE s.sorted[next + 1]

-----------------------------------------------------------------------------
(* Creating and removing levels.                                           *)

(* create_level: no free slot, or no place in the map, leaves s as it was. *)
Creatable(s, p) == s.free # <<>> /\ CanInsert(s, p)

CreateLevel(s, p) ==
  LET slot == Last(s.free)
      taken == [s EXCEPT !.free = Front(@), !.price[slot] = p, !.queue[slot] = <<>>]
  IN InsertSorted(MapInserted(taken, p, slot), slot)

(* remove_occupied_level: out of the map, the sorted slots and the level   *)
(* array, back on the stack, and only then a new best.                     *)
RemoveLevel(s, slot, cell) ==
  LET out == RemoveSorted(MapErased(s, cell, s.price[slot]), slot)
  IN RefreshBest([out EXCEPT !.price[slot] = NoPrice, !.queue[slot] = <<>>,
                             !.free = Append(@, slot)])

-----------------------------------------------------------------------------

SparseQueueAt(s, p) ==
  LET slot == FindSlot(s, p)
  IN IF ~InRange(p) THEN <<>> ELSE IF slot = NoSlot THEN <<>> ELSE s.queue[slot]

SparseAddStatus(s, p, o) ==
  LET slot == FindSlot(s, p)
  IN IF EntryStatus(p, o) # "Accepted" THEN EntryStatus(p, o)
     ELSE IF slot = NoSlot /\ ~Creatable(s, p) THEN "PoolExhausted"
     ELSE IF Fits(IF slot = NoSlot THEN <<>> ELSE s.queue[slot], o.qty) THEN "Accepted"
     ELSE "PriceLevelQuantityOverflow"

SparseAddOrder(s, p, o) ==
  LET with == IF FindSlot(s, p) = NoSlot THEN CreateLevel(s, p) ELSE s
  IN IF SparseAddStatus(s, p, o) # "Accepted" THEN s
     ELSE [with EXCEPT !.queue[FindSlot(with, p)] = Append(@, o)]

(* remove_order knows the map cell from its own search.                    *)
SparseRemoveOrder(s, p, n) ==
  LET cell == FindCell(s, p)
      slot == s.table[cell].slot
      shorter == [s EXCEPT !.queue[slot] = RemoveAt(@, n)]
  IN IF cell = NoCell THEN s
     ELSE IF shorter.queue[slot] = <<>> THEN RemoveLevel(shorter, slot, cell) ELSE shorter

SparseReduceOrder(s, p, n, qty) == [s EXCEPT !.queue[FindSlot(s, p)][n].qty = qty]

SparseCanAccept(s, p, qty) ==
  CASE qty = 0 -> "Accepted"
    [] qty # 0 /\ ~InRange(p) -> "InternalError"
    [] qty # 0 /\ InRange(p) /\ FindSlot(s, p) # NoSlot ->
         IF Fits(SparseQueueAt(s, p), qty) THEN "Accepted" ELSE "PriceLevelQuantityOverflow"
    [] OTHER -> IF Count(s) < MaxOrders THEN "Accepted" ELSE "PoolExhausted"

(* can_accept_replacement_residual: with every slot taken the new price    *)
(* needs the slot the old order's level is about to give up.               *)
SparseCanReplace(s, p, n, to, qty) ==
  LET old == FindSlot(s, p)
      target == FindSlot(s, to)
  IN CASE qty = 0 -> "Accepted"
       [] qty # 0 /\ (~InRange(p) \/ ~InRange(to) \/ old = NoSlot) -> "InternalError"
       [] qty # 0 /\ InRange(p) /\ InRange(to) /\ old # NoSlot /\ target # NoSlot ->
            IF Fits(IF target = old THEN RemoveAt(s.queue[old], n) ELSE s.queue[target], qty)
            THEN "Accepted" ELSE "PriceLevelQuantityOverflow"
       [] OTHER -> IF Count(s) < MaxOrders \/ Len(s.queue[old]) = 1
                   THEN "Accepted" ELSE "PoolExhausted"

-----------------------------------------------------------------------------

SparseWalk(s) ==
  LET chain == Chain(s.best, LAMBDA x : SparseFindNext(s, x), NoSlot, MaxOrders)
  IN [k \in DOMAIN chain |-> [price |-> s.price[chain[k]], queue |-> s.queue[chain[k]]]]

SparseBest(s) == IF s.best = NoSlot THEN <<>>
                 ELSE <<[price |-> s.price[s.best], queue |-> s.queue[s.best]]>>

(* In match an order leaves through its slot; the map is searched again.   *)
SparsePop(s) ==
  LET shorter == [s EXCEPT !.queue[s.best] = Tail(@)]
  IN IF shorter.queue[s.best] # <<>> THEN shorter
     ELSE RemoveLevel(shorter, s.best, FindCell(s, s.price[s.best]))

(* The front order is filled in part. *)
SparseRefront(s, o) == [s EXCEPT !.queue[s.best][1] = o]

SparseTurn(r, a) == Turn(r, a, r.store.side, SparseBest(r.store), SparsePop, SparseRefront)

SparseMatched(s, a, turns) ==
  FoldLeft(LAMBDA r, k : SparseTurn(r, a), Unmatched(s, a), [k \in 1..turns |-> k])

-----------------------------------------------------------------------------
(* What makes the structures one set of levels.                            *)

SlotsArePartitioned(s) ==
  LET used == Range(s.sorted)
  IN /\ IsInjective(s.sorted) /\ IsInjective(s.free)
     /\ used \cap Range(s.free) = {}
     /\ used \cup Range(s.free) = Slot
     /\ used = {x \in Slot : s.price[x] # NoPrice}

SortedByPrice(s) ==
  /\ \A m, n \in DOMAIN s.sorted : m < n => s.price[s.sorted[m]] < s.price[s.sorted[n]]
  /\ \A x \in Slot : s.position[x] =
       IF s.price[x] = NoPrice THEN NoSlot
       ELSE CHOOSE n \in 0..(Count(s) - 1) : s.sorted[n + 1] = x

MapFindsEachLevel(s) ==
  /\ \A x \in Range(s.sorted) : FindSlot(s, s.price[x]) = x
  /\ s.size = Count(s)
  /\ s.size = Cardinality({c \in Cell : s.table[c].state = "Occupied"})
  /\ s.tombs = Cardinality({c \in Cell : s.table[c].state = "Deleted"})

SparseExact(s) ==
  /\ SlotsArePartitioned(s)
  /\ SortedByPrice(s)
  /\ MapFindsEachLevel(s)
  /\ \A x \in Range(s.sorted) : s.queue[x] # <<>>

=============================================================================
