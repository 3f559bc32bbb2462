----------------------------- MODULE DenseSide -----------------------------
(***************************************************************************)
(* DenseBookSide (include/BookSide.hpp): one level for every price of the  *)
(* grid, a bitmap of the occupied ones in words, and the cached best index.*)
(* A side is a record [side, queue, words, best]; a word is the set of its *)
(* bits that are 1.                                                        *)
(***************************************************************************)
EXTENDS LevelWalk

CONSTANT WordBits   (* 64 in the code. *)

NoIndex == LevelCount     (* kInvalidIndex: no level has it. *)
Index == 0..(LevelCount - 1)
WordCount == (LevelCount + WordBits - 1) \div WordBits
Word(i) == i \div WordBits
Bit(i) == i % WordBits

DenseCleared(side) ==
  [side |-> side, queue |-> [i \in Index |-> <<>>],
   words |-> [w \in 0..(WordCount - 1) |-> {}], best |-> NoIndex]

BetterIndex(side, i, j) == IF side = "Buy" THEN i > j ELSE i < j

(* Buy sides look for the highest bit of the last non-empty word, sell     *)
(* sides for the lowest of the first.                                      *)
Outermost(side, words, W) ==
  LET full == {w \in W : words[w] # {}}
      w == IF side = "Buy" THEN Max(full) ELSE Min(full)
  IN IF full = {} THEN NoIndex
     ELSE w * WordBits + IF side = "Buy" THEN Max(words[w]) ELSE Min(words[w])

FindBest(d) == Outermost(d.side, d.words, DOMAIN d.words)

(* find_next_index_after: the rest of the word of the next index, masked,  *)
(* then the words beyond it.                                               *)
DenseFindNext(d, i) ==
  LET next == IF d.side = "Buy" THEN i - 1 ELSE i + 1
      masked == [d.words EXCEPT ![Word(next)] =
                   {b \in @ : ~BetterIndex(d.side, b, Bit(next))}]
  IN IF i >= LevelCount \/ next \notin Index THEN NoIndex
     ELSE Outermost(d.side, masked,
                    {w \in DOMAIN d.words : ~BetterIndex(d.side, w, Word(next))})

(* Mutant of SetOccupied: the newest level becomes the best. *)
SetOccupiedNewest(d, i) ==
  [d EXCEPT !.words[Word(i)] = @ \cup {Bit(i)}, !.best = i]

SetOccupied(d, i) ==
  [d EXCEPT !.words[Word(i)] = @ \cup {Bit(i)},
            !.best = IF @ = NoIndex \/ BetterIndex(d.side, i, @) THEN i ELSE @]

ClearOccupied(d, i) ==
  LET less == [d EXCEPT !.words[Word(i)] = @ \ {Bit(i)}]
  IN IF i = d.best THEN [less EXCEPT !.best = FindBest(less)] ELSE less

-----------------------------------------------------------------------------

DenseQueueAt(d, p) == IF InRange(p) THEN d.queue[IndexOf(p)] ELSE <<>>

DenseAddStatus(d, p, o) ==
  IF EntryStatus(p, o) = "Accepted" /\ ~Fits(d.queue[IndexOf(p)], o.qty)
  THEN "PriceLevelQuantityOverflow" ELSE EntryStatus(p, o)

DenseAddOrder(d, p, o) ==
  LET i == IndexOf(p)
      longer == [d EXCEPT !.queue[i] = Append(@, o)]
  IN IF DenseAddStatus(d, p, o) # "Accepted" THEN d
     ELSE IF d.queue[i] = <<>> THEN SetOccupied(longer, i) ELSE longer

(* remove_order, and match when an order leaves a level. *)
DenseRemoveOrder(d, p, n) ==
  LET i == IndexOf(p)
      shorter == [d EXCEPT !.queue[i] = RemoveAt(@, n)]
  IN IF shorter.queue[i] = <<>> THEN ClearOccupied(shorter, i) ELSE shorter

DenseReduceOrder(d, p, n, qty) == [d EXCEPT !.queue[IndexOf(p)][n].qty = qty]

DenseCanAccept(d, p, qty) ==
  CASE qty = 0 -> "Accepted"
    [] qty # 0 /\ ~InRange(p) -> "InternalError"
    [] OTHER -> IF Fits(d.queue[IndexOf(p)], qty) THEN "Accepted"
                ELSE "PriceLevelQuantityOverflow"

(* Mutant of DenseCanReplace: the old order is discounted at any price. *)
CanReplaceAnywhere(d, p, n, to, qty) ==
  IF MaxQuantity - (Total(d.queue[IndexOf(to)]) - d.queue[IndexOf(p)][n].qty) >= qty
  THEN "Accepted" ELSE "PriceLevelQuantityOverflow"

(* can_accept_replacement_residual *)
DenseCanReplace(d, p, n, to, qty) ==
  LET target == d.queue[IndexOf(to)]
  IN CASE qty = 0 -> "Accepted"
       [] qty # 0 /\ (~InRange(p) \/ ~InRange(to)) -> "InternalError"
       [] OTHER -> IF Fits(IF p = to THEN RemoveAt(target, n) ELSE target, qty)
                   THEN "Accepted" ELSE "PriceLevelQuantityOverflow"

-----------------------------------------------------------------------------

DenseWalk(d) ==
  LET chain == Chain(d.best, LAMBDA i : DenseFindNext(d, i), NoIndex, LevelCount)
  IN [k \in DOMAIN chain |-> [price |-> PriceAt(chain[k]), queue |-> d.queue[chain[k]]]]

(* The level match works on is the one of the cached best. *)
DenseBest(d) == IF d.best = NoIndex THEN <<>>
                ELSE <<[price |-> PriceAt(d.best), queue |-> d.queue[d.best]]>>

(* The front order leaves, and its level with it if it was the last; or it *)
(* is filled in part.                                                      *)
DensePop(d) == DenseRemoveOrder(d, PriceAt(d.best), 1)
DenseRefront(d, o) == [d EXCEPT !.queue[d.best][1] = o]

DenseTurn(r, a) == Turn(r, a, r.store.side, DenseBest(r.store), DensePop, DenseRefront)

DenseMatched(d, a, turns) ==
  FoldLeft(LAMBDA r, k : DenseTurn(r, a), Unmatched(d, a), [k \in 1..turns |-> k])

(* The bitmap marks exactly the levels that have orders. *)
DenseExact(d) ==
  \A i \in Index : Bit(i) \in d.words[Word(i)] <=> d.queue[i] # <<>>

=============================================================================
