---------------------------- MODULE LevelStores ----------------------------
(***************************************************************************)
(* A dense and a sparse side given the same calls, as                      *)
(* fuzz/fuzz_stateful_differential.cpp gives them to two engines. Each has *)
(* to be the side PriceQueues describes.                                   *)
(***************************************************************************)
EXTENDS DenseSide, SparseSide

CONSTANTS
  Hash,         (* Hash functions to try, from prices to numbers.          *)
  TriedPrice,   (* Prices asked for, off the grid included.                *)
  Entry, Taker  (* Arriving orders and aggressors.                         *)

(* MaxOrders are the pool's slots, too. A command's quantity is never 0    *)
(* when it gets to a side.                                                 *)
ASSUME InputAssumption ==
  /\ MaxOrders \in Nat \ {0} /\ WordBits \in Nat \ {0}
  /\ Hash \subseteq [Price -> Nat]
  /\ Price \subseteq TriedPrice /\ TriedPrice \subseteq Int
  /\ Entry \subseteq [qty: 1..MaxQuantity, owner: Owner]
  /\ Taker \subseteq Aggressor

ASSUME MapAssumption == IsMapCapacityFor(MapCapacity, MaxOrders)

VARIABLES dense, sparse
vars == <<dense, sparse>>

Resting == FoldLeft(LAMBDA n, l : n + Len(l.queue), 0, DenseWalk(dense))
Turns == MaxOrders + 1

Init == \E side \in Side, hash \in Hash :
  /\ dense = DenseCleared(side)
  /\ sparse = SparseCleared(side, hash)

(* A pool slot is taken before the side is asked. *)
AddOrder(p, o) ==
  /\ Resting < MaxOrders
  /\ dense' = DenseAddOrder(dense, p, o)
  /\ sparse' = SparseAddOrder(sparse, p, o)

CancelOrder(p, n) ==
  /\ dense' = DenseRemoveOrder(dense, p, n)
  /\ sparse' = SparseRemoveOrder(sparse, p, n)

ReduceOrder(p, n, qty) ==
  /\ dense' = DenseReduceOrder(dense, p, n, qty)
  /\ sparse' = SparseReduceOrder(sparse, p, n, qty)

(* replace_order without a match in between: asked first, then removed and *)
(* added.                                                                  *)
ReplaceOrder(p, n, to, qty) ==
  LET o == [DenseQueueAt(dense, p)[n] EXCEPT !.qty = qty]
  IN /\ dense' = IF DenseCanReplace(dense, p, n, to, qty) = "Accepted"
                 THEN DenseAddOrder(DenseRemoveOrder(dense, p, n), to, o) ELSE dense
     /\ sparse' = IF SparseCanReplace(sparse, p, n, to, qty) = "Accepted"
                  THEN SparseAddOrder(SparseRemoveOrder(sparse, p, n), to, o) ELSE sparse

MatchOrders(a) ==
  /\ dense' = DenseMatched(dense, a, Turns).store
  /\ sparse' = SparseMatched(sparse, a, Turns).store

ClearSides ==
  /\ dense' = DenseCleared(dense.side)
  /\ sparse' = SparseCleared(sparse.side, sparse.hash)

Next ==
  \/ \E p \in TriedPrice, o \in Entry : AddOrder(p, o)
  \/ \E p \in Price : \E n \in DOMAIN DenseQueueAt(dense, p) :
       \/ CancelOrder(p, n)
       \/ \E qty \in 1..DenseQueueAt(dense, p)[n].qty : ReduceOrder(p, n, qty)
       \/ \E to \in Price, o \in Entry : ReplaceOrder(p, n, to, o.qty)
  \/ \E a \in Taker : MatchOrders(a)
  \/ ClearSides

Spec == Init /\ [][Next]_vars

-----------------------------------------------------------------------------
(* Properties.                                                             *)

(* Sparse: the slots of levels in use and of free ones are all the slots,  *)
(* each once; the sorted slots ascend in price and each slot knows its     *)
(* place; the map finds each level through whatever tombstones it has      *)
(* gathered and counts both. Dense: a bit is set where orders rest.        *)
StructuresAreExact == DenseExact(dense) /\ SparseExact(sparse)

(* The same question gets the same answer from both sides: best and depth  *)
(* in order, depth at any price on the grid or off it, how much and how    *)
(* many orders an aggressor would find, what preflight and match report,   *)
(* and whether an order could be added or replaced. In particular the      *)
(* sparse side is never out of level slots while an order can still come.  *)
AnswersAgree ==
  LET wd == DenseWalk(dense)
      ws == SparseWalk(sparse)
  IN /\ Seen(wd) = Seen(ws)
     /\ \A p \in TriedPrice : DenseQueueAt(dense, p) = SparseQueueAt(sparse, p)
     /\ \A a \in Taker :
          LET d == Reached(dense.side, wd, a.limit)
              s == Reached(dense.side, ws, a.limit)
              md == DenseMatched(dense, a, Turns)
              ms == SparseMatched(sparse, a, Turns)
          IN /\ ExecutableQuantity(d, a.qty) = ExecutableQuantity(s, a.qty)
             /\ FillCount(d, a.qty) = FillCount(s, a.qty)
             /\ Preflight(d, a.qty, a.owner, a.policy) = Preflight(s, a.qty, a.owner, a.policy)
             /\ <<md.left, md.trades, md.cancels, md.stopped>>
                  = <<ms.left, ms.trades, ms.cancels, ms.stopped>>
     /\ Resting < MaxOrders =>
          \A p \in TriedPrice, o \in Entry :
            /\ DenseAddStatus(dense, p, o) = SparseAddStatus(sparse, p, o)
            /\ DenseCanAccept(dense, p, o.qty) = SparseCanAccept(sparse, p, o.qty)
     /\ \A p, to \in Price, o \in Entry : \A n \in DOMAIN DenseQueueAt(dense, p) :
          DenseCanReplace(dense, p, n, to, o.qty) = SparseCanReplace(sparse, p, n, to, o.qty)

(* What a side admits it can store: can_accept_residual promises add_order *)
(* and can_accept_replacement_residual promises it once the old order is   *)
(* out, even when that order's level is the only slot there is.            *)
AdmittedIsStored ==
  /\ Resting < MaxOrders =>
       \A p \in Price, o \in Entry :
         SparseCanAccept(sparse, p, o.qty) = "Accepted"
           => /\ SparseAddStatus(sparse, p, o) = "Accepted"
              /\ DenseAddStatus(dense, p, o) = "Accepted"
  /\ \A p, to \in Price, o \in Entry : \A n \in DOMAIN DenseQueueAt(dense, p) :
       /\ DenseCanReplace(dense, p, n, to, o.qty) = "Accepted"
            => DenseAddStatus(DenseRemoveOrder(dense, p, n), to, o) = "Accepted"
       /\ SparseCanReplace(sparse, p, n, to, o.qty) = "Accepted"
            => SparseAddStatus(SparseRemoveOrder(sparse, p, n), to, o) = "Accepted"

DenseQueues == [p \in Price |-> DenseQueueAt(dense, p)]

Promise == INSTANCE PriceQueues WITH side <- dense.side, queues <- DenseQueues

(* The dense side is the book side of PriceQueues: each of its steps is    *)
(* that step on the queues by price, a match serving the best price first  *)
(* and the earliest order in it. By AnswersAgree so is the sparse side.    *)
ImplementsPriceQueues == Promise!Spec

=============================================================================
