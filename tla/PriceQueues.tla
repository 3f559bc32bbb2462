---------------------------- MODULE PriceQueues ----------------------------
(***************************************************************************)
(* What a book side promises, whichever way it stores its levels: a queue  *)
(* of orders at each price of the grid, and matching by price, then time   *)
(* (include/BookSide.hpp, BookSide). DenseSide and SparseSide implement    *)
(* it, driven together by LevelStores.                                     *)
(***************************************************************************)
EXTENDS LevelWalk

CONSTANTS
  MaxOrders,    (* config.max_orders: the pool's slots.                    *)
  Entry,        (* Orders that arrive.                                     *)
  Taker         (* Aggressors that arrive.                                 *)

VARIABLES side, queues

Resting == FoldSet(LAMBDA p, n : n + Len(queues[p]), 0, Price)

Init == side \in Side /\ queues = [p \in Price |-> <<>>]

(* add_order *)
AddOrder(p, o) ==
  /\ Resting < MaxOrders
  /\ Fits(queues[p], o.qty)
  /\ queues' = [queues EXCEPT ![p] = Append(@, o)]
  /\ UNCHANGED side

(* remove_order: the order may be anywhere in its queue.                   *)
RemoveOrder(p, i) ==
  /\ queues' = [queues EXCEPT ![p] = RemoveAt(@, i)]
  /\ UNCHANGED side

(* reduce_order: it keeps its place. *)
ReduceOrder(p, i, qty) ==
  /\ queues' = [queues EXCEPT ![p][i].qty = qty]
  /\ UNCHANGED side

(* OrderBook::replace_order: out of one queue, to the end of another. *)
Replace(p, i, to, qty) ==
  /\ Fits(IF to = p THEN RemoveAt(queues[p], i) ELSE queues[to], qty)
  /\ LET left == [queues EXCEPT ![p] = RemoveAt(@, i)]
     IN queues' = [left EXCEPT ![to] = Append(@, [queues[p][i] EXCEPT !.qty = qty])]
  /\ UNCHANGED side

(* Best price first. *)
Walk(q) ==
  LET prices == SetToSortSeq({p \in Price : q[p] # <<>>},
                             LAMBDA p, r : IF side = "Buy" THEN p > r ELSE p < r)
  IN [i \in DOMAIN prices |-> [price |-> prices[i], queue |-> q[prices[i]]]]

Matched(a) ==
  LET best(q) == Head(Walk(q)).price
      Pop(q) == [q EXCEPT ![best(q)] = Tail(@)]
      Refront(q, o) == [q EXCEPT ![best(q)][1] = o]
  IN FoldLeft(LAMBDA r, k : Turn(r, a, side, Walk(r.store), Pop, Refront),
              Unmatched(queues, a), [k \in 1..(MaxOrders + 1) |-> k])

(* match *)
Match(a) == queues' = Matched(a).store /\ UNCHANGED side

Clear == queues' = [p \in Price |-> <<>>] /\ UNCHANGED side

Next ==
  \/ \E p \in Price, o \in Entry : AddOrder(p, o)
  \/ \E p \in Price : \E i \in DOMAIN queues[p] :
       \/ RemoveOrder(p, i)
       \/ \E qty \in 1..queues[p][i].qty : ReduceOrder(p, i, qty)
       \/ \E to \in Price, o \in Entry : Replace(p, i, to, o.qty)
  \/ \E a \in Taker : Match(a)
  \/ Clear

Spec == Init /\ [][Next]_<<side, queues>>

=============================================================================
