----------------------------- MODULE LevelWalk -----------------------------
(***************************************************************************)
(* What both implementations of a book side share (include/BookSide.hpp):  *)
(* the price grid, a price level's queue, and the walks and the matching   *)
(* turn that the dense and the sparse side each write out over their own   *)
(* best/next navigation. A walk is given as the sequence of levels the     *)
(* navigation reaches, a level as [price, queue], an order as              *)
(* [qty, owner]; a level's cached total is its sum here (the cache itself  *)
(* is OrderNodes' subject).                                                *)
(***************************************************************************)
EXTENDS Integers, Sequences, FiniteSets, SequencesExt, FiniteSetsExt

CONSTANTS
  MinPrice, MaxPrice, TickSize,   (* BookConfig: the price grid.           *)
  NoPrice,                        (* A market order's limit.               *)
  Owner, Anonymous,               (* Participants; kAnonymousParticipantId. *)
  MaxQuantity                     (* Largest Quantity.                     *)

(* BookConfig::valid; a book of another grid refuses every price itself.   *)
ASSUME GridAssumption ==
  /\ MinPrice \in Int /\ MaxPrice \in Int /\ TickSize \in Nat \ {0} /\ NoPrice \notin Int
  /\ MinPrice <= MaxPrice /\ (MaxPrice - MinPrice) % TickSize = 0
  /\ MaxQuantity \in Nat \ {0}

Side == {"Buy", "Sell"}
Policy == {"Disabled", "CancelResting", "CancelAggressor", "CancelBoth"}

(* compute_level_count: a range that is no whole number of ticks has none. *)
LevelCount ==
  IF MinPrice > MaxPrice \/ TickSize <= 0 THEN 0
  ELSE IF (MaxPrice - MinPrice) % TickSize # 0 THEN 0
  ELSE (MaxPrice - MinPrice) \div TickSize + 1

PriceAt(i) == MinPrice + i * TickSize
IndexOf(p) == (p - MinPrice) \div TickSize

InRange(p) ==
  /\ MinPrice <= p /\ p <= MaxPrice /\ TickSize > 0
  /\ (p - MinPrice) % TickSize = 0

Price == {PriceAt(i) : i \in 0..(LevelCount - 1)}

Crosses(side, p, limit) ==
  limit # NoPrice => IF side = "Sell" THEN p <= limit ELSE p >= limit

Total(queue) == FoldLeft(LAMBDA n, o : n + o.qty, 0, queue)

Min2(x, y) == IF x < y THEN x ELSE y

(* add_order: the refusals both sides share. *)
EntryStatus(p, o) ==
  CASE o.qty = 0 -> "InvalidQuantity"
    [] o.qty # 0 /\ ~InRange(p) -> "InvalidPrice"
    [] OTHER -> "Accepted"

Fits(queue, qty) == MaxQuantity - Total(queue) >= qty

-----------------------------------------------------------------------------
(* Read-only walks.                                                        *)

(* The positions best, next, next after that ... until none is left.       *)
Chain(first, Following(_), none, bound) ==
  LET at[k \in 0..bound] ==
        IF k = 0 THEN first
        ELSE IF at[k - 1] = none THEN none ELSE Following(at[k - 1])
  IN [k \in 1..Cardinality({i \in 0..bound : at[i] # none}) |-> at[k - 1]]

(* The walks stop at the first level that does not cross. *)
Reached(side, walk, limit) ==
  SubSeq(walk, 1, Max({n \in 0..Len(walk) :
                         \A i \in 1..n : Crosses(side, walk[i].price, limit)}))

ExecutableQuantity(levels, qty) ==
  Min2(qty, FoldLeft(LAMBDA n, l : n + Total(l.queue), 0, levels))

Orders(levels) == FlattenSeq([i \in DOMAIN levels |-> levels[i].queue])

(* executable_fill_count *)
FillCount(levels, qty) ==
  FoldLeft(LAMBDA acc, o :
             IF acc.left = 0 THEN acc
             ELSE [left |-> acc.left - Min2(acc.left, o.qty), fills |-> acc.fills + 1],
           [left |-> qty, fills |-> 0], Orders(levels)).fills

SelfTrade(policy, resting, aggressor) ==
  policy # "Disabled" /\ aggressor # Anonymous /\ resting = aggressor

Preflight(levels, qty, owner, policy) ==
  LET Visit(acc, o) ==
        LET x == Min2(acc.left, o.qty)
        IN CASE acc.stopped \/ acc.left = 0 -> acc
             [] ~acc.stopped /\ acc.left # 0 /\ SelfTrade(policy, o.owner, owner) ->
                  [acc EXCEPT !.cancels = IF policy = "CancelAggressor" THEN @ ELSE @ + 1,
                              !.stopped = policy # "CancelResting"]
             [] OTHER -> [acc EXCEPT !.left = @ - x, !.fills = @ + 1]
  IN FoldLeft(Visit, [left |-> qty, fills |-> 0, cancels |-> 0, stopped |-> FALSE],
              Orders(levels))

(* depth, best_quote and for_each_level: what a reader sees of the walk.   *)
Seen(walk) == [i \in DOMAIN walk |->
                [price |-> walk[i].price, total |-> Total(walk[i].queue),
                 count |-> Len(walk[i].queue)]]

-----------------------------------------------------------------------------
(* Matching.                                                               *)

Aggressor == [qty: Nat, limit: Price \cup {NoPrice}, owner: Owner, policy: Policy]

Unmatched(store, a) ==
  [store |-> store, left |-> a.qty, trades |-> <<>>, cancels |-> 0, stopped |-> FALSE]

(* One turn of match's loop at the best level, which Pop empties of its    *)
(* front order and Refront reduces it by.                                  *)
Turn(r, a, side, walk, Pop(_), Refront(_, _)) ==
  LET level == Head(walk)
      o == Head(level.queue)
      x == Min2(r.left, o.qty)
  IN CASE \/ r.left = 0 \/ r.stopped \/ walk = <<>>
          \/ ~Crosses(side, level.price, a.limit) -> r
       [] OTHER ->
          IF SelfTrade(a.policy, o.owner, a.owner)
          THEN IF a.policy = "CancelAggressor"
               THEN [r EXCEPT !.stopped = TRUE]
               ELSE [r EXCEPT !.store = Pop(@), !.cancels = @ + 1,
                              !.stopped = a.policy = "CancelBoth"]
          ELSE [r EXCEPT !.left = @ - x,
                         !.trades = Append(@, <<level.price, x>>),
                         !.store = IF x = o.qty THEN Pop(@)
                                   ELSE Refront(@, [o EXCEPT !.qty = @ - x])]

=============================================================================
