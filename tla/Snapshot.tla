------------------------------ MODULE Snapshot ------------------------------
(***************************************************************************)
(* Snapshots of an engine: serialize, validation and restore               *)
(* (include/Snapshot.hpp, include/SnapshotValidationWorkspace.hpp, and     *)
(* OrderBook's restore_snapshot_order). An image is what the bytes say:    *)
(*   readable   magic, version, reserved and length fields are in order    *)
(*   books      for each index the instrument and the book's               *)
(*              configuration, its counters, orders and level aggregates   *)
(* Nothing protects an image against a changed byte but its validation.    *)
(***************************************************************************)
EXTENDS Engine, Filter

CONSTANTS
  InvalidId,     (* kInvalidOrderId.                                       *)
  LevelKey,      (* snapshot_level_key: a number for each side and price.  *)
  Digits         (* The weights of the digits sort_primary sorts by, the   *)
                 (* least first. The code's are eight bytes, here bits.    *)

ASSUME InvalidIdAssumption == InvalidId \notin OrderId

(* All bids before all asks, each side by ascending price; the digits are  *)
(* all a key has.                                                          *)
ASSUME LevelKeyAssumption ==
  /\ LevelKey \in [Side -> [Price -> Nat]]
  /\ Digits \in Seq(Nat) /\ Digits # <<>> /\ Digits[1] = 1
  /\ \A n \in 2..Len(Digits) : Digits[n] = 2 * Digits[n - 1]
  /\ \A s \in Side, p \in Price : LevelKey[s][p] < 2 * Last(Digits)
  /\ \A p, q \in Price :
       /\ LevelKey["Buy"][p] < LevelKey["Sell"][q]
       /\ \A s \in Side : p < q => LevelKey[s][p] < LevelKey[s][q]

(* for_each_level: a side's occupied prices, best first. *)
BestFirst(b, s) ==
  CHOOSE f \in [1..Cardinality(Occupied(b, s)) -> Occupied(b, s)] :
    \A m, n \in DOMAIN f : m < n => Better(s, f[m], f[n])

(* for_each_order: the ids of a side in price-time order. *)
InOrder(b, s) ==
  FoldLeft(LAMBDA ids, p : ids \o b.level[s][p], <<>>, BestFirst(b, s))

OrderImage(h, id) ==
  LET o == h.book.order[id]
  IN [id |-> id, side |-> o.side, price |-> o.price, qty |-> o.qty, seq |-> o.seq,
      initial |-> h.initial[id], partly |-> id \in h.partly]

LevelImage(b, s, p) ==
  [side |-> s, price |-> p, qty |-> b.total[s][p], count |-> Len(b.level[s][p])]

(* write_book_snapshot *)
BookImage(i, h) ==
  LET b == h.book
      ids == InOrder(b, "Buy") \o InOrder(b, "Sell")
      levels(s) == [n \in DOMAIN BestFirst(b, s) |-> LevelImage(b, s, BestFirst(b, s)[n])]
  IN [instrument |-> i, maxOrders |-> MaxOrders[i], next |-> b.seq, events |-> h.events, feed |-> h.feed,
      orders |-> [n \in DOMAIN ids |-> OrderImage(h, ids[n])],
      levels |-> levels("Buy") \o levels("Sell")]

Image(e) ==
  [readable |-> TRUE, books |-> [n \in DOMAIN e.ids |-> BookImage(e.ids[n], e.held[n])]]

-----------------------------------------------------------------------------
(* Validation.                                                             *)

Key(r) == LevelKey[r.side][r.price]

(* sort_primary: a radix sort by level key from the least significant      *)
(* digit, each pass stable.                                                *)
RadixPass(records, digit) ==
  LET bucket(b) == Those(records, {r \in Range(records) : (Key(r) \div digit) % 2 = b})
  IN bucket(0) \o bucket(1)

Sorted(records) == FoldLeft(RadixPass, records, Digits)

(* What one order must satisfy on its own. *)
OrderIsSound(im, o) ==
  /\ o.id # InvalidId /\ o.side \in Side /\ o.price \in Price
  /\ o.qty # 0 /\ o.initial >= o.qty
  /\ o.partly => o.initial # o.qty
  /\ o.seq # 0 /\ o.seq <= im.next

Sides(im, s) == {o \in Range(im.orders) : o.side = s}

ImageUncrossed(im) ==
  \A bid \in Sides(im, "Buy"), ask \in Sides(im, "Sell") : bid.price < ask.price

(* Mutant of NothingTwice: only sequences are compared. *)
NoSequenceTwice(im) ==
  \A m, n \in DOMAIN im.orders :
    m # n /\ im.orders[m].seq = im.orders[n].seq => im.orders[n].seq = MaxSequence

(* No id twice, and no sequence twice but the saturated one. *)
NothingTwice(im) ==
  \A m, n \in DOMAIN im.orders : m # n =>
    /\ im.orders[m].id # im.orders[n].id
    /\ im.orders[m].seq = im.orders[n].seq => im.orders[n].seq = MaxSequence

(* Mutant of QueuesInSequence: any order within a level will do. *)
QueuesUnchecked(im) == TRUE

(* Within a level, sequences do not fall in the order of the image. *)
QueuesInSequence(im) ==
  LET sorted == Sorted(im.orders)
  IN \A n \in DOMAIN sorted :
       n > 1 /\ Key(sorted[n - 1]) = Key(sorted[n]) => sorted[n - 1].seq <= sorted[n].seq

OrdersAt(im, k) == Those(im.orders, {o \in Range(im.orders) : Key(o) = k})
QuantityAt(im, k) ==
  LET qty == [o \in Range(im.orders) |-> o.qty]
  IN FoldLeft(LAMBDA x, o : x + qty[o], 0, OrdersAt(im, k))
CountAt(im, k) == Len(OrdersAt(im, k))

(* The aggregates are those of the orders, each level once, none too wide. *)
LevelsAddUp(im) ==
  /\ \A n \in DOMAIN im.levels : im.levels[n].side \in Side /\ im.levels[n].price \in Price
  /\ \A n, m \in DOMAIN im.levels :
       n # m => Key(im.levels[n]) # Key(im.levels[m])
  /\ {Key(l) : l \in Range(im.levels)} = {Key(o) : o \in Range(im.orders)}
  /\ \A l \in Range(im.levels) :
       /\ l.qty = QuantityAt(im, Key(l)) /\ l.qty <= MaxQuantity
       /\ l.count = CountAt(im, Key(l))

(* validate_book_snapshot *)
BookStatus(i, im) ==
  IF im.instrument # i \/ im.maxOrders # MaxOrders[i] THEN "SnapshotConfigurationMismatch"
  ELSE IF Len(im.orders) > im.maxOrders THEN "SnapshotCapacityExceeded"
  ELSE IF /\ \A o \in Range(im.orders) : OrderIsSound(im, o)
          /\ ImageUncrossed(im) /\ NothingTwice(im)
          /\ QueuesInSequence(im) /\ LevelsAddUp(im)
    THEN "Accepted"
  ELSE "SnapshotFormatMismatch"

(* validate_engine_snapshot: every book, before any is touched.            *)
ImageStatus(e, im) ==
  LET status(n) == BookStatus(e.ids[n], im.books[n])
      bad == {n \in DOMAIN e.ids : status(n) # "Accepted"}
  IN IF ~im.readable THEN "SnapshotFormatMismatch"
     ELSE IF ~e.valid \/ Len(im.books) # Len(e.ids) THEN "SnapshotConfigurationMismatch"
     ELSE IF bad = {} THEN "Accepted"
     ELSE status(CHOOSE n \in bad : \A m \in bad : n <= m)

-----------------------------------------------------------------------------
(* Restore.                                                                *)

(* restore_snapshot_order: a pool slot, the level, the id index.           *)
RestoreOrder(i, h, o) ==
  LET b == h.book
  IN IF b.used = MaxOrders[i] THEN [held |-> h, status |-> "PoolExhausted"]
     ELSE IF MaxQuantity - b.total[o.side][o.price] < o.qty
       THEN [held |-> h, status |-> "PriceLevelQuantityOverflow"]
     ELSE IF o.id \in b.index THEN [held |-> h, status |-> "DuplicateOrderId"]
     ELSE [held |->
             [h EXCEPT !.book = [Rested(b, o.id, o.side, o.price, o.qty, Anonymous) EXCEPT
                                   !.order[o.id].seq = o.seq, !.used = @ + 1, !.seq = b.seq],
                       !.initial[o.id] = o.initial,
                       !.partly = IF o.partly THEN @ \cup {o.id} ELSE @],
           status |-> "Accepted"]

(* Mutant of Finished: the event log starts again from its first number. *)
FinishedSilent(h, im) == [h EXCEPT !.book.seq = im.next, !.feed = im.feed]

(* finish_snapshot_restore *)
Finished(h, im) ==
  [h EXCEPT !.book.seq = im.next, !.events = im.events, !.feed = im.feed]

(* restore_validated_book: clear, then the orders by level key.            *)
RestoreBook(i, im) ==
  LET step(acc, o) == IF acc.status = "Accepted" THEN RestoreOrder(i, acc.held, o) ELSE acc
      r == FoldLeft(step, [held |-> EmptyHeld, status |-> "Accepted"],
                    Sorted(im.orders))
  IN IF r.status = "Accepted"
     THEN [r EXCEPT !.held = Finished(@, im)]
     ELSE [r EXCEPT !.held = EmptyHeld]

(* The books one after another, up to the first that is refused.           *)
RestoreBooks(e, im) ==
  LET step(acc, n) ==
        LET r == RestoreBook(e.ids[n], im.books[n])
        IN IF acc.status # "Accepted" THEN acc
           ELSE [engine |-> [acc.engine EXCEPT !.held[n] = r.held], status |-> r.status]
  IN FoldLeft(step, [engine |-> e, status |-> "Accepted"], [n \in DOMAIN e.ids |-> n])

(* restore of an engine: [engine, status]. *)
Restore(e, im) ==
  LET status == ImageStatus(e, im)
  IN IF status = "Accepted" THEN RestoreBooks(e, im) ELSE [engine |-> e, status |-> status]

=============================================================================
