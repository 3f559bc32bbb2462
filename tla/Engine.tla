------------------------------- MODULE Engine -------------------------------
(***************************************************************************)
(* The books of a MatchingEngine and what one dispatched command does to   *)
(* them (include/MatchingEngine.hpp, include/OrderBook.hpp), as a function *)
(* of the engine: the view snapshots and the journal have of it. OrderBook *)
(* models the same commands step by step, with every option and limit;     *)
(* here an order is good-till-cancelled and anonymous, self-trade          *)
(* prevention is off, and of the capacities only the order pool and the    *)
(* width of a level's total bind.                                          *)
(*                                                                         *)
(* An engine is a record:                                                  *)
(*   valid     valid_: construction succeeded                              *)
(*   ids       the instrument of each InstrumentState, in configured order *)
(*   held      its book, by the same index                                 *)
(*   lookup    lookup_: the index in each cell, 0 when it is not occupied  *)
(* and what it holds for an instrument is a record again:                  *)
(*   book      Book's record                                               *)
(*   initial   Order::initial_quantity, 0 for an id that does not rest     *)
(*   partly    the ids in state PartiallyFilled                            *)
(*   events    the event log's next_sequence_                              *)
(*   feed      the market-data log's current_sequence_                     *)
(***************************************************************************)
EXTENDS Book

CONSTANTS
  Instrument,       (* Instrument ids that can be configured.              *)
  InvalidInstrument,(* kInvalidInstrumentId.                               *)
  MaxOrders,        (* max_orders of each book.                            *)
  Hash,             (* hash of an instrument id.                           *)
  LookupCapacity    (* lookup_capacity_.                                   *)

ASSUME InstrumentAssumption ==
  /\ Instrument \subseteq Nat /\ InvalidInstrument \notin Instrument
  /\ MaxOrders \in [Instrument -> Nat \ {0}]
  /\ Hash \in [Instrument -> Nat] /\ LookupCapacity \in Nat

EmptyHeld ==
  [book |-> EmptyBook, initial |-> [id \in OrderId |-> 0], partly |-> {},
   events |-> 0, feed |-> 0]

-----------------------------------------------------------------------------
(* Construction and lookup.                                                *)

Cell == 0..(LookupCapacity - 1)

(* The cells from an id's own onwards, as lookup_index and                 *)
(* lookup_insert_slot probe them.                                          *)
Probes(i) == [n \in 1..LookupCapacity |-> (Hash[i] + n - 1) % LookupCapacity]

(* Mutant of LookupIndex: only the home cell is looked at. *)
LookupAtHome(e, i) ==
  LET n == e.lookup[Hash[i] % LookupCapacity]
  IN IF n # 0 /\ e.ids[n] = i THEN n ELSE 0

(* lookup_index: the index of instrument i, 0 when there is none.          *)
LookupIndex(e, i) ==
  LET at(n) == e.lookup[Probes(i)[n]]
      stops == {n \in 1..LookupCapacity : at(n) = 0 \/ e.ids[at(n)] = i}
  IN IF stops = {} THEN 0 ELSE at(CHOOSE n \in stops : \A m \in stops : n <= m)

(* The members before the first insertion. *)
Unbuilt == [valid |-> TRUE, ids |-> <<>>, held |-> <<>>, lookup |-> [c \in Cell |-> 0]]

(* Mutant of FailInitialization: only the flag says so. *)
FailWithFlag(e) == [e EXCEPT !.valid = FALSE]

(* fail_initialization, however much of e has been built. *)
FailInitialization(e) ==
  [e EXCEPT !.valid = FALSE, !.ids = <<>>, !.held = <<>>, !.lookup = [c \in Cell |-> 0]]

(* insert_instrument *)
Inserted(e, i) ==
  LET free == CHOOSE n \in 1..LookupCapacity :
                /\ e.lookup[Probes(i)[n]] = 0
                /\ \A m \in 1..(n - 1) : e.lookup[Probes(i)[m]] # 0
  IN [e EXCEPT !.ids = Append(@, i), !.held = Append(@, EmptyHeld),
               !.lookup[Probes(i)[free]] = Len(e.ids) + 1]

(* validate_configurations of a list of ids; the books' own configurations *)
(* are valid here.                                                         *)
IsConfiguration(ids, maxInstruments) ==
  /\ Len(ids) <= maxInstruments
  /\ InvalidInstrument \notin Range(ids)
  /\ IsInjective(ids)

(* The constructor, when memory lasts for the first `lasts' instruments:   *)
(* the next one's allocation finds those before it already inserted.       *)
Constructed(ids, maxInstruments, lasts) ==
  LET built == FoldLeft(Inserted, Unbuilt, SubSeq(ids, 1, lasts))
  IN IF ~IsConfiguration(ids, maxInstruments) THEN FailInitialization(Unbuilt)
     ELSE IF lasts < Len(ids) THEN FailInitialization(built) ELSE built

(* What an engine holds for instrument i. *)
Held(e, i) == e.held[LookupIndex(e, i)]

-----------------------------------------------------------------------------
(* The parts of a command.                                                 *)

(* How h ends a command that turns it into g. *)
Outcome(h, g, status, trades, events, quotes) ==
  [held |-> [g EXCEPT !.events = h.events + events, !.feed = h.feed + quotes],
   status |-> status, trades |-> trades, events |-> events, quotes |-> quotes]

(* A refusal is one numbered event; append_unsequenced_order's has none.   *)
Refused(h, status) ==
  [Outcome(h, h, status, <<>>, 1, 0) EXCEPT
     !.held.events = IF status = "PriceLevelQuantityOverflow" THEN h.events ELSE @]

(* emit_market_data_level_change: the level, and the best quote if it moved. *)
Posts(b, c, s) == IF Quote(b, s) = Quote(c, s) THEN 1 ELSE 2

(* The front order of the best price is filled.                            *)
Fill(s, m) ==
  LET b == m.held.book
      id == Head(b.level[s][b.best[s]])
      x == Min2(m.left, b.order[id].qty)
      c == FilledFront(b, s, x)
      filled == x = b.order[id].qty
      g == [m.held EXCEPT !.book = c,
                          !.initial[id] = IF filled THEN 0 ELSE @,
                          !.partly = IF filled THEN @ \ {id} ELSE @ \cup {id}]
  IN [m EXCEPT !.held = g, !.left = @ - x, !.trades = Append(@, <<id, x>>),
               !.quotes = @ + 1 + Posts(b, c, s)]

(* One iteration of match, if it comes to one.                             *)
Turn(s, limit, m) ==
  LET best == m.held.book.best[s]
  IN IF m.left = 0 \/ best = NoPrice \/ ~Crosses(s, best, limit) THEN m ELSE Fill(s, m)

(* match. Every iteration but the last takes an order out of the book, so  *)
(* there are no more of them than orders.                                  *)
Matched(h, s, qty, limit) ==
  FoldLeft(LAMBDA m, n : Turn(s, limit, m),
           [held |-> h, left |-> qty, trades |-> <<>>, quotes |-> 0],
           [n \in 1..Cardinality(h.book.index) |-> n])

(* The status of a command that traded, or did not, and left something.    *)
TradeStatus(m, untraded) ==
  IF m.trades = <<>> THEN untraded ELSE IF m.left = 0 THEN "Filled" ELSE "PartiallyFilled"

(* What is left after match m rests as order id; other events came first.  *)
RestsAfter(h, m, id, s, p, before, quotes) ==
  LET b == Rested(m.held.book, id, s, p, m.left, Anonymous)
      g == [m.held EXCEPT !.book = b, !.initial[id] = m.left, !.partly = @ \ {id}]
  IN Outcome(h, g, TradeStatus(m, "Accepted"), m.trades,
             before + Len(m.trades) + 1, quotes + m.quotes + Posts(m.held.book, b, s))

-----------------------------------------------------------------------------
(* The commands.                                                           *)

Add(i, h, c) ==
  LET b == h.book
      left == c.qty - ExecutableQuantity(b, Opposite(c.side), c.qty, c.price)
      m == Matched(h, Opposite(c.side), c.qty, c.price)
  IN IF c.id \in b.index THEN Refused(h, "DuplicateOrderId")
     ELSE IF left > 0 /\ MaxQuantity - b.total[c.side][c.price] < left
       THEN Refused(h, "PriceLevelQuantityOverflow")
     ELSE IF left > 0 /\ b.used = MaxOrders[i] THEN Refused(h, "PoolExhausted")
     ELSE IF left > 0
       THEN RestsAfter(h, [m EXCEPT !.held.book.used = @ + 1], c.id, c.side, c.price, 1, 0)
     ELSE Outcome(h, m.held, "Filled", m.trades, 1 + Len(m.trades), m.quotes)

Market(h, c) ==
  LET m == Matched(h, Opposite(c.side), c.qty, NoPrice)
  IN Outcome(h, m.held, TradeStatus(m, "NoLiquidity"), m.trades, Len(m.trades), m.quotes)

Cancel(h, c) ==
  LET b == Removed(h.book, c.id)
  IN IF c.id \notin h.book.index THEN Refused(h, "UnknownOrderId")
     ELSE Outcome(h, [h EXCEPT !.book = b, !.initial[c.id] = 0, !.partly = @ \ {c.id}],
                  "Cancelled", <<>>, 1, Posts(h.book, b, h.book.order[c.id].side))

(* A new quantity at the same price and priority. *)
Reduce(h, c) ==
  LET b == Reduced(h.book, c.id, c.qty)
  IN IF c.qty = h.book.order[c.id].qty THEN Outcome(h, h, "Accepted", <<>>, 1, 0)
     ELSE Outcome(h, [h EXCEPT !.book = b], "Accepted", <<>>, 1,
                  Posts(h.book, b, h.book.order[c.id].side))

Modify(h, c) ==
  IF c.id \notin h.book.index THEN Refused(h, "UnknownOrderId")
  ELSE IF c.qty > h.book.order[c.id].qty THEN Refused(h, "QuantityIncreaseRejected")
  ELSE Reduce(h, c)

(* A replaced order leaves, trades, and comes back with what is left.      *)
Reenter(h, c) ==
  LET o == h.book.order[c.id]
      out == Unindexed(Unlinked(h.book, c.id), c.id)
      quotes == Posts(h.book, out, o.side)
      m == Matched([h EXCEPT !.book = out, !.initial[c.id] = 0, !.partly = @ \ {c.id}],
                   Opposite(o.side), c.qty, c.price)
  IN IF MaxQuantity - out.total[o.side][c.price] < m.left
       THEN Refused(h, "PriceLevelQuantityOverflow")
     ELSE IF m.left > 0 THEN RestsAfter(h, m, c.id, o.side, c.price, 2, quotes)
     ELSE Outcome(h, [m.held EXCEPT !.book = Released(@, c.id)], "Filled", m.trades,
                  2 + Len(m.trades), quotes + m.quotes)

Replace(h, c) ==
  LET o == h.book.order[c.id]
  IN IF c.id \notin h.book.index THEN Refused(h, "UnknownOrderId")
     ELSE IF c.price = o.price /\ c.qty <= o.qty THEN Reduce(h, c)
     ELSE Reenter(h, c)

-----------------------------------------------------------------------------
(* The engine.                                                             *)

Executed(i, h, c) ==
  CASE c.op = "add" -> Add(i, h, c)
    [] c.op = "market" -> Market(h, c)
    [] c.op = "cancel" -> Cancel(h, c)
    [] c.op = "modify" -> Modify(h, c)
    [] c.op = "replace" -> Replace(h, c)

(* The result of a command that the book of index n ended with outcome r;  *)
(* first is the number of the first event.                                 *)
Dispatched(e, n, r) ==
  [engine |-> [e EXCEPT !.held[n] = r.held],
   status |-> r.status, trades |-> r.trades, events |-> r.events, quotes |-> r.quotes,
   first |-> IF r.held.events = e.held[n].events THEN 0 ELSE e.held[n].events + 1]

(* dispatch *)
Dispatch(e, c) ==
  LET n == LookupIndex(e, c.instrument)
  IN IF n = 0
     THEN [engine |-> e, status |-> "UnknownInstrument", trades |-> <<>>,
           events |-> 0, quotes |-> 0, first |-> 0]
     ELSE Dispatched(e, n, Executed(c.instrument, e.held[n], c))

MarketDataSequence(e, i) == IF LookupIndex(e, i) = 0 THEN 0 ELSE Held(e, i).feed

(* The lifecycle of a resting order as it is stored beside its node.       *)
Stored(h, id) == <<id, h.book.order[id], h.initial[id], id \in h.partly>>

(* Mutant of Checksum: an order's lifecycle is forgotten. *)
ChecksumWithoutLifecycle(e) ==
  [i \in Range(e.ids) |->
     LET h == Held(e, i)
         orders(fifo) == [n \in DOMAIN fifo |-> <<fifo[n], h.book.order[fifo[n]]>>]
     IN [seq |-> h.book.seq, feed |-> h.feed, total |-> h.book.total,
         level |-> [s \in Side |-> [p \in Price |-> orders(h.book.level[s][p])]]]]

(* state_checksum, without collisions: by instrument, levels and counters, *)
(* not the number of the next event.                                       *)
Checksum(e) ==
  [i \in Range(e.ids) |->
     LET h == Held(e, i)
         orders(fifo) == [n \in DOMAIN fifo |-> Stored(h, fifo[n])]
     IN [seq |-> h.book.seq, feed |-> h.feed, total |-> h.book.total,
         level |-> [s \in Side |-> [p \in Price |-> orders(h.book.level[s][p])]]]]

(* What makes an engine's book one: see Book, and OrderBook's invariants.  *)
IsBook(i, h) ==
  LET b == h.book
  IN /\ BestIsCached(b) /\ IndexedAreQueued(b) /\ QueuedAreIndexed(b) /\ Uncrossed(b)
     /\ b.used = Cardinality(b.index) /\ b.used <= MaxOrders[i]
     /\ \A s \in Side, p \in Price :
          /\ b.total[s][p] = QuantityOf(b, b.level[s][p])
          /\ \A m, n \in DOMAIN b.level[s][p] :
               m < n => b.order[b.level[s][p][m]].seq <= b.order[b.level[s][p][n]].seq
     /\ \A id \in b.index :
          /\ b.order[id].qty \in 1..h.initial[id]
          /\ b.order[id].seq \in 1..b.seq
          /\ id \in h.partly => b.order[id].qty < h.initial[id]
     /\ \A id, other \in b.index :
          id # other /\ b.order[id].seq = b.order[other].seq
            => b.order[id].seq = MaxSequence

=============================================================================
