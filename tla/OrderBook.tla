----------------------------- MODULE OrderBook ------------------------------
(***************************************************************************)
(* One OrderBook (include/OrderBook.hpp) driven by a single caller.        *)
(*                                                                         *)
(* A command is validated, planned and reserved for in one step: that step *)
(* is the code up to and including start_operation and the OrderAccepted   *)
(* event. Each iteration of the matching loop is a step of its own, so the *)
(* book is examined between any two fills; the step after the loop settles *)
(* what is left of the aggressor. The calls are not re-entrant: between    *)
(* the first and the last step of a command no other command starts.       *)
(*                                                                         *)
(*   phase   "idle" -> "matching" -> "done" -> "idle"; commands that never *)
(*           reach the matching loop go from "idle" to "done"              *)
(*   op      the command being executed (the arguments of the call)        *)
(*   plan    the preflight result and the reserved capacities              *)
(*   run     the MatchResult so far and the events emitted                 *)
(*   status  the result's Status once phase is "done"                      *)
(*   feed    the market-data sequence, the events of this operation, and   *)
(*           the depth and best quotes a subscriber holds after applying   *)
(*           every event published so far                                  *)
(***************************************************************************)
EXTENDS Book

CONSTANTS
  Configs,            (* The BookConfig values a book is built with.       *)
  InvalidId,          (* kInvalidOrderId.                                  *)
  PriceInput,         (* Prices a caller may pass, off-grid ones included. *)
  QuantityInput,      (* Quantities a caller may pass.                     *)
  MaxMarketSequence   (* Largest market-data sequence number.              *)

ASSUME InputAssumption ==
  /\ InvalidId \notin OrderId
  /\ NoPrice \notin PriceInput
  /\ QuantityInput \subseteq 0..MaxQuantity
  /\ MaxMarketSequence \in Nat

Policy == {"Disabled", "CancelAggressor", "CancelResting", "CancelBoth"}

(* normalize_config never leaves the event log without room for one event, *)
(* and OrderIdMap::capacity_for never gives the index fewer than two slots. *)
ASSUME ConfigAssumption ==
  Configs \subseteq [maxOrders: Nat \ {0}, idCapacity: Nat \ {0, 1}, sparse: BOOLEAN,
                     policy: Policy, lot: Nat \ {0}, eventCapacity: Nat \ {0},
                     marketCapacity: Nat]

VARIABLES config, book, feed, phase, op, plan, run, status
vars == <<config, book, feed, phase, op, plan, run, status>>

TimeInForce == {"Gtc", "Ioc", "Fok"}
BadTimeInForce == "invalid"

NoOp == [kind |-> "none", id |-> InvalidId, side |-> "Buy", price |-> NoPrice,
         qty |-> 0, tif |-> "Gtc", postOnly |-> FALSE, owner |-> Anonymous]
NoRun == [remaining |-> 0, executed |-> 0, fills |-> 0, cancels |-> 0,
          stopped |-> FALSE, events |-> 0]
NoPlan == [executable |-> 0, fills |-> 0, cancels |-> 0, stopped |-> FALSE,
           idRoom |-> FALSE, events |-> 0, quotes |-> 0]

Init ==
  /\ config \in Configs
  /\ book = EmptyBook
  /\ feed = [seq |-> 0, count |-> 0,
             depth |-> [s \in Side |-> [p \in Price |-> [qty |-> 0, count |-> 0]]],
             best |-> [s \in Side |-> [price |-> NoPrice, qty |-> 0, count |-> 0]]]
  /\ phase = "idle"
  /\ op = NoOp /\ plan = NoPlan /\ run = NoRun
  /\ status = "none"

-----------------------------------------------------------------------------
(* Market data.                                                            *)

(* MarketDataLog::append of the event that turns feed f into g for a       *)
(* subscriber; a full span or an exhausted sequence drops the event.       *)
Posted(f, g) ==
  IF f.count = config.marketCapacity \/ f.seq = MaxMarketSequence
  THEN f
  ELSE [g EXCEPT !.seq = f.seq + 1, !.count = f.count + 1]

(* Mutant of Publish: best-quote events are forgotten. *)
PublishLevelOnly(f, b, c, s, p) == Posted(f, [f EXCEPT !.depth[s][p] = Depth(c, s, p)])

(* emit_market_data_level_change for the change of book b into c. *)
Publish(f, b, c, s, p) ==
  LET level == Posted(f, [f EXCEPT !.depth[s][p] = Depth(c, s, p)])
  IN IF Quote(b, s) = Quote(c, s)
     THEN level
     ELSE Posted(level, [level EXCEPT !.best[s] = Quote(c, s)])

CanPublish(n) ==
  \/ config.marketCapacity = 0 \/ n = 0
  \/ n <= config.marketCapacity /\ n <= MaxMarketSequence - feed.seq

(* start_operation: EventLogFull, MarketDataLogFull or Accepted. *)
Capacity(events, quotes) ==
  IF events > config.eventCapacity THEN "EventLogFull"
  ELSE IF ~CanPublish(quotes) THEN "MarketDataLogFull"
  ELSE "Accepted"

(* EventLog::append_order and append_trade, as a count of the span. *)
Emitted(r, n) == [r EXCEPT !.events = Min2(@ + n, config.eventCapacity)]

-----------------------------------------------------------------------------
(* Validation and planning.                                                *)

LotStatus(qty) ==
  IF qty = 0 THEN "InvalidQuantity"
  ELSE IF qty % config.lot # 0 THEN "LotSizeViolation"
  ELSE "Accepted"

TermsStatus(o) ==
  IF LotStatus(o.qty) # "Accepted" THEN LotStatus(o.qty)
  ELSE IF o.price \notin Price THEN "InvalidPrice"
  ELSE IF o.tif \notin TimeInForce THEN "Rejected"
  ELSE IF o.postOnly /\ o.tif # "Gtc" THEN "InvalidPostOnlyTimeInForce"
  ELSE "Accepted"

(* Whether part of command o is neither executed nor stopped. *)
Leftover(o, executable) == o.kind # "market" /\ executable < o.qty

(* The events of command o after preflight w: its announcement, its fills  *)
(* and cancellations, and one for what is left of it.                      *)
EventsNeeded(o, w, executable) ==
  LET announced == [add |-> 1, replace |-> 2, market |-> 0]
  IN announced[o.kind] + w.fills + w.cancels
       + (IF Leftover(o, executable) THEN 1 ELSE 0)

(* Mutant of QuotesNeeded: the residual's own level is forgotten. *)
QuotesWithoutResidual(o, w, executable) ==
  IF config.marketCapacity = 0 THEN 0
  ELSE 3 * w.fills + 2 * w.cancels + (IF o.kind = "replace" THEN 2 ELSE 0)

(* The market-data events: a trade, its level and perhaps the best quote   *)
(* for a fill; level and quote for any other change.                       *)
QuotesNeeded(o, w, executable) ==
  IF config.marketCapacity = 0 THEN 0
  ELSE 3 * w.fills + 2 * w.cancels
         + (IF o.kind = "replace" THEN 2 ELSE 0)
         + (IF Leftover(o, executable) /\ ~w.stopped THEN 2 ELSE 0)

(* Preflight of command o with the capacities it needs. (The code computes *)
(* no executable quantity for a market order without an STP policy, and    *)
(* reads it for no market order.)                                          *)
Plan(o) ==
  LET s == Opposite(o.side)
      w == Preflight(book, s, o.qty, o.price, o.owner, config.policy)
      executable == IF o.kind = "add" /\ config.policy = "Disabled"
                    THEN ExecutableQuantity(book, s, o.qty, o.price)
                    ELSE w.executable
  IN [executable |-> executable, fills |-> w.fills, cancels |-> w.cancels,
      stopped |-> w.stopped,
      idRoom |-> Cardinality(book.index) < config.idCapacity,
      events |-> EventsNeeded(o, w, executable),
      quotes |-> QuotesNeeded(o, w, executable)]

(* Mutant of WouldCross: post-only refuses only what would fill whole. *)
CouldFill(o) ==
  ExecutableQuantity(book, Opposite(o.side), o.qty, o.price) = o.qty

WouldCross(o) ==
  ExecutableQuantity(book, Opposite(o.side), o.qty, o.price) # 0

(* Mutant of FokFails: any executable quantity is enough. *)
FokFindsNothing(o, p) == o.tif = "Fok" /\ (p.executable = 0 \/ p.stopped)

FokFails(o, p) == o.tif = "Fok" /\ (p.executable < o.qty \/ p.stopped)

(* Mutant of HasResidual: only an order that trades nothing has to rest. *)
HasUntouchedResidual(o, p) == o.tif = "Gtc" /\ p.executable = 0 /\ ~p.stopped

(* The part of a GTC order that will have to rest. *)
HasResidual(o, p) == o.tif = "Gtc" /\ p.executable < o.qty /\ ~p.stopped

FullSide(s, p) ==
  /\ config.sparse
  /\ p \notin Occupied(book, s)
  /\ Cardinality(Occupied(book, s)) >= config.maxOrders

(* Mutant of LevelStatus: the level's total is not checked for overflow. *)
LevelStatusUnchecked(s, p, qty) ==
  IF FullSide(s, p) THEN "PoolExhausted" ELSE "Accepted"

(* can_accept_residual. *)
LevelStatus(s, p, qty) ==
  IF MaxQuantity - book.total[s][p] < qty THEN "PriceLevelQuantityOverflow"
  ELSE IF FullSide(s, p) THEN "PoolExhausted"
  ELSE "Accepted"

(* can_accept_replacement_residual: the replaced order's own quantity, and *)
(* its level if it is alone there, are given back first.                   *)
ReplacementStatus(id, p, qty) ==
  LET o == book.order[id]
      own == IF p = o.price THEN o.qty ELSE 0
      held == book.total[o.side][p]
  IN IF own > held THEN "InternalError"
     ELSE IF MaxQuantity - (held - own) < qty THEN "PriceLevelQuantityOverflow"
     ELSE IF FullSide(o.side, p) /\ Len(book.level[o.side][o.price]) # 1
       THEN "PoolExhausted"
     ELSE "Accepted"

(* Why add_limit_order refuses o, with preflight p. *)
AddStatus(o, p) ==
  IF o.id = InvalidId THEN "InvalidOrderId"
  ELSE IF TermsStatus(o) # "Accepted" THEN TermsStatus(o)
  ELSE IF o.id \in book.index THEN "DuplicateOrderId"
  ELSE IF o.postOnly /\ WouldCross(o) THEN "PostOnlyWouldCross"
  ELSE IF FokFails(o, p) THEN "FokRejected"
  ELSE IF ~HasResidual(o, p) THEN "Accepted"
  ELSE IF LevelStatus(o.side, o.price, o.qty - p.executable) # "Accepted"
    THEN LevelStatus(o.side, o.price, o.qty - p.executable)
  ELSE IF book.used = config.maxOrders THEN "PoolExhausted"
  ELSE IF ~p.idRoom THEN "OrderIdMapFull"
  ELSE "Accepted"

(* A replacement that keeps its place in the queue. *)
KeepsPriority(o) ==
  o.price = book.order[o.id].price /\ o.qty <= book.order[o.id].qty

(* Why replace_order refuses the re-entering replacement o. *)
ReentryStatus(o, p) ==
  IF o.postOnly /\ WouldCross(o) THEN "PostOnlyWouldCross"
  ELSE IF FokFails(o, p) THEN "FokRejected"
  ELSE IF HasResidual(o, p) THEN ReplacementStatus(o.id, o.price, o.qty - p.executable)
  ELSE "Accepted"

-----------------------------------------------------------------------------
(* Commands.                                                               *)

(* The command ends at once with status st after emitting n events. *)
Answer(st, n) ==
  /\ phase' = "done"
  /\ status' = st
  /\ run' = Emitted(NoRun, n)
  /\ UNCHANGED <<op, plan>>

(* One event carries the status; nothing else changes. *)
Report(st) == Answer(st, 1) /\ UNCHANGED <<book, feed>>

(* A log has no room: no event, nothing changes. *)
Refuse(st) == Answer(st, 0) /\ UNCHANGED <<book, feed>>

(* The command passes preflight and reservation and enters the loop. *)
Enter(o, p, n) ==
  /\ phase' = "matching"
  /\ op' = o
  /\ plan' = p
  /\ run' = Emitted([NoRun EXCEPT !.remaining = o.qty], n)
  /\ UNCHANGED status

AddLimitOrder(id, s, price, qty, tif, postOnly, owner) ==
  LET o == [kind |-> "add", id |-> id, side |-> s, price |-> price, qty |-> qty,
            tif |-> tif, postOnly |-> postOnly, owner |-> owner]
      p == Plan(o)
      st == AddStatus(o, p)
      room == Capacity(p.events, p.quotes)
  IN /\ phase = "idle"
     /\ UNCHANGED config
     /\ \/ st # "Accepted" /\ Report(st)
        \/ st = "Accepted" /\ room # "Accepted" /\ Refuse(room)
        \/ /\ st = "Accepted" /\ room = "Accepted"
           /\ Enter(o, p, 1)
           /\ UNCHANGED <<book, feed>>

MatchMarketOrder(s, qty, owner) ==
  LET o == [NoOp EXCEPT !.kind = "market", !.side = s, !.qty = qty, !.owner = owner]
      p == Plan(o)
      room == Capacity(p.events, p.quotes)
  IN /\ phase = "idle"
     /\ UNCHANGED config
     /\ \/ LotStatus(qty) # "Accepted" /\ Report(LotStatus(qty))
        \/ LotStatus(qty) = "Accepted" /\ room # "Accepted" /\ Refuse(room)
        \/ /\ LotStatus(qty) = "Accepted" /\ room = "Accepted"
           /\ Enter(o, p, 0)
           /\ UNCHANGED <<book, feed>>

LevelQuotes == IF config.marketCapacity = 0 THEN 0 ELSE 2

(* A one-level change of the book into b, announced by one event. *)
Apply(st, b, s, p) ==
  /\ book' = b
  /\ feed' = Publish(feed, book, b, s, p)
  /\ Answer(st, 1)

CancelOrder(id) ==
  LET o == book.order[id]
      room == Capacity(1, LevelQuotes)
  IN /\ phase = "idle"
     /\ UNCHANGED config
     /\ \/ id \notin book.index /\ Report("UnknownOrderId")
        \/ id \in book.index /\ room # "Accepted" /\ Refuse(room)
        \/ id \in book.index /\ room = "Accepted" /\ ~Removable(book, id)
           /\ Report("InternalError")
        \/ id \in book.index /\ room = "Accepted" /\ Removable(book, id)
           /\ Apply("Cancelled", Removed(book, id), o.side, o.price)

(* reduce_order with its refusal of a level smaller than the reduction. *)
Reduce(id, qty) ==
  LET o == book.order[id]
  IN IF o.qty - qty > book.total[o.side][o.price]
     THEN Report("InternalError")
     ELSE Apply("Accepted", Reduced(book, id, qty), o.side, o.price)

ModifyOrder(id, qty) ==
  LET old == book.order[id].qty
      room == Capacity(1, IF qty < old THEN LevelQuotes ELSE 0)
  IN /\ phase = "idle"
     /\ UNCHANGED config
     /\ \/ LotStatus(qty) # "Accepted" /\ Report(LotStatus(qty))
        \/ /\ LotStatus(qty) = "Accepted"
           /\ id \notin book.index
           /\ Report("UnknownOrderId")
        \/ /\ LotStatus(qty) = "Accepted"
           /\ id \in book.index
           /\ \/ room # "Accepted" /\ Refuse(room)
              \/ room = "Accepted" /\ qty = old /\ Report("Accepted")
              \/ room = "Accepted" /\ qty > old /\ Report("QuantityIncreaseRejected")
              \/ room = "Accepted" /\ qty < old /\ Reduce(id, qty)

(* The replaced order leaves its level and the id index but keeps its pool *)
(* slot; OrderCancelled and OrderAccepted are emitted.                     *)
LeaveForReentry(o, p) ==
  LET old == book.order[o.id]
      b == Unindexed(Unlinked(book, o.id), o.id)
  IN IF Removable(book, o.id)
     THEN /\ book' = b
          /\ feed' = Publish(feed, book, b, old.side, old.price)
          /\ Enter(o, p, 2)
     ELSE Report("InternalError")

ReplaceOrder(id, price, qty, tif, postOnly) ==
  LET old == book.order[id]
      o == [kind |-> "replace", id |-> id, side |-> old.side, price |-> price,
            qty |-> qty, tif |-> tif, postOnly |-> postOnly, owner |-> old.owner]
      p == Plan(o)
      st == ReentryStatus(o, p)
      inPlaceRoom == Capacity(1, IF qty = old.qty THEN 0 ELSE LevelQuotes)
      room == Capacity(p.events, p.quotes)
      valid == id \in book.index /\ TermsStatus(o) = "Accepted"
  IN /\ phase = "idle"
     /\ UNCHANGED config
     /\ \/ id \notin book.index /\ Report("UnknownOrderId")
        \/ id \in book.index /\ TermsStatus(o) # "Accepted" /\ Report(TermsStatus(o))
        \/ /\ valid /\ KeepsPriority(o)
           /\ \/ inPlaceRoom # "Accepted" /\ Refuse(inPlaceRoom)
              \/ inPlaceRoom = "Accepted" /\ qty = old.qty /\ Report("Accepted")
              \/ inPlaceRoom = "Accepted" /\ qty < old.qty /\ Reduce(id, qty)
        \/ /\ valid /\ ~KeepsPriority(o)
           /\ \/ st # "Accepted" /\ Report(st)
              \/ st = "Accepted" /\ room # "Accepted" /\ Refuse(room)
              \/ st = "Accepted" /\ room = "Accepted" /\ LeaveForReentry(o, p)

-----------------------------------------------------------------------------
(* The matching loop.                                                      *)

Contra == Opposite(op.side)

(* The loop condition: the best contra level is still within the limit. *)
CanMatch ==
  /\ phase = "matching"
  /\ run.remaining > 0
  /\ ~run.stopped
  /\ book.best[Contra] # NoPrice
  /\ Crosses(Contra, book.best[Contra], op.price)

FrontOrder == Head(book.level[Contra][book.best[Contra]])
FrontIsOwn == SelfTrade(config.policy, book.order[FrontOrder].owner, op.owner)

(* The matcher gives up; a replaced order loses its pool slot as well. *)
Abort ==
  /\ phase' = "done"
  /\ status' = "InternalError"
  /\ book' = IF op.kind = "replace" THEN Released(book, op.id) ELSE book
  /\ UNCHANGED <<config, feed, op, plan, run>>

Trade ==
  LET x == Min2(run.remaining, book.order[FrontOrder].qty)
  IN /\ CanMatch
     /\ ~FrontIsOwn
     /\ \/ x = 0 /\ Abort
        \/ /\ x > 0
           /\ book' = FilledFront(book, Contra, x)
           /\ feed' = Publish(Posted(feed, feed), book, book', Contra, book.best[Contra])
           /\ run' = Emitted([run EXCEPT !.remaining = @ - x, !.executed = @ + x,
                                         !.fills = @ + 1], 1)
           /\ UNCHANGED <<config, phase, op, plan, status>>

(* Mutant of CancelOwnResting: the loop goes on without removing the order. *)
SkipOwnResting ==
  /\ CanMatch
  /\ FrontIsOwn
  /\ config.policy # "CancelAggressor"
  /\ run' = [run EXCEPT !.stopped = config.policy = "CancelBoth"]
  /\ UNCHANGED <<config, book, feed, phase, op, plan, status>>

CancelOwnResting ==
  /\ CanMatch
  /\ FrontIsOwn
  /\ config.policy # "CancelAggressor"
  /\ \/ ~Removable(book, FrontOrder) /\ Abort
     \/ /\ Removable(book, FrontOrder)
        /\ book' = Removed(book, FrontOrder)
        /\ feed' = Publish(feed, book, book', Contra, book.best[Contra])
        /\ run' = Emitted([run EXCEPT !.cancels = @ + 1,
                                      !.stopped = config.policy = "CancelBoth"], 1)
        /\ UNCHANGED <<config, phase, op, plan, status>>

StopAggressor ==
  /\ CanMatch
  /\ FrontIsOwn
  /\ config.policy = "CancelAggressor"
  /\ run' = [run EXCEPT !.stopped = TRUE]
  /\ UNCHANGED <<config, book, feed, phase, op, plan, status>>

-----------------------------------------------------------------------------
(* After the loop.                                                         *)

Rests ==
  /\ op.kind # "market"
  /\ run.remaining > 0
  /\ ~run.stopped
  /\ op.tif # "Ioc"

(* Nothing rests: the aggressor is filled, or its remainder is cancelled   *)
(* with one event (none for a market order).                               *)
Complete ==
  /\ phase = "matching" /\ ~CanMatch
  /\ ~Rests
  /\ phase' = "done"
  /\ status' = IF run.executed = 0
               THEN IF run.stopped THEN "SelfTradePrevented" ELSE "NoLiquidity"
               ELSE IF run.remaining = 0 THEN "Filled" ELSE "PartiallyFilled"
  /\ run' = IF op.kind # "market" /\ run.remaining > 0 THEN Emitted(run, 1) ELSE run
  /\ book' = IF op.kind = "replace" THEN Released(book, op.id) ELSE book
  /\ UNCHANGED <<config, feed, op, plan>>

(* What could still stop the residual from resting. A new order needs its  *)
(* id slot and a pool slot; a replacement brings its own.                  *)
RestStatus ==
  IF op.kind = "add" /\ ~plan.idRoom THEN "OrderIdMapFull"
  ELSE IF op.kind = "add" /\ book.used = config.maxOrders THEN "PoolExhausted"
  ELSE IF LevelStatus(op.side, op.price, run.remaining) # "Accepted"
    THEN LevelStatus(op.side, op.price, run.remaining)
  ELSE IF Cardinality(book.index) = config.idCapacity THEN "OrderIdMapFull"
  ELSE "Accepted"

(* reset has drawn a FIFO sequence before the storage refuses. *)
SequenceDrawn == op.kind = "replace" \/ (plan.idRoom /\ book.used < config.maxOrders)

RestResidual ==
  LET taken == IF op.kind = "add" THEN [book EXCEPT !.used = @ + 1] ELSE book
      b == Rested(taken, op.id, op.side, op.price, run.remaining, op.owner)
      lost == IF op.kind = "replace" THEN Released(book, op.id) ELSE book
  IN /\ phase = "matching" /\ ~CanMatch
     /\ Rests
     /\ phase' = "done"
     /\ UNCHANGED <<config, op, plan>>
     /\ \/ /\ RestStatus = "Accepted"
           /\ book' = b
           /\ feed' = Publish(feed, book, b, op.side, op.price)
           /\ status' = IF run.executed = 0 THEN "Accepted" ELSE "PartiallyFilled"
           /\ run' = Emitted(run, 1)
        \/ /\ RestStatus # "Accepted"
           /\ book' = IF SequenceDrawn
                      THEN [lost EXCEPT !.seq = NextSequence(book)] ELSE lost
           /\ status' = RestStatus
           /\ UNCHANGED <<feed, run>>

(* The caller has read the result; the next operation's begin_operation    *)
(* clears the event and market-data spans.                                 *)
Return ==
  /\ phase = "done"
  /\ phase' = "idle"
  /\ status' = "none"
  /\ op' = NoOp /\ plan' = NoPlan /\ run' = NoRun
  /\ feed' = [feed EXCEPT !.count = 0]
  /\ UNCHANGED <<config, book>>

-----------------------------------------------------------------------------

Command ==
  \/ \E id \in OrderId \cup {InvalidId}, s \in Side, price \in PriceInput,
       qty \in QuantityInput, tif \in TimeInForce \cup {BadTimeInForce},
       postOnly \in BOOLEAN, owner \in Participant :
       AddLimitOrder(id, s, price, qty, tif, postOnly, owner)
  \/ \E s \in Side, qty \in QuantityInput, owner \in Participant :
       MatchMarketOrder(s, qty, owner)
  \/ \E id \in OrderId : CancelOrder(id)
  \/ \E id \in OrderId, qty \in QuantityInput : ModifyOrder(id, qty)
  \/ \E id \in OrderId, price \in PriceInput, qty \in QuantityInput,
       tif \in TimeInForce \cup {BadTimeInForce}, postOnly \in BOOLEAN :
       ReplaceOrder(id, price, qty, tif, postOnly)

(* The rest of a command once it has entered the matching loop. *)
Execute ==
  \/ Trade
  \/ CancelOwnResting
  \/ StopAggressor
  \/ Complete
  \/ RestResidual

Next == Command \/ Execute \/ Return

Spec == Init /\ [][Next]_vars

(* A call runs to completion on its caller's thread. *)
FairSpec == Spec /\ WF_vars(Execute)

-----------------------------------------------------------------------------
(* Invariants.                                                             *)

RunType ==
  [remaining: 0..MaxQuantity, executed: Nat, fills: Nat, cancels: Nat,
   stopped: BOOLEAN, events: Nat]

OpType ==
  [kind: {"none", "add", "replace", "market"}, id: OrderId \cup {InvalidId},
   side: Side, price: Price \cup {NoPrice}, qty: 0..MaxQuantity,
   tif: TimeInForce, postOnly: BOOLEAN, owner: Participant]

FeedType ==
  [seq: 0..MaxMarketSequence, count: Nat,
   depth: [Side -> [Price -> [qty: 0..MaxQuantity, count: Nat]]],
   best: [Side -> [price: Price \cup {NoPrice}, qty: 0..MaxQuantity, count: Nat]]]

(* Every variable has its type and the book respects its fixed capacities: *)
(* level totals stay within the Quantity width, ids in range. plan is left *)
(* out; PlanIsExact says all that matters of it.                           *)
TypeOK ==
  /\ config \in Configs
  /\ book \in BookType
  /\ feed \in FeedType
  /\ phase \in {"idle", "matching", "done"}
  /\ op \in OpType
  /\ run \in RunType

(* The cached best price of a side is its best occupied price, after any   *)
(* mixture of adds, cancels, fills and removals (set_occupied,             *)
(* clear_occupied, refresh_best_slot).                                     *)
BestIsBest == BestIsCached(book)

(* No resting bid is at or above a resting ask, not even between two fills *)
(* of one operation.                                                       *)
NotCrossed == Uncrossed(book)

(* Every indexed order rests in exactly one place, the one its node names, *)
(* and nothing else is queued anywhere.                                    *)
IndexIsExact == IndexedAreQueued(book) /\ QueuedAreIndexed(book)

(* A command in the matching loop that may rest is not in the book, and    *)
(* names an order and a price that could be.                               *)
OpIsPlaceable ==
  phase = "matching" =>
    /\ op.kind # "none"
    /\ op.kind # "market" => /\ op.id \in OrderId
                             /\ op.price \in Price
                             /\ op.id \notin book.index

(* Replacing an order takes it out of the index while its slot stays used. *)
Relisting == phase = "matching" /\ op.kind = "replace"

(* Pool slots in use are the indexed orders, and the one order that is     *)
(* being replaced: no path leaks or double-frees a slot.                   *)
PoolIsExact ==
  /\ book.used = Cardinality(book.index) + (IF Relisting THEN 1 ELSE 0)
  /\ book.used <= config.maxOrders
  /\ Cardinality(book.index) <= config.idCapacity

(* The aggregate kept in a level is the sum of its orders, which all have  *)
(* quantity left and whole lots: no path subtracts twice or wraps.         *)
AggregatesAreExact ==
  \A s \in Side, p \in Price :
    LET fifo == book.level[s][p]
    IN /\ book.total[s][p] = QuantityOf(book, fifo)
       /\ \A i \in DOMAIN fifo :
            LotStatus(book.order[fifo[i]].qty) = "Accepted"

(* Within a level the queue is in strictly increasing sequence order until *)
(* the counter saturates; a re-entered replacement goes to the back.       *)
FifoBySequence ==
  \A s \in Side, p \in Price :
    \A i, j \in DOMAIN book.level[s][p] :
      i < j => LET a == book.order[book.level[s][p][i]].seq
                   b == book.order[book.level[s][p][j]].seq
               IN a < b \/ (a = MaxSequence /\ b = MaxSequence)

Planned == phase = "done" /\ op.kind # "none"

(* What match did is what preflight said it would do: FOK, post-only and   *)
(* every capacity decision rest on that prediction.                        *)
PlanIsExact ==
  Planned =>
    /\ run.executed = plan.executable
    /\ run.fills = plan.fills
    /\ run.cancels = plan.cancels
    /\ run.stopped = plan.stopped

(* The capacity reserved before the first change is never exceeded and,    *)
(* for events, never left unused: no event is dropped or wrapped over.     *)
ReservationIsKept ==
  /\ phase = "matching" => run.events <= plan.events /\ feed.count <= plan.quotes
  /\ Planned => run.events = plan.events /\ feed.count <= plan.quotes

(* An operation that got past its preflight never fails for want of        *)
(* storage: its residual rests, and a replaced order is not lost.          *)
ResidualIsStored ==
  Planned =>
    /\ status \notin {"PoolExhausted", "OrderIdMapFull",
                      "PriceLevelQuantityOverflow", "InternalError"}
    /\ op.tif = "Gtc" /\ op.kind # "market" /\ run.remaining > 0 /\ ~run.stopped
         => op.id \in book.index /\ book.order[op.id].qty = run.remaining

(* Fill-or-kill: an accepted FOK is filled completely, and no status is    *)
(* InternalError.                                                          *)
FillOrKill ==
  /\ status # "InternalError"
  /\ Planned /\ op.tif = "Fok" => run.remaining = 0

(* Post-only orders take no liquidity and cancel nobody, under any STP     *)
(* policy.                                                                 *)
PostOnlyIsPassive ==
  Planned /\ op.postOnly => run.fills = 0 /\ run.cancels = 0 /\ ~run.stopped

(* The statuses MatchingEngine counts as a rejected command, of those a    *)
(* book answers with (reject_status).                                      *)
Rejected ==
  {"Rejected", "InvalidOrderId", "UnknownOrderId", "InvalidQuantity", "InvalidPrice",
   "DuplicateOrderId", "PoolExhausted", "OrderIdMapFull", "QuantityIncreaseRejected",
   "InternalError", "FokRejected", "EventLogFull", "LotSizeViolation",
   "PostOnlyWouldCross", "InvalidPostOnlyTimeInForce", "SelfTradePrevented",
   "MarketDataLogFull", "PriceLevelQuantityOverflow"}

(* A rejected command emits no market data (include/Types.hpp, on          *)
(* MarketDataEvent). An aggressor stopped by CancelBoth before any trade   *)
(* is one of those the engine counts as rejected.                          *)
RejectionsAreSilent == phase = "done" /\ status \in Rejected => feed.count = 0

(* A subscriber that applies every published event holds the book's depth, *)
(* order counts and best quotes after every step.                          *)
FeedMirrorsBook ==
  config.marketCapacity # 0 =>
    \A s \in Side :
      /\ feed.best[s] = Quote(book, s)
      /\ \A p \in Price : feed.depth[s][p] = Depth(book, s, p)

-----------------------------------------------------------------------------
(* Action and liveness properties.                                         *)

Precedes(a, b) ==
  \/ Better(a.side, a.price, b.price)
  \/ a.price = b.price /\ a.seq < b.seq

(* A fill takes quantity only from the order that has price-time priority  *)
(* over every other order on its side.                                     *)
FillsRespectPriority ==
  [][run'.fills > run.fills =>
       \A id \in book.index :
         book'.order[id].qty < book.order[id].qty =>
           \A other \in book.index \ {id} :
             book.order[other].side = book.order[id].side =>
               ~Precedes(book.order[other], book.order[id])]_vars

(* Every command that enters the matching loop comes to an end.            *)
CommandsEnd == phase = "matching" ~> phase = "done"

=============================================================================
