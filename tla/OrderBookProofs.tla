-------------------------- MODULE OrderBookProofs ---------------------------
(***************************************************************************)
(* The safety of OrderBook for every value of its constants: any number of *)
(* ids and prices, any widths, any set of configurations. What a step does *)
(* to the book itself is proved in BookProofs; here every action is shown  *)
(* to keep Inv, from which the theorems follow; then the totals and the    *)
(* lots are shown to be exact, and the queues to be in order of arrival.   *)
(***************************************************************************)
EXTENDS OrderBook, BookProofs

(* The inductive invariant. NotCrossed needs the cached best price to be   *)
(* right, that needs the queues and the index to agree, a fill or cancel   *)
(* keeps these only if the slot it releases is counted, and a residual can *)
(* rest only if its order is nowhere in the book.                          *)
Inv ==
  /\ TypeOK
  /\ BestIsBest
  /\ IndexIsExact
  /\ NotCrossed
  /\ PoolIsExact
  /\ OpIsPlaceable
  /\ IsFiniteSet(book.index)

-----------------------------------------------------------------------------
(* Types of what the actions compute.                                      *)

QuoteType == [price: Price \cup {NoPrice}, qty: 0..MaxQuantity, count: Nat]
DepthType == [qty: 0..MaxQuantity, count: Nat]

(* Best quotes and level depths are in range.                              *)
LEMMA QuoteTyped ==
  ASSUME NEW b, Sound(b), NEW s \in Side
  PROVE  /\ Quote(b, s) \in QuoteType
         /\ \A p \in Price : Depth(b, s, p) \in DepthType
<1>1. /\ \A p \in Price : b.level[s][p] \in Seq(OrderId) /\ b.total[s][p] \in 0..MaxQuantity
      /\ b.best[s] \in Price \cup {NoPrice}
  BY DEF Sound, BookType
<1>2. \A p \in Price : Len(b.level[s][p]) \in Nat
  BY <1>1, LenProperties
<1> QED
  BY <1>1, <1>2, WidthAssumption DEF Quote, Depth, QuoteType, DepthType

(* Appending a market-data event keeps its sequence in range.              *)
LEMMA PostedTyped ==
  ASSUME NEW f \in FeedType, NEW g \in FeedType
  PROVE  Posted(f, g) \in FeedType
<1>1. /\ f.seq \in 0..MaxMarketSequence /\ f.count \in Nat
      /\ MaxMarketSequence \in Nat
  BY InputAssumption DEF FeedType
<1>2. CASE f.count = config.marketCapacity \/ f.seq = MaxMarketSequence
  BY <1>2 DEF Posted
<1>3. CASE ~(f.count = config.marketCapacity \/ f.seq = MaxMarketSequence)
  <2>1. f.seq + 1 \in 0..MaxMarketSequence /\ f.count + 1 \in Nat
    BY <1>1, <1>3
  <2>2. Posted(f, g) = [g EXCEPT !.seq = f.seq + 1, !.count = f.count + 1]
    BY <1>3 DEF Posted
  <2> QED
    BY <2>1, <2>2 DEF FeedType
<1> QED
  BY <1>2, <1>3

(* The events of one level change keep the feed in range.                  *)
LEMMA PublishTyped ==
  ASSUME NEW f \in FeedType, NEW b, NEW c, Sound(c), NEW s \in Side, NEW p \in Price
  PROVE  Publish(f, b, c, s, p) \in FeedType
<1> DEFINE g == [f EXCEPT !.depth[s][p] = Depth(c, s, p)]
           level == Posted(f, g)
           h == [level EXCEPT !.best[s] = Quote(c, s)]
<1>1. Quote(c, s) \in QuoteType /\ Depth(c, s, p) \in DepthType
  BY QuoteTyped
<1>2. g \in FeedType
  BY <1>1 DEF FeedType, DepthType
<1> HIDE DEF g
<1>3. level \in FeedType
  BY <1>2, PostedTyped
<1> HIDE DEF level
<1>4. h \in FeedType
  BY <1>1, <1>3 DEF FeedType, QuoteType
<1>5. Publish(f, b, c, s, p) = IF Quote(b, s) = Quote(c, s) THEN level ELSE Posted(level, h)
  BY DEF Publish, level, g
<1> HIDE DEF h
<1> QED
  BY <1>3, <1>4, <1>5, PostedTyped

(* Counting an event keeps the result typed.                               *)
LEMMA EmittedTyped ==
  ASSUME config \in Configs, NEW r \in RunType, NEW n \in Nat
  PROVE  Emitted(r, n) \in RunType
<1>1. config.eventCapacity \in Nat
  BY ConfigAssumption
<1>2. Min2(r.events + n, config.eventCapacity) \in Nat
  BY <1>1 DEF RunType, Min2
<1> QED
  BY <1>2 DEF Emitted, RunType

(* An empty result is a result.                                            *)
LEMMA NoRunTyped == NoRun \in RunType
  BY WidthAssumption DEF NoRun, RunType

(* The operation of an idle book is an operation.                          *)
LEMMA NoOpTyped == NoOp \in OpType
  BY WidthAssumption, ParticipantAssumption DEF NoOp, OpType, Side, TimeInForce

-----------------------------------------------------------------------------
(* What Inv says in the terms of BookProofs, and how it is re-established. *)

(* The facts Inv holds, in the terms the lemmas on books use.              *)
LEMMA InvFacts ==
  ASSUME Inv
  PROVE  /\ Kept(book) /\ Sound(book)
         /\ book.used \in Nat /\ Cardinality(book.index) \in Nat
         /\ book.used >= Cardinality(book.index)
         /\ config \in Configs /\ feed \in FeedType /\ op \in OpType /\ run \in RunType
         /\ book.used = Cardinality(book.index) + (IF Relisting THEN 1 ELSE 0)
         /\ book.used <= config.maxOrders
         /\ Cardinality(book.index) <= config.idCapacity
         /\ config.maxOrders \in Nat /\ config.idCapacity \in Nat
<1>1. Kept(book) /\ Sound(book)
  BY DEF Inv, TypeOK, BestIsBest, IndexIsExact, NotCrossed, Kept, Sound
<1>2. book.used \in Nat
  BY DEF Inv, TypeOK, BookType
<1>3. Cardinality(book.index) \in Nat
  BY FS_CardinalityType DEF Inv
<1>4. /\ config \in Configs /\ feed \in FeedType /\ op \in OpType /\ run \in RunType
      /\ book.used = Cardinality(book.index) + (IF Relisting THEN 1 ELSE 0)
      /\ book.used <= config.maxOrders
      /\ Cardinality(book.index) <= config.idCapacity
  BY DEF Inv, TypeOK, PoolIsExact
<1>5. book.used >= Cardinality(book.index)
  BY <1>2, <1>3, <1>4
<1>6. config.maxOrders \in Nat /\ config.idCapacity \in Nat
  BY <1>4, ConfigAssumption
<1> QED
  BY <1>1, <1>2, <1>3, <1>4, <1>5, <1>6

(* The parts that together give Inv in the next state.                     *)
LEMMA InvFrom ==
  ASSUME config' \in Configs, Kept(book'), feed' \in FeedType,
         phase' \in {"idle", "matching", "done"}, op' \in OpType, run' \in RunType,
         PoolIsExact', OpIsPlaceable'
  PROVE  Inv'
  BY DEF Inv, TypeOK, BestIsBest, IndexIsExact, NotCrossed, Kept, Sound

(* A command that ends in its first step.                                  *)
Ended ==
  /\ phase' = "done" /\ UNCHANGED <<config, op>>
  /\ run' \in RunType /\ feed' \in FeedType
  /\ Kept(book') /\ Shrinks(book, book')

(* A command that ends in its first step keeps Inv if the book loses as    *)
(* many slots as orders.                                                   *)
LEMMA EndedKeepsInv ==
  ASSUME Inv, phase = "idle", Ended
  PROVE  Inv'
<1>1. /\ config' \in Configs /\ op' \in OpType
      /\ book.used = Cardinality(book.index)
      /\ book.used \in Nat /\ Cardinality(book.index) \in Nat
      /\ book.used <= config.maxOrders
      /\ Cardinality(book.index) <= config.idCapacity
      /\ config.maxOrders \in Nat /\ config.idCapacity \in Nat
  BY InvFacts DEF Ended, Relisting
<1>2. book'.used \in Nat /\ Cardinality(book'.index) \in Nat
  BY FS_CardinalityType DEF Ended, Kept, Sound, BookType
<1>3. PoolIsExact'
  BY <1>1, <1>2 DEF Ended, Shrinks, PoolIsExact, Relisting
<1>4. OpIsPlaceable'
  BY DEF Ended, OpIsPlaceable
<1> QED
  BY <1>1, <1>3, <1>4, InvFrom DEF Ended

(* The result of a command that ends at once is a result.                  *)
LEMMA AnswerTyped ==
  ASSUME Inv
  PROVE  Emitted(NoRun, 0) \in RunType /\ Emitted(NoRun, 1) \in RunType
  BY InvFacts, NoRunTyped, EmittedTyped

(* The refusals: nothing but the result changes.                           *)
LEMMA RefusalKeepsInv ==
  ASSUME Inv, phase = "idle", UNCHANGED <<config, book, feed, op>>, phase' = "done",
         run' = Emitted(NoRun, 0) \/ run' = Emitted(NoRun, 1)
  PROVE  Inv'
<1>1. run' \in RunType
  BY AnswerTyped
<1>2. Shrinks(book, book')
  BY InvFacts DEF Shrinks
<1> QED
  BY <1>1, <1>2, InvFacts, EndedKeepsInv DEF Ended

(* A one-level change of the book that leaves no more orders than before.  *)
LEMMA ApplyKeepsInv ==
  ASSUME Inv, phase = "idle", UNCHANGED <<config, op>>, phase' = "done",
         run' = Emitted(NoRun, 1), Kept(book'), Shrinks(book, book'),
         NEW s \in Side, NEW p \in Price,
         feed' = Publish(feed, book, book', s, p)
  PROVE  Inv'
<1>1. run' \in RunType
  BY AnswerTyped
<1>2. feed' \in FeedType
  BY InvFacts, PublishTyped DEF Kept
<1> QED
  BY <1>1, <1>2, EndedKeepsInv DEF Ended

-----------------------------------------------------------------------------
(* The commands.                                                           *)

(* cancel_order keeps Inv.                                                 *)
LEMMA CancelKeepsInv ==
  ASSUME Inv, NEW id \in OrderId, CancelOrder(id)
  PROVE  Inv'
<1> DEFINE s == book.order[id].side
           p == book.order[id].price
<1>1. phase = "idle" /\ UNCHANGED config
  BY DEF CancelOrder
<1>2. \/ /\ UNCHANGED <<book, feed, op>> /\ phase' = "done"
         /\ run' = Emitted(NoRun, 0) \/ run' = Emitted(NoRun, 1)
      \/ /\ id \in book.index /\ Removable(book, id)
         /\ book' = Removed(book, id)
         /\ feed' = Publish(feed, book, book', s, p)
         /\ phase' = "done" /\ op' = op /\ run' = Emitted(NoRun, 1)
  BY DEF CancelOrder, Report, Refuse, Answer, Apply
<1>3. CASE /\ UNCHANGED <<book, feed, op>> /\ phase' = "done"
           /\ run' = Emitted(NoRun, 0) \/ run' = Emitted(NoRun, 1)
  BY <1>1, <1>3, RefusalKeepsInv
<1>4. CASE /\ id \in book.index /\ Removable(book, id)
           /\ book' = Removed(book, id)
           /\ feed' = Publish(feed, book, book', s, p)
           /\ phase' = "done" /\ op' = op /\ run' = Emitted(NoRun, 1)
  <2>1. s \in Side /\ p \in Price
    BY <1>4, InvFacts, OrderPlace
  <2>2. Kept(book') /\ Shrinks(book, book')
    BY <1>4, InvFacts, RemovedKept
  <2> HIDE DEF s, p
  <2> QED
    BY <2>1, <2>2, <1>1, <1>4, ApplyKeepsInv
<1> QED
  BY <1>2, <1>3, <1>4

(* The reduction shared by modify_order and in-place replacement keeps     *)
(* Inv.                                                                    *)
LEMMA ReduceKeepsInv ==
  ASSUME Inv, phase = "idle", UNCHANGED config, NEW id \in book.index,
         NEW qty \in 0..MaxQuantity, qty < book.order[id].qty, Reduce(id, qty)
  PROVE  Inv'
<1> DEFINE s == book.order[id].side
           p == book.order[id].price
<1>1. CASE book.order[id].qty - qty > book.total[s][p]
  <2>1. /\ UNCHANGED <<book, feed, op>> /\ phase' = "done"
        /\ run' = Emitted(NoRun, 1)
    BY <1>1 DEF Reduce, Report, Answer
  <2> QED
    BY <2>1, RefusalKeepsInv
<1>2. CASE ~(book.order[id].qty - qty > book.total[s][p])
  <2>1. /\ book' = Reduced(book, id, qty)
        /\ feed' = Publish(feed, book, book', s, p)
        /\ phase' = "done" /\ op' = op /\ run' = Emitted(NoRun, 1)
    BY <1>2 DEF Reduce, Apply, Answer
  <2>2. /\ s \in Side /\ p \in Price
        /\ book.order[id].qty \in 0..MaxQuantity
        /\ book.total[s][p] \in 0..MaxQuantity
    BY InvFacts, OrderPlace DEF Order
  <2>3. /\ qty <= book.order[id].qty
        /\ book.order[id].qty - qty <= book.total[s][p]
    BY <2>2, <1>2, WidthAssumption
  <2>4. Kept(book') /\ Shrinks(book, book')
    BY <2>1, <2>3, InvFacts, ReducedKept
  <2> HIDE DEF s, p
  <2> QED
    BY <2>1, <2>2, <2>4, ApplyKeepsInv
<1> QED
  BY <1>1, <1>2

(* modify_order keeps Inv.                                                 *)
LEMMA ModifyKeepsInv ==
  ASSUME Inv, NEW id \in OrderId, NEW qty \in QuantityInput, ModifyOrder(id, qty)
  PROVE  Inv'
<1>1. phase = "idle" /\ UNCHANGED config /\ qty \in 0..MaxQuantity
  BY InputAssumption DEF ModifyOrder
<1>2. \/ /\ UNCHANGED <<book, feed, op>> /\ phase' = "done"
         /\ run' = Emitted(NoRun, 0) \/ run' = Emitted(NoRun, 1)
      \/ id \in book.index /\ qty < book.order[id].qty /\ Reduce(id, qty)
  BY DEF ModifyOrder, Report, Refuse, Answer
<1> QED
  BY <1>1, <1>2, RefusalKeepsInv, ReduceKeepsInv

-----------------------------------------------------------------------------
(* Entering the matching loop.                                             *)

Placeable(o) ==
  /\ o.kind # "none"
  /\ o.kind # "market" => o.id \in OrderId /\ o.price \in Price

(* What entering the matching loop sets.                                   *)
LEMMA EnterFacts ==
  ASSUME Inv, NEW o \in OpType, NEW p, NEW n \in Nat, Enter(o, p, n)
  PROVE  phase' = "matching" /\ op' = o /\ run' \in RunType
<1>1. [NoRun EXCEPT !.remaining = o.qty] \in RunType
  BY NoRunTyped DEF OpType, RunType
<1>2. Emitted([NoRun EXCEPT !.remaining = o.qty], n) \in RunType
  BY <1>1, InvFacts, EmittedTyped
<1> QED
  BY <1>2 DEF Enter

(* A new order: the book is as it was.                                     *)
LEMMA NewKeepsInv ==
  ASSUME Inv, phase = "idle", UNCHANGED <<config, book, feed>>,
         NEW o \in OpType, NEW p, NEW n \in Nat, Enter(o, p, n),
         Placeable(o), o.kind # "replace",
         o.kind # "market" => o.id \notin book.index
  PROVE  Inv'
<1>1. phase' = "matching" /\ op' = o /\ run' \in RunType
  BY EnterFacts
<1>2. PoolIsExact'
  BY <1>1, InvFacts DEF PoolIsExact, Relisting
<1>3. OpIsPlaceable'
  BY <1>1 DEF OpIsPlaceable, Placeable
<1> QED
  BY <1>1, <1>2, <1>3, InvFacts, InvFrom

(* The first step of add_limit_order keeps Inv.                            *)
LEMMA AddKeepsInv ==
  ASSUME Inv, NEW id \in OrderId \cup {InvalidId}, NEW s \in Side,
         NEW price \in PriceInput, NEW qty \in QuantityInput,
         NEW tif \in TimeInForce \cup {BadTimeInForce}, NEW postOnly \in BOOLEAN,
         NEW owner \in Participant,
         AddLimitOrder(id, s, price, qty, tif, postOnly, owner)
  PROVE  Inv'
<1> DEFINE o == [kind |-> "add", id |-> id, side |-> s, price |-> price, qty |-> qty,
                 tif |-> tif, postOnly |-> postOnly, owner |-> owner]
           p == Plan(o)
           st == AddStatus(o, p)
<1>1. phase = "idle" /\ UNCHANGED config
  BY DEF AddLimitOrder
<1>2. \/ /\ UNCHANGED <<book, feed, op>> /\ phase' = "done"
         /\ run' = Emitted(NoRun, 0) \/ run' = Emitted(NoRun, 1)
      \/ st = "Accepted" /\ Enter(o, p, 1) /\ UNCHANGED <<book, feed>>
  BY DEF AddLimitOrder, Report, Refuse, Answer
<1>3. CASE /\ UNCHANGED <<book, feed, op>> /\ phase' = "done"
           /\ run' = Emitted(NoRun, 0) \/ run' = Emitted(NoRun, 1)
  BY <1>1, <1>3, RefusalKeepsInv
<1>4. CASE st = "Accepted" /\ Enter(o, p, 1) /\ UNCHANGED <<book, feed>>
  <2> HIDE DEF p
  <2>1. /\ o.id # InvalidId
        /\ TermsStatus(o) = "Accepted"
        /\ o.id \notin book.index
    BY <1>4 DEF AddStatus
  <2>2. price \in Price /\ tif \in TimeInForce
    BY <2>1 DEF TermsStatus
  <2>3. o \in OpType
    BY <2>2, InputAssumption DEF OpType
  <2>4. Placeable(o)
    BY <2>1, <2>2 DEF Placeable
  <2>5. o.kind = "add"
    OBVIOUS
  <2> HIDE DEF o
  <2> QED
    BY <2>1, <2>3, <2>4, <2>5, <1>1, <1>4, NewKeepsInv
<1> QED
  BY <1>2, <1>3, <1>4

(* The first step of match_market_order keeps Inv.                         *)
LEMMA MarketKeepsInv ==
  ASSUME Inv, NEW s \in Side, NEW qty \in QuantityInput, NEW owner \in Participant,
         MatchMarketOrder(s, qty, owner)
  PROVE  Inv'
<1> DEFINE o == [NoOp EXCEPT !.kind = "market", !.side = s, !.qty = qty, !.owner = owner]
           p == Plan(o)
<1>1. phase = "idle" /\ UNCHANGED config
  BY DEF MatchMarketOrder
<1>2. \/ /\ UNCHANGED <<book, feed, op>> /\ phase' = "done"
         /\ run' = Emitted(NoRun, 0) \/ run' = Emitted(NoRun, 1)
      \/ Enter(o, p, 0) /\ UNCHANGED <<book, feed>>
  BY DEF MatchMarketOrder, Report, Refuse, Answer
<1>3. o \in OpType /\ o.kind = "market" /\ Placeable(o)
  BY NoOpTyped, InputAssumption DEF NoOp, OpType, Placeable
<1> HIDE DEF o, p
<1> QED
  BY <1>1, <1>2, <1>3, RefusalKeepsInv, NewKeepsInv

(* A replacement: its order leaves the queues and the index, not the pool. *)
LEMMA LeaveKeepsInv ==
  ASSUME Inv, phase = "idle", UNCHANGED config,
         NEW o \in OpType, Placeable(o), o.kind = "replace", o.id \in book.index,
         NEW p, LeaveForReentry(o, p)
  PROVE  Inv'
<1> DEFINE s == book.order[o.id].side
           price == book.order[o.id].price
           b == Unindexed(Unlinked(book, o.id), o.id)
<1>1. CASE ~Removable(book, o.id)
  <2>1. /\ UNCHANGED <<book, feed, op>> /\ phase' = "done"
        /\ run' = Emitted(NoRun, 1)
    BY <1>1 DEF LeaveForReentry, Report, Answer
  <2> QED
    BY <2>1, RefusalKeepsInv
<1>2. CASE Removable(book, o.id)
  <2>1. /\ book' = b
        /\ feed' = Publish(feed, book, b, s, price)
        /\ Enter(o, p, 2)
    BY <1>2 DEF LeaveForReentry
  <2>2. s \in Side /\ price \in Price
    BY InvFacts, OrderPlace
  <2>3. /\ Sound(b)
        /\ b.index = book.index \ {o.id}
        /\ b.used = book.used
        /\ \A t \in Side : Occupied(b, t) \subseteq Occupied(book, t)
    BY <1>2, InvFacts, UnlinkedSound
  <2> HIDE DEF s, price, b
  <2>4. /\ IsFiniteSet(b.index)
        /\ Cardinality(b.index) = Cardinality(book.index) - 1
    <3>1. Kept(book) /\ book.used >= Cardinality(book.index)
      BY InvFacts
    <3>2. /\ IsFiniteSet(book.index \ {o.id})
          /\ Cardinality(book.index \ {o.id}) = Cardinality(book.index) - 1
      BY <3>1, RemovedCount
    <3> QED
      BY <3>2, <2>3
  <2>5. Kept(b)
    BY <2>3, <2>4, InvFacts, UncrossedShrinks DEF Kept
  <2>6. feed' \in FeedType
    BY <2>1, <2>2, <2>3, InvFacts, PublishTyped
  <2>7. phase' = "matching" /\ op' = o /\ run' \in RunType
    BY <2>1, EnterFacts
  <2>8. PoolIsExact'
    <3>1. ~Relisting /\ Relisting'
      BY <2>7 DEF Relisting
    <3>2. book.used = Cardinality(book.index)
      BY <3>1, InvFacts
    <3> QED
      BY <3>1, <3>2, <2>1, <2>3, <2>4, InvFacts DEF PoolIsExact
  <2>9. OpIsPlaceable'
    BY <2>1, <2>3, <2>7 DEF OpIsPlaceable, Placeable
  <2> QED
    BY <2>1, <2>5, <2>6, <2>7, <2>8, <2>9, InvFacts, InvFrom
<1> QED
  BY <1>1, <1>2

(* The first step of replace_order keeps Inv.                              *)
LEMMA ReplaceKeepsInv ==
  ASSUME Inv, NEW id \in OrderId, NEW price \in PriceInput, NEW qty \in QuantityInput,
         NEW tif \in TimeInForce \cup {BadTimeInForce}, NEW postOnly \in BOOLEAN,
         ReplaceOrder(id, price, qty, tif, postOnly)
  PROVE  Inv'
<1> DEFINE old == book.order[id]
           o == [kind |-> "replace", id |-> id, side |-> old.side, price |-> price,
                 qty |-> qty, tif |-> tif, postOnly |-> postOnly, owner |-> old.owner]
           p == Plan(o)
<1>1. phase = "idle" /\ UNCHANGED config /\ qty \in 0..MaxQuantity
  BY InputAssumption DEF ReplaceOrder
<1>2. \/ /\ UNCHANGED <<book, feed, op>> /\ phase' = "done"
         /\ run' = Emitted(NoRun, 0) \/ run' = Emitted(NoRun, 1)
      \/ id \in book.index /\ qty < old.qty /\ Reduce(id, qty)
      \/ id \in book.index /\ TermsStatus(o) = "Accepted" /\ LeaveForReentry(o, p)
  BY DEF ReplaceOrder, Report, Refuse, Answer
<1>3. CASE /\ UNCHANGED <<book, feed, op>> /\ phase' = "done"
           /\ run' = Emitted(NoRun, 0) \/ run' = Emitted(NoRun, 1)
  BY <1>1, <1>3, RefusalKeepsInv
<1>4. CASE id \in book.index /\ qty < old.qty /\ Reduce(id, qty)
  BY <1>1, <1>4, ReduceKeepsInv
<1>5. CASE id \in book.index /\ TermsStatus(o) = "Accepted" /\ LeaveForReentry(o, p)
  <2> HIDE DEF p
  <2>1. price \in Price /\ tif \in TimeInForce
    BY <1>5 DEF TermsStatus
  <2>2. old.side \in Side /\ old.owner \in Participant
    BY <1>5, InvFacts, OrderPlace DEF Order
  <2>3. o \in OpType
    BY <2>1, <2>2, <1>1 DEF OpType
  <2>4. Placeable(o) /\ o.kind = "replace" /\ o.id \in book.index
    BY <2>1, <1>5 DEF Placeable
  <2>5. LeaveForReentry(o, p)
    BY <1>5
  <2> HIDE DEF o
  <2> QED
    BY <2>3, <2>4, <2>5, <1>1, LeaveKeepsInv
<1> QED
  BY <1>2, <1>3, <1>4, <1>5

-----------------------------------------------------------------------------
(* The matching loop.                                                      *)

(* The order that was replaced, if any, gives its slot back.               *)
GivenUp == IF op.kind = "replace" THEN Released(book, op.id) ELSE book

(* After a replaced order gave its slot back, slots and indexed orders     *)
(* balance.                                                                *)
LEMMA GivenUpFacts ==
  ASSUME Inv, phase = "matching"
  PROVE  /\ Kept(GivenUp)
         /\ GivenUp.index = book.index
         /\ GivenUp.used = Cardinality(book.index)
<1>1. CASE op.kind = "replace"
  <2>1. /\ op.id \in OrderId /\ op.id \notin book.index
        /\ book.used = Cardinality(book.index) + 1
        /\ book.used > 0
    BY <1>1, InvFacts DEF Inv, OpIsPlaceable, Relisting
  <2>2. GivenUp = Released(book, op.id)
    BY <1>1 DEF GivenUp
  <2>3. /\ Sound(GivenUp)
        /\ GivenUp.index = book.index
        /\ GivenUp.used = book.used - 1
        /\ \A t \in Side : Occupied(GivenUp, t) = Occupied(book, t)
    BY <2>1, <2>2, InvFacts, ReleasedSound
  <2>4. Uncrossed(GivenUp)
    BY <2>3, InvFacts, UncrossedShrinks DEF Kept
  <2> QED
    BY <2>1, <2>3, <2>4, InvFacts DEF Kept
<1>2. CASE op.kind # "replace"
  BY <1>2, InvFacts DEF GivenUp, Relisting
<1> QED
  BY <1>1, <1>2

(* The command is over and what is left of it rests nowhere.               *)
LEMMA GivingUpKeepsInv ==
  ASSUME Inv, phase = "matching", phase' = "done", UNCHANGED <<config, op>>,
         feed' \in FeedType, run' \in RunType,
         Kept(book'), book'.index = book.index, book'.used = Cardinality(book.index)
  PROVE  Inv'
<1>1. PoolIsExact'
  BY InvFacts DEF PoolIsExact, Relisting
<1>2. OpIsPlaceable'
  BY DEF OpIsPlaceable
<1> QED
  BY <1>1, <1>2, InvFacts, InvFrom

(* Giving up inside the loop keeps Inv.                                    *)
LEMMA AbortKeepsInv ==
  ASSUME Inv, phase = "matching", Abort
  PROVE  Inv'
<1>1. /\ phase' = "done" /\ UNCHANGED <<config, feed, op, run>>
      /\ book' = GivenUp
  BY DEF Abort, GivenUp
<1> QED
  BY <1>1, GivenUpFacts, InvFacts, GivingUpKeepsInv

(* One turn of the loop.                                                   *)
LEMMA TurnKeepsInv ==
  ASSUME Inv, phase = "matching", UNCHANGED <<config, phase, op>>,
         Kept(book'), Shrinks(book, book'), feed' \in FeedType, run' \in RunType
  PROVE  Inv'
<1>1. book'.used \in Nat /\ Cardinality(book'.index) \in Nat
  BY FS_CardinalityType DEF Kept, Sound, BookType
<1>2. PoolIsExact'
  <2>1. book'.used = Cardinality(book'.index) + (IF Relisting THEN 1 ELSE 0)
    BY <1>1, InvFacts DEF Shrinks
  <2>2. Relisting' <=> Relisting
    BY DEF Relisting
  <2>3. book'.used <= config.maxOrders /\ Cardinality(book'.index) <= config.idCapacity
    BY <1>1, InvFacts DEF Shrinks
  <2> QED
    BY <2>1, <2>2, <2>3 DEF PoolIsExact
<1>3. OpIsPlaceable'
  BY DEF Inv, OpIsPlaceable, Shrinks
<1> QED
  BY <1>2, <1>3, InvFacts, InvFrom

(* Inside the loop there is a front order to look at.                      *)
LEMMA FrontFacts ==
  ASSUME Inv, CanMatch
  PROVE  /\ phase = "matching"
         /\ Contra \in Side
         /\ book.best[Contra] \in Price /\ book.best[Contra] # NoPrice
         /\ FrontOrder \in book.index
         /\ book.order[FrontOrder].qty \in 0..MaxQuantity
         /\ book.order[FrontOrder].side = Contra
         /\ book.order[FrontOrder].price = book.best[Contra]
<1>1. phase = "matching" /\ book.best[Contra] # NoPrice
  BY DEF CanMatch
<1>2. Contra \in Side
  BY DEF Contra, Opposite, Side
<1>3. /\ FrontOrder \in book.index
      /\ book.best[Contra] \in Price
      /\ book.order[FrontOrder].side = Contra
      /\ book.order[FrontOrder].price = book.best[Contra]
  BY <1>1, <1>2, InvFacts, FrontIsIndexed DEF FrontOrder
<1>4. book.order[FrontOrder].qty \in 0..MaxQuantity
  BY <1>3, InvFacts, OrderPlace DEF Order
<1> QED
  BY <1>1, <1>2, <1>3, <1>4

(* A fill keeps Inv.                                                       *)
LEMMA TradeKeepsInv ==
  ASSUME Inv, Trade
  PROVE  Inv'
<1> DEFINE x == Min2(run.remaining, book.order[FrontOrder].qty)
<1>1. CanMatch
  BY DEF Trade
<1>2. /\ run.remaining \in 0..MaxQuantity /\ run.executed \in Nat /\ run.fills \in Nat
      /\ run \in RunType
  BY InvFacts DEF RunType
<1>3. /\ phase = "matching"
      /\ Contra \in Side
      /\ book.best[Contra] \in Price /\ book.best[Contra] # NoPrice
      /\ book.order[FrontOrder].qty \in 0..MaxQuantity
  BY <1>1, FrontFacts
<1>4. /\ x \in Nat /\ x <= book.order[FrontOrder].qty
      /\ run.remaining - x \in 0..MaxQuantity
  BY <1>2, <1>3, WidthAssumption DEF Min2
<1>5. \/ Abort
      \/ /\ book' = FilledFront(book, Contra, x)
         /\ feed' = Publish(Posted(feed, feed), book, book', Contra, book.best[Contra])
         /\ run' = Emitted([run EXCEPT !.remaining = @ - x, !.executed = @ + x,
                                       !.fills = @ + 1], 1)
         /\ UNCHANGED <<config, phase, op>>
  BY DEF Trade
<1> HIDE DEF x
<1>6. CASE /\ book' = FilledFront(book, Contra, x)
           /\ feed' = Publish(Posted(feed, feed), book, book', Contra, book.best[Contra])
           /\ run' = Emitted([run EXCEPT !.remaining = @ - x, !.executed = @ + x,
                                         !.fills = @ + 1], 1)
           /\ UNCHANGED <<config, phase, op>>
  <2>1. x <= book.order[Head(book.level[Contra][book.best[Contra]])].qty
    BY <1>4 DEF FrontOrder
  <2>2. Kept(book') /\ Shrinks(book, book')
    BY <2>1, <1>3, <1>4, <1>6, InvFacts, FilledFrontKept
  <2>3. Posted(feed, feed) \in FeedType
    BY InvFacts, PostedTyped
  <2>4. feed' \in FeedType
    BY <2>2, <2>3, <1>3, <1>6, PublishTyped DEF Kept
  <2>5. [run EXCEPT !.remaining = @ - x, !.executed = @ + x, !.fills = @ + 1] \in RunType
    <3>1. run.executed + x \in Nat /\ run.fills + 1 \in Nat
      BY <1>2, <1>4
    <3> QED
      BY <3>1, <1>2, <1>4 DEF RunType
  <2>6. run' \in RunType
    BY <2>5, <1>6, InvFacts, EmittedTyped
  <2> QED
    BY <2>2, <2>4, <2>6, <1>3, <1>6, TurnKeepsInv
<1> QED
  BY <1>3, <1>5, <1>6, AbortKeepsInv

(* A self-trade cancellation of the resting order keeps Inv.               *)
LEMMA CancelOwnKeepsInv ==
  ASSUME Inv, CancelOwnResting
  PROVE  Inv'
<1> DEFINE r == [run EXCEPT !.cancels = @ + 1, !.stopped = config.policy = "CancelBoth"]
<1>1. CanMatch
  BY DEF CancelOwnResting
<1>2. /\ phase = "matching" /\ Contra \in Side
      /\ book.best[Contra] \in Price
      /\ FrontOrder \in book.index
  BY <1>1, FrontFacts
<1>3. \/ Abort
      \/ /\ Removable(book, FrontOrder)
         /\ book' = Removed(book, FrontOrder)
         /\ feed' = Publish(feed, book, book', Contra, book.best[Contra])
         /\ run' = Emitted(r, 1)
         /\ UNCHANGED <<config, phase, op>>
  BY DEF CancelOwnResting
<1>4. r \in RunType
  <2> DEFINE stop == (config.policy = "CancelBoth")
  <2>1. stop \in BOOLEAN
    OBVIOUS
  <2>2. run \in RunType
    BY InvFacts
  <2>3. run.cancels + 1 \in Nat
    BY <2>2 DEF RunType
  <2> HIDE DEF stop
  <2>4. [run EXCEPT !.cancels = @ + 1, !.stopped = stop] \in RunType
    BY <2>1, <2>2, <2>3 DEF RunType
  <2> QED
    BY <2>4 DEF stop
<1> HIDE DEF r
<1>5. CASE /\ Removable(book, FrontOrder)
           /\ book' = Removed(book, FrontOrder)
           /\ feed' = Publish(feed, book, book', Contra, book.best[Contra])
           /\ run' = Emitted(r, 1)
           /\ UNCHANGED <<config, phase, op>>
  <2>1. Kept(book') /\ Shrinks(book, book')
    BY <1>2, <1>5, InvFacts, RemovedKept
  <2>2. feed' \in FeedType
    BY <2>1, <1>2, <1>5, InvFacts, PublishTyped DEF Kept
  <2>3. run' \in RunType
    BY <1>4, <1>5, InvFacts, EmittedTyped
  <2> QED
    BY <2>1, <2>2, <2>3, <1>2, <1>5, TurnKeepsInv
<1> QED
  BY <1>2, <1>3, <1>5, AbortKeepsInv

(* Stopping the aggressor keeps Inv.                                       *)
LEMMA StopKeepsInv ==
  ASSUME Inv, StopAggressor
  PROVE  Inv'
<1>1. /\ phase = "matching"
      /\ run' = [run EXCEPT !.stopped = TRUE]
      /\ UNCHANGED <<config, book, feed, phase, op>>
  BY DEF StopAggressor, CanMatch
<1>2. run' \in RunType
  BY <1>1, InvFacts DEF RunType
<1>3. Shrinks(book, book')
  BY <1>1, InvFacts DEF Shrinks
<1> QED
  BY <1>1, <1>2, <1>3, InvFacts, TurnKeepsInv

-----------------------------------------------------------------------------
(* After the loop.                                                         *)

(* Ending without a residual keeps Inv.                                    *)
LEMMA CompleteKeepsInv ==
  ASSUME Inv, Complete
  PROVE  Inv'
<1>1. /\ phase = "matching" /\ phase' = "done"
      /\ UNCHANGED <<config, feed, op>>
      /\ book' = GivenUp
      /\ run' = run \/ run' = Emitted(run, 1)
  BY DEF Complete, GivenUp
<1>2. run' \in RunType
  BY <1>1, InvFacts, EmittedTyped
<1> QED
  BY <1>1, <1>2, InvFacts, GivenUpFacts, GivingUpKeepsInv

(* What the last checks before resting establish.                          *)
LEMMA RestStatusFacts ==
  ASSUME Inv, phase = "matching", Rests, RestStatus = "Accepted"
  PROVE  /\ op.kind = "add" \/ op.kind = "replace"
         /\ op.id \in OrderId /\ op.id \notin book.index
         /\ op.side \in Side /\ op.price \in Price /\ op.owner \in Participant
         /\ run.remaining \in 0..MaxQuantity
         /\ run.remaining <= MaxQuantity - book.total[op.side][op.price]
         /\ op.kind = "add" => book.used + 1 <= config.maxOrders
         /\ Cardinality(book.index) + 1 <= config.idCapacity
<1>1. /\ op.kind # "market" /\ op.kind # "none"
      /\ op.id \in OrderId /\ op.id \notin book.index
      /\ op.price \in Price
  BY DEF Inv, OpIsPlaceable, Rests
<1>2. /\ op.kind = "add" \/ op.kind = "replace"
      /\ op.side \in Side /\ op.owner \in Participant
      /\ run.remaining \in 0..MaxQuantity
  BY <1>1, InvFacts DEF OpType, RunType
<1>3. book.total[op.side][op.price] \in 0..MaxQuantity
  BY <1>1, <1>2, InvFacts DEF Sound, BookType
<1>4. /\ LevelStatus(op.side, op.price, run.remaining) = "Accepted"
      /\ op.kind = "add" => book.used # config.maxOrders
      /\ Cardinality(book.index) # config.idCapacity
  BY DEF RestStatus
<1>5. ~(MaxQuantity - book.total[op.side][op.price] < run.remaining)
  BY <1>4 DEF LevelStatus
<1>6. run.remaining <= MaxQuantity - book.total[op.side][op.price]
  BY <1>2, <1>3, <1>5, WidthAssumption
<1>7. op.kind = "add" => book.used + 1 <= config.maxOrders
  BY <1>4, InvFacts
<1>8. Cardinality(book.index) + 1 <= config.idCapacity
  BY <1>4, InvFacts
<1> QED
  BY <1>1, <1>2, <1>6, <1>7, <1>8

(* When a residual rests, the loop ended because nothing on the other side *)
(* crosses its price.                                                      *)
LEMMA LoopIsOver ==
  ASSUME Inv, phase = "matching", ~CanMatch, Rests
  PROVE  \/ book.best[Contra] = NoPrice
         \/ ~Crosses(Contra, book.best[Contra], op.price)
  BY DEF CanMatch, Rests

(* A new order takes a pool slot before it rests.                          *)
LEMMA SlotTaken ==
  ASSUME NEW b, Kept(b), NEW c, c = [b EXCEPT !.used = @ + 1]
  PROVE  /\ Kept(c)
         /\ c.index = b.index
         /\ c.used = b.used + 1
         /\ c.total = b.total /\ c.best = b.best
<1>1. b \in BookType /\ b.used \in Nat /\ b.seq \in 0..MaxSequence
  BY DEF Kept, Sound, BookType
<1> DEFINE used == b.used + 1
           seq == b.seq
<1>2. c = Recounted(b, used, seq)
  BY <1>1 DEF BookType, Recounted
<1>3. used \in Nat /\ seq \in 0..MaxSequence
  BY <1>1
<1>4. used = b.used + 1
  OBVIOUS
<1> HIDE DEF used, seq
<1> QED
  BY <1>2, <1>3, <1>4, SlotsAndSequence

(* Resting the residual, or failing to, keeps Inv.                         *)
LEMMA RestKeepsInv ==
  ASSUME Inv, RestResidual
  PROVE  Inv'
<1> DEFINE taken == IF op.kind = "add" THEN [book EXCEPT !.used = @ + 1] ELSE book
           b == Rested(taken, op.id, op.side, op.price, run.remaining, op.owner)
<1>1. /\ phase = "matching" /\ ~CanMatch /\ Rests
      /\ phase' = "done" /\ UNCHANGED <<config, op>>
  BY DEF RestResidual
<1>2. book \in BookType /\ book.seq \in 0..MaxSequence /\ book.used \in Nat
  BY InvFacts DEF Sound, BookType
<1>3. \/ /\ RestStatus = "Accepted"
         /\ book' = b
         /\ feed' = Publish(feed, book, b, op.side, op.price)
         /\ run' = Emitted(run, 1)
      \/ /\ book' = [GivenUp EXCEPT !.seq = NextSequence(book)] \/ book' = GivenUp
         /\ UNCHANGED <<feed, run>>
  BY DEF RestResidual, GivenUp
<1>4. CASE /\ book' = [GivenUp EXCEPT !.seq = NextSequence(book)] \/ book' = GivenUp
           /\ UNCHANGED <<feed, run>>
  <2>1. /\ Kept(GivenUp)
        /\ GivenUp.index = book.index
        /\ GivenUp.used = Cardinality(book.index)
        /\ Cardinality(book.index) \in Nat
        /\ GivenUp \in BookType
    BY <1>1, GivenUpFacts, InvFacts DEF Kept, Sound
  <2>2. NextSequence(book) \in 0..MaxSequence
    BY <1>2, WidthAssumption DEF NextSequence, Min2
  <2>3. CASE book' = [GivenUp EXCEPT !.seq = NextSequence(book)]
    <3> DEFINE n == NextSequence(book)
    <3> HIDE DEF n
    <3>1. book' = Recounted(GivenUp, GivenUp.used, n)
      BY <2>1, <2>3 DEF BookType, Recounted, n
    <3>2. n \in 0..MaxSequence /\ GivenUp.used \in Nat
      BY <2>1, <2>2 DEF n
    <3>3. Kept(book') /\ book'.index = book.index /\ book'.used = Cardinality(book.index)
      BY <2>1, <3>1, <3>2, SlotsAndSequence
    <3> QED
      BY <3>3, <1>1, <1>4, InvFacts, GivingUpKeepsInv
  <2>4. CASE book' = GivenUp
    BY <2>1, <2>4, <1>1, <1>4, InvFacts, GivingUpKeepsInv
  <2> QED
    BY <2>3, <2>4, <1>4
<1>5. CASE /\ RestStatus = "Accepted"
           /\ book' = b
           /\ feed' = Publish(feed, book, b, op.side, op.price)
           /\ run' = Emitted(run, 1)
  <2>1. /\ op.kind = "add" \/ op.kind = "replace"
        /\ op.id \in OrderId /\ op.id \notin book.index
        /\ op.side \in Side /\ op.price \in Price /\ op.owner \in Participant
        /\ run.remaining \in 0..MaxQuantity
        /\ run.remaining <= MaxQuantity - book.total[op.side][op.price]
        /\ op.kind = "add" => book.used + 1 <= config.maxOrders
        /\ Cardinality(book.index) + 1 <= config.idCapacity
    BY <1>1, <1>5, RestStatusFacts
  <2>2. /\ Kept(taken)
        /\ taken.index = book.index
        /\ taken.used = IF op.kind = "add" THEN book.used + 1 ELSE book.used
        /\ taken.total = book.total /\ taken.best = book.best
    <3>1. CASE op.kind = "add"
      <4>1. taken = [book EXCEPT !.used = @ + 1]
        BY <3>1
      <4>2. Kept(book)
        BY InvFacts
      <4> HIDE DEF taken
      <4>3. /\ Kept(taken)
            /\ taken.index = book.index
            /\ taken.used = book.used + 1
            /\ taken.total = book.total /\ taken.best = book.best
        BY <4>1, <4>2, SlotTaken
      <4> QED
        BY <3>1, <4>3
    <3>2. CASE op.kind # "add"
      BY <3>2, InvFacts
    <3> QED
      BY <3>1, <3>2
  <2> HIDE DEF taken
  <2>3. Sound(taken) /\ Uncrossed(taken) /\ IsFiniteSet(taken.index)
    BY <2>2 DEF Kept
  <2>4. /\ Sound(b)
        /\ b.index = taken.index \cup {op.id}
        /\ b.used = taken.used
        /\ Occupied(b, op.side) = Occupied(taken, op.side) \cup {op.price}
        /\ \A t \in Side \ {op.side} : Occupied(b, t) = Occupied(taken, t)
    BY <2>1, <2>2, <2>3, RestedSound
  <2> HIDE DEF b
  <2>5. Uncrossed(b)
    <3>1. \/ taken.best[Opposite(op.side)] = NoPrice
          \/ ~Crosses(Opposite(op.side), taken.best[Opposite(op.side)], op.price)
      BY <2>2, <1>1, LoopIsOver DEF Contra
    <3> QED
      BY <3>1, <2>1, <2>3, <2>4, UncrossedGrows
  <2>6. /\ IsFiniteSet(b.index)
        /\ Cardinality(b.index) = Cardinality(book.index) + 1
    <3>1. /\ IsFiniteSet(book.index \cup {op.id})
          /\ Cardinality(book.index \cup {op.id}) = Cardinality(book.index) + 1
      BY <2>1, FS_AddElement DEF Inv
    <3> QED
      BY <3>1, <2>2, <2>4
  <2>7. PoolIsExact'
    <3>1. b.used = Cardinality(b.index)
      BY <2>1, <2>2, <2>4, <2>6, <1>1, InvFacts DEF Relisting
    <3>2. b.used <= config.maxOrders
      BY <2>1, <2>2, <2>4, InvFacts
    <3>3. Cardinality(b.index) <= config.idCapacity
      BY <2>1, <2>6
    <3>4. ~Relisting'
      BY <1>1 DEF Relisting
    <3>5. /\ book'.used = b.used /\ book'.index = b.index
          /\ config' = config
          /\ Cardinality(b.index) \in Nat
      BY <1>1, <1>5, <2>6, FS_CardinalityType
    <3> QED
      BY <3>1, <3>2, <3>3, <3>4, <3>5 DEF PoolIsExact
  <2>8. OpIsPlaceable'
    BY <1>1 DEF OpIsPlaceable
  <2>9. feed' \in FeedType /\ run' \in RunType
    BY <2>1, <2>4, <1>5, InvFacts, PublishTyped, EmittedTyped
  <2>10. Kept(b)
    BY <2>4, <2>5, <2>6 DEF Kept
  <2> QED
    BY <2>7, <2>8, <2>9, <2>10, <1>1, <1>5, InvFacts, InvFrom
<1> QED
  BY <1>3, <1>4, <1>5

(* Returning to the caller keeps Inv.                                      *)
LEMMA ReturnKeepsInv ==
  ASSUME Inv, Return
  PROVE  Inv'
<1>1. /\ phase = "done" /\ phase' = "idle"
      /\ op' = NoOp /\ run' = NoRun
      /\ feed' = [feed EXCEPT !.count = 0]
      /\ UNCHANGED <<config, book>>
  BY DEF Return
<1>2. feed' \in FeedType
  BY <1>1, InvFacts DEF FeedType
<1>3. PoolIsExact'
  BY <1>1, InvFacts DEF PoolIsExact, Relisting
<1>4. OpIsPlaceable'
  BY <1>1 DEF OpIsPlaceable
<1> QED
  BY <1>1, <1>2, <1>3, <1>4, InvFacts, NoOpTyped, NoRunTyped, InvFrom

-----------------------------------------------------------------------------
(* The invariant is inductive.                                             *)

(* A newly built book satisfies Inv.                                       *)
LEMMA InitEstablishesInv ==
  ASSUME Init
  PROVE  Inv
<1>1. /\ config \in Configs /\ book = EmptyBook /\ phase = "idle"
      /\ op = NoOp /\ run = NoRun
  BY DEF Init
<1>2. Kept(book) /\ book.used = 0 /\ book.index = {}
  BY <1>1, EmptyBookKept
<1>3. feed \in FeedType
  BY InputAssumption, WidthAssumption DEF Init, FeedType
<1>4. Cardinality(book.index) = 0
  BY <1>2, FS_EmptySet
<1>5. config.maxOrders \in Nat /\ config.idCapacity \in Nat
  BY <1>1, ConfigAssumption
<1>6. PoolIsExact
  BY <1>1, <1>2, <1>4, <1>5 DEF PoolIsExact, Relisting
<1>7. OpIsPlaceable
  BY <1>1 DEF OpIsPlaceable
<1> QED
  BY <1>1, <1>2, <1>3, <1>6, <1>7, NoOpTyped, NoRunTyped
     DEF Inv, TypeOK, BestIsBest, IndexIsExact, NotCrossed, Kept, Sound

(* Every step keeps Inv.                                                   *)
LEMMA NextKeepsInv ==
  ASSUME Inv, [Next]_vars
  PROVE  Inv'
<1>1. CASE Command
  BY <1>1, AddKeepsInv, MarketKeepsInv, CancelKeepsInv, ModifyKeepsInv, ReplaceKeepsInv
     DEF Command
<1>2. CASE Execute
  BY <1>2, TradeKeepsInv, CancelOwnKeepsInv, StopKeepsInv, CompleteKeepsInv, RestKeepsInv
     DEF Execute
<1>3. CASE Return
  BY <1>3, ReturnKeepsInv
<1>4. CASE UNCHANGED vars
  <2>1. UNCHANGED <<config, book, feed, phase, op, run>>
    BY <1>4 DEF vars
  <2>2. PoolIsExact' /\ OpIsPlaceable'
    BY <2>1 DEF Inv, PoolIsExact, OpIsPlaceable, Relisting
  <2> QED
    BY <2>1, <2>2, InvFacts, InvFrom DEF Inv, TypeOK
<1> QED
  BY <1>1, <1>2, <1>3, <1>4 DEF Next

(* Inv holds in every reachable state, whatever the ids, prices, widths,   *)
(* capacities and policies.                                                *)
THEOREM Invariance == Spec => []Inv
  BY InitEstablishesInv, NextKeepsInv, PTL DEF Spec

(* Every variable has its type in every reachable state: level totals fit  *)
(* the Quantity width, whatever is added, filled, reduced or cancelled.    *)
THEOREM TypeCorrectness == Spec => []TypeOK
<1>1. Inv => TypeOK
  BY DEF Inv
<1> QED
  BY <1>1, Invariance, PTL

(* The cached best price of a side is always its best occupied price.      *)
THEOREM BestIsAlwaysBest == Spec => []BestIsBest
<1>1. Inv => BestIsBest
  BY DEF Inv
<1> QED
  BY <1>1, Invariance, PTL

(* The id index and the queues always hold the same orders, each once.     *)
THEOREM IndexIsAlwaysExact == Spec => []IndexIsExact
<1>1. Inv => IndexIsExact
  BY DEF Inv
<1> QED
  BY <1>1, Invariance, PTL

(* The book is never crossed, not even between two fills of one command.   *)
THEOREM NeverCrossed == Spec => []NotCrossed
<1>1. Inv => NotCrossed
  BY DEF Inv
<1> QED
  BY <1>1, Invariance, PTL

(* No path leaks a pool slot or releases one twice, and the capacities of  *)
(* pool and index are kept.                                                *)
THEOREM PoolIsAlwaysExact == Spec => []PoolIsExact
<1>1. Inv => PoolIsExact
  BY DEF Inv
<1> QED
  BY <1>1, Invariance, PTL

-----------------------------------------------------------------------------
(* The totals of the levels and the lots of the orders.                    *)

(* Every resting order has quantity left, in whole lots of n.              *)
WholeLot(qty, n) == qty # 0 /\ qty % n = 0
Lots(b, n) == \A id \in b.index : WholeLot(b.order[id].qty, n)
Exactly(b, n) == Sums(b) /\ Lots(b, n)

(* Only the order that changed can have lost its whole lots.               *)
LEMMA LotsKept ==
  ASSUME NEW b, Sound(b), NEW n, Lots(b, n), NEW id, NEW c, SameBut(b, c, id),
         c.index \subseteq b.index \cup {id},
         id \in c.index => WholeLot(c.order[id].qty, n)
  PROVE  Lots(c, n)
<1> SUFFICES ASSUME NEW x \in c.index, x # id PROVE WholeLot(c.order[x].qty, n)
  BY DEF Lots
<1>1. x \in b.index /\ x \in OrderId
  BY OrderPlace
<1> QED
  BY <1>1 DEF SameBut, Lots

(* Orders that leave take nothing off the others.                          *)
LEMMA RemovedExactly ==
  ASSUME NEW b, Sound(b), NEW n, Exactly(b, n), NEW id \in b.index, b.used > 0,
         NEW c, c = Removed(b, id)
  PROVE  Exactly(c, n)
<1>1. Sums(c) /\ SameBut(b, c, id) /\ c.index = b.index \ {id}
  BY RemovedSums DEF Exactly
<1>2. Lots(c, n)
  BY <1>1, LotsKept DEF Exactly
<1> QED
  BY <1>1, <1>2 DEF Exactly

(* An order that leaves its queue and the index takes its quantity along.  *)
LEMMA UnlinkedExactly ==
  ASSUME NEW b, Sound(b), NEW n, Exactly(b, n), NEW id \in b.index,
         NEW c, c = Unindexed(Unlinked(b, id), id)
  PROVE  Exactly(c, n)
<1>1. Removable(b, id)
  BY TotalHasOrder DEF Exactly
<1>2. Sound(c) /\ c.index = b.index \ {id} /\ c.order = b.order
  BY <1>1, UnlinkedSound
<1>3. PICK s, p, i : Leaves(b, c, id, s, p, i)
  BY UnlinkedChanges
<1>4. SameBut(b, c, id)
  BY <1>2 DEF SameBut
<1>5. Sums(c)
  BY <1>2, <1>3, <1>4, LeavesSums DEF Exactly, Sound
<1>6. Lots(c, n)
  BY <1>2 DEF Exactly, Lots
<1> QED
  BY <1>5, <1>6 DEF Exactly

(* A reduction to whole lots.                                              *)
LEMMA ReducedExactly ==
  ASSUME NEW b, Sound(b), NEW n, Exactly(b, n), NEW id \in b.index,
         NEW qty \in 0..MaxQuantity, qty <= b.order[id].qty, WholeLot(qty, n),
         NEW c, c = Reduced(b, id, qty)
  PROVE  Exactly(c, n)
<1>1. Sums(c) /\ c.order[id].qty = qty
  BY ReducedShortens DEF Exactly
<1>2. PICK s, p, x : Shortened(b, c, id, s, p, x)
  BY ReducedShortens DEF Exactly
<1>3. SameBut(b, c, id) /\ c.index = b.index
  BY <1>2 DEF Shortened
<1>4. Lots(c, n)
  BY <1>1, <1>3, LotsKept DEF Exactly
<1> QED
  BY <1>1, <1>4 DEF Exactly

(* A fill of whole lots.                                                   *)
LEMMA FilledFrontExactly ==
  ASSUME NEW b, Sound(b), NEW n \in Nat \ {0}, Exactly(b, n),
         NEW s \in Side, b.best[s] # NoPrice, b.used > 0,
         NEW x \in Nat, x <= b.order[FrontOf(b, s)].qty, x % n = 0,
         NEW c, c = FilledFront(b, s, x)
  PROVE  Exactly(c, n)
<1> DEFINE id == FrontOf(b, s)
<1>1. /\ Sound(c) /\ Sums(c)
      /\ x # b.order[id].qty => Shortened(b, c, id, s, b.best[s], x)
      /\ x = b.order[id].qty => SameBut(b, c, id) /\ c.index = b.index \ {id}
  BY FilledFrontSums DEF Exactly
<1>2. id \in b.index
  BY FrontIsIndexed DEF FrontOf
<1> HIDE DEF id
<1>3. b.order[id].qty \in 0..MaxQuantity /\ WholeLot(b.order[id].qty, n)
  BY <1>2, TotalHasOrder DEF Exactly, Lots
<1>4. CASE x = b.order[id].qty
  <2>1. Lots(c, n)
    BY <1>1, <1>4, LotsKept DEF Exactly
  <2> QED
    BY <2>1, <1>1 DEF Exactly
<1>5. CASE x # b.order[id].qty
  <2>1. SameBut(b, c, id) /\ c.index = b.index /\ c.order[id].qty = b.order[id].qty - x
    BY <1>1, <1>5 DEF Shortened
  <2>2. b.order[id].qty - x # 0
    BY <1>3, <1>5
  <2>3. b.order[id].qty \in Int /\ b.order[id].qty % n = 0 /\ x \in Int
    BY <1>3, WidthAssumption DEF WholeLot
  <2>4. (b.order[id].qty - x) % n = 0
    BY <2>3, DifferenceOfMultiples
  <2>5. Lots(c, n)
    BY <2>1, <2>2, <2>4, <1>2, LotsKept DEF Exactly, WholeLot
  <2> QED
    BY <2>5, <1>1 DEF Exactly
<1> QED
  BY <1>4, <1>5

(* Releasing the node of an order that rests nowhere changes no sum.       *)
LEMMA ReleasedExactly ==
  ASSUME NEW b, Sound(b), NEW n, Exactly(b, n), NEW id \in OrderId, id \notin b.index,
         b.used > 0, NEW c, c = Released(b, id)
  PROVE  Exactly(c, n)
<1>1. Sums(c)
  BY ReleasedSums DEF Exactly
<1>2. c.index = b.index
  BY ReleasedSound
<1>3. SameBut(b, c, id)
  BY ReleasedChanges DEF Sound
<1>4. Lots(c, n)
  BY <1>2, <1>3, LotsKept DEF Exactly
<1> QED
  BY <1>1, <1>4 DEF Exactly

(* A residual in whole lots can rest.                                      *)
LEMMA RestedExactly ==
  ASSUME NEW b, Sound(b), NEW n, Exactly(b, n), NEW id \in OrderId, id \notin b.index,
         NEW s \in Side, NEW p \in Price, NEW qty \in 0..MaxQuantity, WholeLot(qty, n),
         qty <= MaxQuantity - b.total[s][p],
         NEW owner \in Participant,
         NEW c, c = Rested(b, id, s, p, qty, owner)
  PROVE  Exactly(c, n)
<1>1. Sums(c) /\ SameBut(b, c, id) /\ c.order[id].qty = qty
  BY RestedSums DEF Exactly
<1>2. c.index = b.index \cup {id}
  BY RestedSound
<1>3. Lots(c, n)
  BY <1>1, <1>2, LotsKept DEF Exactly
<1> QED
  BY <1>1, <1>3 DEF Exactly

(* Slots and sequence numbers are no part of a total.                      *)
LEMMA RecountedExactly ==
  ASSUME NEW b, Kept(b), NEW n, Exactly(b, n), NEW used \in Nat, NEW seq \in 0..MaxSequence,
         NEW c, c = Recounted(b, used, seq)
  PROVE  Exactly(c, n)
<1>1. b \in BookType
  BY DEF Kept, Sound
<1>2. c.order = b.order /\ c.level = b.level /\ c.total = b.total /\ c.index = b.index
  BY <1>1 DEF BookType, Recounted
<1>3. \A fifo : QuantityOf(c, fifo) = QuantityOf(b, fifo)
  <2>1. QuantitiesOf(c) = QuantitiesOf(b)
    BY <1>2 DEF QuantitiesOf
  <2> QED
    BY <2>1, QuantityIsAdded
<1>4. Sums(c)
  BY <1>2, <1>3 DEF Sums, Exactly
<1>5. Lots(c, n)
  BY <1>2 DEF Lots, Exactly
<1> QED
  BY <1>4, <1>5 DEF Exactly

(* A new book is exact in any lot.                                         *)
LEMMA EmptyBookExactly == ASSUME NEW n PROVE Exactly(EmptyBook, n)
  BY EmptyBookSums DEF Exactly, Lots, EmptyBook

-----------------------------------------------------------------------------
(* The actions.                                                            *)

(* The totals are exact and every quantity is in whole lots: what rests,   *)
(* and what the aggressor still has.                                       *)
Exact ==
  /\ Exactly(book, config.lot)
  /\ phase = "matching" => run.remaining % config.lot = 0

(* A configuration has a lot size.                                         *)
LEMMA LotIsPositive == ASSUME Inv PROVE config.lot \in Nat \ {0}
  BY InvFacts, ConfigAssumption

(* The lot check lets whole lots through.                                  *)
LEMMA LotAccepted ==
  ASSUME NEW qty
  PROVE  LotStatus(qty) = "Accepted" <=> WholeLot(qty, config.lot)
  BY DEF LotStatus, WholeLot

(* The property of the runs follows from Exact.                            *)
LEMMA ExactIsExact ==
  ASSUME Inv, Exact
  PROVE  AggregatesAreExact
<1> SUFFICES ASSUME NEW s \in Side, NEW p \in Price
             PROVE  /\ book.total[s][p] = QuantityOf(book, book.level[s][p])
                    /\ \A i \in DOMAIN book.level[s][p] :
                         LotStatus(book.order[book.level[s][p][i]].qty) = "Accepted"
  BY DEF AggregatesAreExact
<1>1. book.total[s][p] = QuantityOf(book, book.level[s][p])
  BY DEF Exact, Exactly, Sums
<1>2. ASSUME NEW i \in DOMAIN book.level[s][p]
      PROVE  LotStatus(book.order[book.level[s][p][i]].qty) = "Accepted"
  <2>1. book.level[s][p][i] \in book.index
    BY InvFacts DEF Sound, QueuedAreIndexed
  <2> QED
    BY <2>1, LotAccepted DEF Exact, Exactly, Lots
<1> QED
  BY <1>1, <1>2

(* Outside the loop only the book matters.                                 *)
LEMMA ExactFrom ==
  ASSUME config' = config, Exactly(book', config.lot),
         phase' = "matching" => run'.remaining % config.lot = 0
  PROVE  Exact'
  BY DEF Exact

(* cancel_order takes one order out, with its quantity.                    *)
LEMMA CancelExact ==
  ASSUME Inv, Exact, NEW id \in OrderId, CancelOrder(id)
  PROVE  Exact'
<1>1. /\ config' = config /\ phase' = "done"
      /\ \/ book' = book
         \/ id \in book.index /\ book' = Removed(book, id)
  BY DEF CancelOrder, Report, Refuse, Answer, Apply
<1>2. CASE book' = book
  BY <1>1, <1>2, ExactFrom DEF Exact
<1>3. CASE id \in book.index /\ book' = Removed(book, id)
  <2>1. book.used > 0 /\ Sound(book) /\ Exactly(book, config.lot)
    BY <1>3, InvFacts, RemovedCount DEF Exact
  <2>2. Exactly(book', config.lot)
    BY <2>1, <1>3, RemovedExactly
  <2> QED
    BY <2>2, <1>1, ExactFrom
<1> QED
  BY <1>1, <1>2, <1>3

(* A reduction keeps the order in whole lots and the sum of its level.     *)
LEMMA ReduceExact ==
  ASSUME Inv, Exact, UNCHANGED config, NEW id \in book.index,
         NEW qty \in 0..MaxQuantity, qty < book.order[id].qty,
         LotStatus(qty) = "Accepted", Reduce(id, qty)
  PROVE  Exact'
<1>1. phase' = "done" /\ (book' = book \/ book' = Reduced(book, id, qty))
  BY DEF Reduce, Report, Answer, Apply
<1>2. qty <= book.order[id].qty
  <2>1. book.order[id].qty \in 0..MaxQuantity
    BY InvFacts, OrderPlace DEF Order
  <2> QED
    BY <2>1, WidthAssumption
<1>3. Sound(book) /\ Exactly(book, config.lot) /\ WholeLot(qty, config.lot)
  BY InvFacts, LotAccepted DEF Exact
<1>4. Exactly(book', config.lot)
  BY <1>1, <1>2, <1>3, ReducedExactly
<1> QED
  BY <1>1, <1>4, ExactFrom

(* modify_order reduces, removes or refuses.                               *)
LEMMA ModifyExact ==
  ASSUME Inv, Exact, NEW id \in OrderId, NEW qty \in QuantityInput, ModifyOrder(id, qty)
  PROVE  Exact'
<1>1. UNCHANGED config /\ qty \in 0..MaxQuantity
  BY InputAssumption DEF ModifyOrder
<1>2. \/ UNCHANGED book /\ phase' = "done"
      \/ /\ id \in book.index /\ qty < book.order[id].qty
         /\ LotStatus(qty) = "Accepted" /\ Reduce(id, qty)
  BY DEF ModifyOrder, Report, Refuse, Answer
<1> QED
  BY <1>1, <1>2, ReduceExact, ExactFrom DEF Exact

(* The quantity that enters the loop is the one that was checked.          *)
LEMMA EnterExact ==
  ASSUME Inv, NEW o, NEW p, NEW n, Enter(o, p, n), LotStatus(o.qty) = "Accepted",
         UNCHANGED config, Exactly(book', config.lot)
  PROVE  Exact'
<1>1. run'.remaining = o.qty
  BY DEF Enter, Emitted, NoRun
<1>2. WholeLot(o.qty, config.lot)
  BY LotAccepted
<1> QED
  BY <1>1, <1>2, ExactFrom DEF WholeLot

(* add_limit_order enters the matching loop with a quantity in whole lots, *)
(* and leaves the book alone until then.                                   *)
LEMMA AddExact ==
  ASSUME Inv, Exact, NEW id, NEW s, NEW price, NEW qty, NEW tif, NEW postOnly, NEW owner,
         AddLimitOrder(id, s, price, qty, tif, postOnly, owner)
  PROVE  Exact'
<1> DEFINE o == [kind |-> "add", id |-> id, side |-> s, price |-> price, qty |-> qty,
                 tif |-> tif, postOnly |-> postOnly, owner |-> owner]
           p == Plan(o)
<1>1. /\ UNCHANGED <<config, book>>
      /\ \/ phase' = "done"
         \/ AddStatus(o, p) = "Accepted" /\ Enter(o, p, 1)
  BY DEF AddLimitOrder, Report, Refuse, Answer
<1>2. CASE phase' = "done"
  BY <1>1, <1>2, ExactFrom DEF Exact
<1>3. CASE AddStatus(o, p) = "Accepted" /\ Enter(o, p, 1)
  <2>1. LotStatus(o.qty) = "Accepted"
    BY <1>3 DEF AddStatus, TermsStatus
  <2> HIDE DEF o, p
  <2> QED
    BY <2>1, <1>1, <1>3, EnterExact DEF Exact
<1> QED
  BY <1>1, <1>2, <1>3

(* match_market_order does so too.                                         *)
LEMMA MarketExact ==
  ASSUME Inv, Exact, NEW s, NEW qty, NEW owner, MatchMarketOrder(s, qty, owner)
  PROVE  Exact'
<1> DEFINE o == [NoOp EXCEPT !.kind = "market", !.side = s, !.qty = qty, !.owner = owner]
           p == Plan(o)
<1>1. /\ UNCHANGED <<config, book>>
      /\ \/ phase' = "done"
         \/ LotStatus(qty) = "Accepted" /\ Enter(o, p, 0)
  BY DEF MatchMarketOrder, Report, Refuse, Answer
<1>2. o.qty = qty
  BY DEF NoOp
<1> HIDE DEF o, p
<1> QED
  BY <1>1, <1>2, EnterExact, ExactFrom DEF Exact

(* replace_order does so as well, with the old order off the book.         *)
LEMMA ReplaceExact ==
  ASSUME Inv, Exact, NEW id \in OrderId, NEW price, NEW qty \in QuantityInput, NEW tif,
         NEW postOnly, ReplaceOrder(id, price, qty, tif, postOnly)
  PROVE  Exact'
<1> DEFINE old == book.order[id]
           o == [kind |-> "replace", id |-> id, side |-> old.side, price |-> price,
                 qty |-> qty, tif |-> tif, postOnly |-> postOnly, owner |-> old.owner]
           p == Plan(o)
<1>1. UNCHANGED config /\ qty \in 0..MaxQuantity
  BY InputAssumption DEF ReplaceOrder
<1>2. \/ UNCHANGED book /\ phase' = "done"
      \/ /\ id \in book.index /\ TermsStatus(o) = "Accepted"
         /\ \/ qty < old.qty /\ Reduce(id, qty)
            \/ LeaveForReentry(o, p)
  BY DEF ReplaceOrder, Report, Refuse, Answer
<1>3. CASE UNCHANGED book /\ phase' = "done"
  BY <1>1, <1>3, ExactFrom DEF Exact
<1>4. CASE /\ id \in book.index /\ TermsStatus(o) = "Accepted"
           /\ \/ qty < old.qty /\ Reduce(id, qty)
              \/ LeaveForReentry(o, p)
  <2>1. LotStatus(qty) = "Accepted" /\ o.qty = qty /\ o.id = id
    BY <1>4 DEF TermsStatus
  <2>2. CASE qty < old.qty /\ Reduce(id, qty)
    BY <2>1, <2>2, <1>1, <1>4, ReduceExact
  <2>3. CASE LeaveForReentry(o, p)
    <3> HIDE DEF o, p
    <3>1. \/ UNCHANGED book /\ phase' = "done"
          \/ book' = Unindexed(Unlinked(book, id), id) /\ Enter(o, p, 2)
      BY <2>1, <2>3 DEF LeaveForReentry, Report, Answer
    <3>2. Sound(book) /\ Exactly(book, config.lot)
      BY InvFacts DEF Exact
    <3>3. ASSUME book' = Unindexed(Unlinked(book, id), id)
          PROVE  Exactly(book', config.lot)
      BY <3>2, <3>3, <1>4, UnlinkedExactly
    <3> QED
      BY <2>1, <3>1, <3>2, <3>3, <1>1, EnterExact, ExactFrom
  <2> QED
    BY <2>2, <2>3, <1>4
<1> QED
  BY <1>2, <1>3, <1>4

(* Giving up a command releases a node that rests nowhere.                 *)
LEMMA GivenUpExactly ==
  ASSUME Inv, phase = "matching", Exact
  PROVE  Exactly(GivenUp, config.lot)
<1>1. Sound(book) /\ Exactly(book, config.lot)
  BY InvFacts DEF Exact
<1>2. CASE op.kind = "replace"
  <2>1. op.id \in OrderId /\ op.id \notin book.index /\ book.used > 0
    BY <1>2, InvFacts DEF Inv, OpIsPlaceable, Relisting
  <2>2. GivenUp = Released(book, op.id)
    BY <1>2 DEF GivenUp
  <2> QED
    BY <2>1, <2>2, <1>1, ReleasedExactly
<1>3. CASE op.kind # "replace"
  BY <1>1, <1>3 DEF GivenUp
<1> QED
  BY <1>2, <1>3

(* A command that fails inside the loop leaves an exact book.              *)
LEMMA AbortExact ==
  ASSUME Inv, phase = "matching", Exact, Abort
  PROVE  Exact'
<1>1. book' = GivenUp /\ phase' = "done" /\ config' = config
  BY DEF Abort, GivenUp
<1> QED
  BY <1>1, GivenUpExactly, ExactFrom

(* A fill takes the same quantity off the aggressor, the resting order and *)
(* its level, all three in whole lots.                                     *)
LEMMA TradeExact ==
  ASSUME Inv, Exact, Trade
  PROVE  Exact'
<1> DEFINE x == Min2(run.remaining, book.order[FrontOrder].qty)
<1>1. CanMatch
  BY DEF Trade
<1>2. /\ phase = "matching" /\ Contra \in Side /\ book.best[Contra] # NoPrice
      /\ FrontOrder \in book.index
      /\ book.order[FrontOrder].qty \in 0..MaxQuantity
  BY <1>1, FrontFacts
<1>3. /\ Sound(book) /\ Exactly(book, config.lot) /\ book.used > 0
      /\ run.remaining \in 0..MaxQuantity /\ run.remaining % config.lot = 0
      /\ FrontOrder = FrontOf(book, Contra)
      /\ config.lot \in Nat \ {0}
  BY <1>2, InvFacts, RemovedCount, LotIsPositive DEF Exact, RunType, FrontOf, FrontOrder
<1>4. book.order[FrontOrder].qty % config.lot = 0
  BY <1>2, <1>3 DEF Exactly, Lots, WholeLot
<1>5. x \in Nat /\ x <= book.order[FrontOrder].qty /\ x % config.lot = 0
  BY <1>2, <1>3, <1>4, WidthAssumption DEF Min2
<1>6. \/ Abort
      \/ /\ book' = FilledFront(book, Contra, x)
         /\ run'.remaining = run.remaining - x
         /\ UNCHANGED <<config, phase>>
  BY <1>3, InvFacts DEF Trade, Emitted, RunType
<1> HIDE DEF x
<1>7. CASE Abort
  BY <1>2, <1>7, AbortExact
<1>8. CASE /\ book' = FilledFront(book, Contra, x)
           /\ run'.remaining = run.remaining - x
           /\ UNCHANGED <<config, phase>>
  <2>1. x <= book.order[FrontOf(book, Contra)].qty
    BY <1>3, <1>5
  <2>2. Exactly(book', config.lot)
    BY <2>1, <1>2, <1>3, <1>5, <1>8, FilledFrontExactly
  <2>3. run.remaining \in Int /\ x \in Int
    BY <1>3, <1>5, WidthAssumption
  <2>4. (run.remaining - x) % config.lot = 0
    BY <2>3, <1>3, <1>5, DifferenceOfMultiples
  <2> QED
    BY <2>2, <2>4, <1>8, ExactFrom
<1> QED
  BY <1>6, <1>7, <1>8

(* Cancelling one's own resting order takes its quantity off its level.    *)
LEMMA CancelOwnExact ==
  ASSUME Inv, Exact, CancelOwnResting
  PROVE  Exact'
<1>1. CanMatch
  BY DEF CancelOwnResting
<1>2. phase = "matching" /\ FrontOrder \in book.index
  BY <1>1, FrontFacts
<1>3. \/ Abort
      \/ /\ book' = Removed(book, FrontOrder)
         /\ run'.remaining = run.remaining
         /\ UNCHANGED <<config, phase>>
  BY InvFacts DEF CancelOwnResting, Emitted, RunType
<1>4. Sound(book) /\ Exactly(book, config.lot) /\ book.used > 0
  BY <1>2, InvFacts, RemovedCount DEF Exact
<1>5. ASSUME book' = Removed(book, FrontOrder) PROVE Exactly(book', config.lot)
  BY <1>2, <1>4, <1>5, RemovedExactly
<1> QED
  BY <1>2, <1>3, <1>5, AbortExact, ExactFrom DEF Exact

(* Stopping the aggressor touches no order.                                *)
LEMMA StopExact ==
  ASSUME Inv, Exact, StopAggressor
  PROVE  Exact'
<1>1. /\ UNCHANGED <<config, book, phase>> /\ run'.remaining = run.remaining
  BY InvFacts DEF StopAggressor, RunType
<1> QED
  BY <1>1, ExactFrom DEF Exact

(* A command without a residual to rest leaves an exact book.              *)
LEMMA CompleteExact ==
  ASSUME Inv, Exact, Complete
  PROVE  Exact'
<1>1. phase = "matching" /\ phase' = "done" /\ config' = config /\ book' = GivenUp
  BY DEF Complete, GivenUp
<1> QED
  BY <1>1, GivenUpExactly, ExactFrom

(* The residual that rests is what the fills have left of whole lots.      *)
LEMMA RestExact ==
  ASSUME Inv, Exact, RestResidual
  PROVE  Exact'
<1> DEFINE taken == IF op.kind = "add" THEN [book EXCEPT !.used = @ + 1] ELSE book
           b == Rested(taken, op.id, op.side, op.price, run.remaining, op.owner)
           n == NextSequence(book)
<1>1. phase = "matching" /\ Rests /\ phase' = "done" /\ config' = config
  BY DEF RestResidual
<1>2. /\ book \in BookType /\ book.seq \in 0..MaxSequence /\ book.used \in Nat
      /\ n \in 0..MaxSequence
      /\ Kept(book) /\ Exactly(book, config.lot)
  BY InvFacts, WidthAssumption DEF Sound, BookType, NextSequence, Min2, Exact
<1>3. \/ RestStatus = "Accepted" /\ book' = b
      \/ book' = [GivenUp EXCEPT !.seq = n] \/ book' = GivenUp
  BY DEF RestResidual, GivenUp
<1>4. /\ Exactly(GivenUp, config.lot) /\ Kept(GivenUp)
      /\ GivenUp \in BookType /\ GivenUp.used \in Nat
  BY <1>1, GivenUpExactly, GivenUpFacts, InvFacts DEF Kept, Sound, BookType
<1>5. CASE RestStatus = "Accepted" /\ book' = b
  <2>1. /\ op.id \in OrderId /\ op.id \notin book.index
        /\ op.side \in Side /\ op.price \in Price /\ op.owner \in Participant
        /\ run.remaining \in 0..MaxQuantity
        /\ run.remaining <= MaxQuantity - book.total[op.side][op.price]
    BY <1>1, <1>5, RestStatusFacts
  <2>2. WholeLot(run.remaining, config.lot)
    BY <2>1, <1>1 DEF Exact, WholeLot, Rests
  <2>3. Kept(taken) /\ taken.index = book.index /\ taken.total = book.total
        /\ Exactly(taken, config.lot)
    <3>1. CASE op.kind = "add"
      <4>1. taken = [book EXCEPT !.used = @ + 1]
        BY <3>1
      <4> HIDE DEF taken
      <4>2. Kept(taken) /\ taken.index = book.index /\ taken.total = book.total
        BY <4>1, <1>2, SlotTaken
      <4> DEFINE used == book.used + 1
                 seq == book.seq
      <4>3. taken = Recounted(book, used, seq)
        BY <4>1, <1>2 DEF BookType, Recounted
      <4>4. used \in Nat /\ seq \in 0..MaxSequence
        BY <1>2
      <4> HIDE DEF used, seq
      <4> QED
        BY <4>2, <4>3, <4>4, <1>2, RecountedExactly
    <3>2. CASE op.kind # "add"
      BY <3>2, <1>2
    <3> QED
      BY <3>1, <3>2
  <2> HIDE DEF taken
  <2>4. Sound(taken) /\ op.id \notin taken.index
        /\ run.remaining <= MaxQuantity - taken.total[op.side][op.price]
    BY <2>1, <2>3 DEF Kept
  <2>5. Exactly(b, config.lot)
    BY <2>1, <2>2, <2>3, <2>4, RestedExactly
  <2> QED
    BY <2>5, <1>1, <1>5, ExactFrom
<1>6. CASE book' = [GivenUp EXCEPT !.seq = n]
  <2> HIDE DEF n
  <2>1. book' = Recounted(GivenUp, GivenUp.used, n)
    BY <1>4, <1>6 DEF BookType, Recounted
  <2>2. Exactly(book', config.lot)
    BY <2>1, <1>2, <1>4, RecountedExactly
  <2> QED
    BY <2>2, <1>1, ExactFrom
<1>7. CASE book' = GivenUp
  BY <1>1, <1>4, <1>7, ExactFrom
<1> QED
  BY <1>3, <1>5, <1>6, <1>7

(* Between commands nothing changes the book.                              *)
LEMMA ReturnExact ==
  ASSUME Exact, Return
  PROVE  Exact'
  BY DEF Return, Exact

(* Every step keeps Exact.                                                 *)
LEMMA NextKeepsExact ==
  ASSUME Inv, Exact, [Next]_vars
  PROVE  Exact'
<1>1. CASE Command
  BY <1>1, AddExact, MarketExact, CancelExact, ModifyExact, ReplaceExact DEF Command
<1>2. CASE Execute
  BY <1>2, TradeExact, CancelOwnExact, StopExact, CompleteExact, RestExact DEF Execute
<1>3. CASE Return
  BY <1>3, ReturnExact
<1>4. CASE UNCHANGED vars
  BY <1>4 DEF vars, Exact
<1> QED
  BY <1>1, <1>2, <1>3, <1>4 DEF Next

(* Exact is an invariant.                                                  *)
LEMMA ExactInvariance == Spec => []Exact
<1>1. Init => Exact
  BY EmptyBookExactly DEF Init, Exact
<1> QED
  BY <1>1, Invariance, NextKeepsExact, PTL DEF Spec

(* The cached total of a level is always the sum of the orders queued      *)
(* there, and every one of them has quantity left, in whole lots: whatever *)
(* is filled, cancelled, reduced, replaced or added, no path subtracts     *)
(* twice or wraps (fill_front, remove_order, set_quantity_keep_priority,   *)
(* append).                                                                *)
THEOREM AggregatesAreAlwaysExact == Spec => []AggregatesAreExact
  BY ExactIsExact, ExactInvariance, Invariance, PTL

-----------------------------------------------------------------------------
(* Price-time priority: the queues keep the order of arrival and fills go  *)
(* to the front of the best of them. The invariant above says which queues *)
(* there are; here each is shown to be in sequence.                        *)

(* A sequence number drawn later, or after the counter saturated.          *)
Follows(m, n) == m < n \/ (m = MaxSequence /\ n = MaxSequence)

(* The queues are in sequence, and no node has a number that is yet to be  *)
(* drawn: a new order, whatever became of others, belongs at the tail.     *)
InSequence(b) ==
  \A s \in Side, p \in Price : \A i, j \in DOMAIN b.level[s][p] :
    i < j => Follows(b.order[b.level[s][p][i]].seq, b.order[b.level[s][p][j]].seq)
Drawn(b) == \A id \in OrderId : b.order[id].seq <= b.seq
Ordered(b) == InSequence(b) /\ Drawn(b)

-----------------------------------------------------------------------------
(* The operators of Book.                                                  *)

(* Changes that touch no queue and no number of a queued order.            *)
KeepsNumbers(b, c) ==
  /\ c.level = b.level /\ b.seq <= c.seq
  /\ \A id \in OrderId : c.order[id].seq <= b.order[id].seq
  /\ \A s \in Side, p \in Price : \A i \in DOMAIN b.level[s][p] :
       c.order[b.level[s][p][i]].seq = b.order[b.level[s][p][i]].seq

LEMMA SameQueuesOrdered ==
  ASSUME NEW b, NEW c, b \in BookType, c \in BookType, Ordered(b), KeepsNumbers(b, c)
  PROVE  Ordered(c)
<1>1. InSequence(c)
  BY DEF Ordered, InSequence, KeepsNumbers
<1>2. Drawn(c)
  <2> SUFFICES ASSUME NEW id \in OrderId PROVE c.order[id].seq <= c.seq
    BY DEF Drawn
  <2>1. /\ b.order[id].seq \in Int /\ c.order[id].seq \in Int
        /\ b.seq \in Int /\ c.seq \in Int
    BY WidthAssumption DEF BookType, Order
  <2>2. b.order[id].seq <= b.seq /\ c.order[id].seq <= b.order[id].seq
    BY DEF Ordered, Drawn, KeepsNumbers
  <2>3. b.seq <= c.seq
    BY DEF KeepsNumbers
  <2> QED
    BY <2>1, <2>2, <2>3
<1> QED
  BY <1>1, <1>2 DEF Ordered

(* A queue without one of its orders is in sequence.                       *)
LEMMA UnlinkedOrdered ==
  ASSUME NEW b, Sound(b), Ordered(b), NEW id \in b.index,
         NEW c, c = Unindexed(Unlinked(b, id), id)
  PROVE  Ordered(c)
<1>0. PICK s, p : s = b.order[id].side /\ p = b.order[id].price
  OBVIOUS
<1> DEFINE fifo == b.level[s][p]
           i == CHOOSE j \in DOMAIN fifo : fifo[j] = id
           rest == RemoveAt(fifo, i)
<1>1. s \in Side /\ p \in Price /\ fifo \in Seq(OrderId)
  BY <1>0, OrderPlace
<1>2. b \in BookType /\ IndexedAreQueued(b)
  BY DEF Sound
<1>3. i \in DOMAIN fifo
  BY <1>0, <1>2 DEF IndexedAreQueued
<1>4. /\ c.level = [b.level EXCEPT ![s][p] = rest]
      /\ c.order = b.order /\ c.seq = b.seq
  BY <1>0, <1>2 DEF Unindexed, Unlinked, BookType
<1> HIDE DEF i
<1>5. /\ rest \in Seq(OrderId) /\ Len(rest) = Len(fifo) - 1
      /\ \A j \in DOMAIN rest : rest[j] = IF j < i THEN fifo[j] ELSE fifo[j + 1]
  BY <1>1, <1>3, RemoveAtProperties
<1>6. /\ DOMAIN fifo = 1..Len(fifo) /\ DOMAIN rest = 1..(Len(fifo) - 1)
      /\ Len(fifo) \in Nat /\ i \in 1..Len(fifo)
  BY <1>1, <1>3, <1>5, LenProperties
<1> HIDE DEF fifo, rest
<1>7. /\ c.level[s][p] = rest
      /\ \A t \in Side, q \in Price :
           ~(t = s /\ q = p) => c.level[t][q] = b.level[t][q]
  BY <1>1, <1>2, <1>4 DEF BookType
<1>8. InSequence(c)
  <2> SUFFICES ASSUME NEW t \in Side, NEW q \in Price,
                      NEW j \in DOMAIN c.level[t][q], NEW k \in DOMAIN c.level[t][q], j < k
               PROVE  Follows(b.order[c.level[t][q][j]].seq, b.order[c.level[t][q][k]].seq)
    BY <1>4 DEF InSequence
  <2>1. CASE ~(t = s /\ q = p)
    <3>1. c.level[t][q] = b.level[t][q]
      BY <2>1, <1>7
    <3> QED
      BY <3>1 DEF Ordered, InSequence
  <2>2. CASE t = s /\ q = p
    <3> DEFINE from(n) == IF n < i THEN n ELSE n + 1
    <3>1. j \in 1..(Len(fifo) - 1) /\ k \in 1..(Len(fifo) - 1)
      BY <2>2, <1>6, <1>7
    <3>2. /\ from(j) \in DOMAIN fifo /\ from(k) \in DOMAIN fifo /\ from(j) < from(k)
      BY <3>1, <1>6
    <3>3. c.level[t][q][j] = fifo[from(j)] /\ c.level[t][q][k] = fifo[from(k)]
      BY <2>2, <3>1, <1>5, <1>6, <1>7
    <3> HIDE DEF from
    <3>4. Follows(b.order[fifo[from(j)]].seq, b.order[fifo[from(k)]].seq)
      BY <3>2, <1>1 DEF Ordered, InSequence, fifo
    <3> QED
      BY <3>3, <3>4
  <2> QED
    BY <2>1, <2>2
<1>9. Drawn(c)
  BY <1>4 DEF Ordered, Drawn
<1> QED
  BY <1>8, <1>9 DEF Ordered

(* Releasing a node that is queued nowhere.                                *)
LEMMA ReleasedOrdered ==
  ASSUME NEW b, Sound(b), Ordered(b), NEW id \in OrderId, id \notin b.index, b.used > 0,
         NEW c, c = Released(b, id)
  PROVE  Ordered(c)
<1>1. b \in BookType /\ QueuedAreIndexed(b) /\ c \in BookType
  BY ReleasedSound DEF Sound
<1>2. /\ c.order = [b.order EXCEPT ![id] = Blank]
      /\ c.level = b.level /\ c.seq = b.seq
  BY <1>1 DEF Released, BookType
<1>3. \A x \in OrderId : x # id => c.order[x] = b.order[x]
  BY <1>1, <1>2 DEF BookType
<1>4. c.order[id].seq = 0
  BY <1>1, <1>2 DEF BookType, Blank
<1>5. /\ b.seq \in Int
      /\ \A x \in OrderId : b.order[x].seq \in 0..MaxSequence
  BY <1>1, WidthAssumption DEF BookType, Order
<1>6. \A x \in OrderId : c.order[x].seq <= b.order[x].seq
  BY <1>3, <1>4, <1>5, WidthAssumption
<1>7. \A s \in Side, p \in Price : \A i \in DOMAIN b.level[s][p] :
        b.level[s][p][i] \in b.index /\ b.level[s][p][i] \in OrderId
  BY <1>1 DEF QueuedAreIndexed, BookType
<1>8. \A s \in Side, p \in Price : \A i \in DOMAIN b.level[s][p] :
        c.order[b.level[s][p][i]].seq = b.order[b.level[s][p][i]].seq
  BY <1>3, <1>7
<1>9. b.seq <= c.seq
  BY <1>2, <1>5
<1>10. KeepsNumbers(b, c)
  BY <1>2, <1>6, <1>8, <1>9 DEF KeepsNumbers
<1> QED
  BY <1>1, <1>10, SameQueuesOrdered

(* The whole removal of a resting order.                                   *)
LEMMA RemovedOrdered ==
  ASSUME NEW b, Sound(b), Ordered(b), NEW id \in b.index, Removable(b, id), b.used > 0,
         NEW c, c = Removed(b, id)
  PROVE  Ordered(c) /\ \A x \in OrderId : x # id => c.order[x] = b.order[x]
<1> DEFINE u == Unindexed(Unlinked(b, id), id)
<1>1. /\ Sound(u) /\ u.index = b.index \ {id} /\ u.used = b.used
      /\ id \in OrderId
  BY UnlinkedSound, OrderPlace
<1>2. Ordered(u)
  BY UnlinkedOrdered
<1>3. c = Released(u, id)
  BY DEF Removed
<1>4. u.order = b.order /\ u \in BookType
  BY <1>1, UnlinkedSound DEF Sound
<1> HIDE DEF u
<1>5. Ordered(c)
  BY <1>1, <1>2, <1>3, ReleasedOrdered
<1>6. c.order = [u.order EXCEPT ![id] = Blank]
  BY <1>3, <1>4 DEF Released, BookType
<1>7. \A x \in OrderId : x # id => c.order[x] = b.order[x]
  BY <1>4, <1>6 DEF BookType
<1> QED
  BY <1>5, <1>7

(* A change of a quantity and a total; no other node changes.              *)
LEMMA RequantifiedOrdered ==
  ASSUME NEW b, Sound(b), Ordered(b), NEW id \in b.index,
         NEW qty \in 0..MaxQuantity, NEW total \in 0..MaxQuantity,
         NEW s \in Side, NEW p \in Price,
         NEW c, c = Requantified(b, id, qty, s, p, total)
  PROVE  /\ Ordered(c)
         /\ c.order[id].qty = qty
         /\ \A x \in OrderId : x # id => c.order[x] = b.order[x]
<1>1. b \in BookType /\ c \in BookType /\ id \in OrderId
  <2>1. id \in OrderId
    BY OrderPlace
  <2>2. Sound(c)
    BY <2>1, RequantifiedSound
  <2> QED
    BY <2>1, <2>2 DEF Sound
<1>2. /\ c.order = [b.order EXCEPT ![id].qty = qty]
      /\ c.level = b.level /\ c.seq = b.seq
  BY <1>1 DEF Requantified, BookType
<1>3. c.order[id] = [b.order[id] EXCEPT !.qty = qty]
  BY <1>1, <1>2 DEF BookType
<1>4. b.order[id] \in Order
  BY <1>1 DEF BookType
<1>5. c.order[id].qty = qty /\ c.order[id].seq = b.order[id].seq
  BY <1>3, <1>4 DEF Order
<1>6. \A x \in OrderId : x # id => c.order[x] = b.order[x]
  BY <1>1, <1>2 DEF BookType
<1>7. \A x \in OrderId : c.order[x].seq = b.order[x].seq
  BY <1>5, <1>6
<1>8. /\ b.seq \in Int
      /\ \A x \in OrderId : b.order[x].seq \in 0..MaxSequence
  BY <1>1, WidthAssumption DEF BookType, Order
<1>9. \A x \in OrderId : c.order[x].seq <= b.order[x].seq
  BY <1>7, <1>8, WidthAssumption
<1>10. \A t \in Side, q \in Price : \A i \in DOMAIN b.level[t][q] : b.level[t][q][i] \in OrderId
  <2>1. b.level \in [Side -> [Price -> Seq(OrderId)]]
    BY <1>1 DEF BookType
  <2> QED
    BY <2>1, ElementOfSeq
<1>11. \A t \in Side, q \in Price : \A i \in DOMAIN b.level[t][q] :
         c.order[b.level[t][q][i]].seq = b.order[b.level[t][q][i]].seq
  BY <1>7, <1>10
<1>12. b.seq <= c.seq
  BY <1>2, <1>8
<1>13. KeepsNumbers(b, c)
  BY <1>2, <1>9, <1>11, <1>12 DEF KeepsNumbers
<1>14. Ordered(c)
  BY <1>1, <1>13, SameQueuesOrdered
<1> QED
  BY <1>5, <1>6, <1>14

(* reduce_order.                                                           *)
LEMMA ReducedOrdered ==
  ASSUME NEW b, Sound(b), Ordered(b), NEW id \in b.index, NEW qty \in 0..MaxQuantity,
         qty <= b.order[id].qty,
         b.order[id].qty - qty <= b.total[b.order[id].side][b.order[id].price],
         NEW c, c = Reduced(b, id, qty)
  PROVE  Ordered(c)
<1> DEFINE s == b.order[id].side
           p == b.order[id].price
           total == b.total[s][p] - (b.order[id].qty - qty)
<1>1. c = Requantified(b, id, qty, s, p, total)
  BY DEF Reduced, Requantified
<1>2. /\ b.order[id].qty \in 0..MaxQuantity
      /\ s \in Side /\ p \in Price
      /\ b.total[s][p] \in 0..MaxQuantity
  BY OrderPlace DEF Order
<1>3. total \in 0..MaxQuantity
  BY <1>2, WidthAssumption
<1> HIDE DEF s, p, total
<1> QED
  BY <1>1, <1>2, <1>3, RequantifiedOrdered

(* fill_front: whichever way it ends, no other node changes.               *)
LEMMA FilledFrontOrdered ==
  ASSUME NEW b, Sound(b), Ordered(b), NEW s \in Side, b.best[s] # NoPrice, b.used > 0,
         NEW x \in Nat, x <= b.order[Head(b.level[s][b.best[s]])].qty,
         NEW c, c = FilledFront(b, s, x)
  PROVE  /\ Ordered(c)
         /\ \A y \in OrderId :
              y # Head(b.level[s][b.best[s]]) => c.order[y] = b.order[y]
<1> DEFINE p == b.best[s]
           id == Head(b.level[s][p])
           qty == b.order[id].qty - x
           total == (b.total[s][p] - x) % (MaxQuantity + 1)
           after == Requantified(b, id, qty, s, p, total)
<1>1. c = IF after.order[id].qty = 0 THEN Removed(after, id) ELSE after
  BY DEF FilledFront, Requantified
<1>2. /\ p \in Price /\ id \in b.index
      /\ b.order[id].side = s /\ b.order[id].price = p
      /\ b.total[s][p] \in 0..MaxQuantity
  BY FrontIsIndexed
<1>3. b.order[id].qty \in 0..MaxQuantity
  BY <1>2, OrderPlace DEF Order
<1>4. qty \in 0..MaxQuantity
  <2>1. x <= b.order[id].qty
    OBVIOUS
  <2> HIDE DEF id
  <2> QED
    BY <2>1, <1>3, WidthAssumption
<1>5. total \in 0..MaxQuantity
  <2> DEFINE held == b.total[s][p]
  <2>1. held \in 0..MaxQuantity
    BY <1>2
  <2> HIDE DEF held
  <2>2. held - x \in Int /\ MaxQuantity + 1 \in Nat \ {0}
    BY <2>1, WidthAssumption
  <2>3. (held - x) % (MaxQuantity + 1) \in 0..((MaxQuantity + 1) - 1)
    BY <2>2, ModRange
  <2> QED
    BY <2>3, WidthAssumption DEF held
<1>6. after = Requantified(b, id, qty, s, p, total)
  OBVIOUS
<1>7. \A y \in OrderId : y # Head(b.level[s][b.best[s]]) <=> y # id
  OBVIOUS
<1> HIDE DEF p, id, qty, total, after
<1>8. /\ Sound(after) /\ after.index = b.index /\ after.used = b.used
      /\ after.order[id].side = s /\ after.order[id].price = p
      /\ after.order[id].qty = qty /\ after.total[s][p] = total
  <2>1. id \in OrderId
    BY <1>2, OrderPlace
  <2> QED
    BY <2>1, <1>2, <1>4, <1>5, <1>6, RequantifiedSound
<1>9. Ordered(after) /\ \A y \in OrderId : y # id => after.order[y] = b.order[y]
  BY <1>2, <1>4, <1>5, <1>6, RequantifiedOrdered
<1>10. CASE qty = 0
  <2>1. Removable(after, id)
    BY <1>5, <1>8, <1>10 DEF Removable
  <2>2. c = Removed(after, id)
    BY <1>1, <1>8, <1>10
  <2>3. Ordered(c) /\ \A y \in OrderId : y # id => c.order[y] = after.order[y]
    BY <2>1, <2>2, <1>2, <1>8, <1>9, RemovedOrdered
  <2> QED
    BY <2>3, <1>7, <1>9
<1>11. CASE qty # 0
  <2>1. c = after
    BY <1>1, <1>8, <1>11
  <2> QED
    BY <2>1, <1>7, <1>9
<1> QED
  BY <1>10, <1>11

(* The counter may be drawn from, and the slots be counted, at any time.   *)
LEMMA RecountedOrdered ==
  ASSUME NEW b, Kept(b), Ordered(b), NEW used \in Nat, NEW seq \in 0..MaxSequence,
         b.seq <= seq, NEW c, c = Recounted(b, used, seq)
  PROVE  Ordered(c) /\ c.order = b.order /\ c.seq = seq
<1>1. b \in BookType /\ c \in BookType /\ c.level = b.level
  BY SlotsAndSequence DEF Kept, Sound
<1>2. c.order = b.order /\ c.seq = seq
  BY <1>1 DEF BookType, Recounted
<1>3. \A id \in OrderId : c.order[id].seq <= b.order[id].seq
  <2>1. \A id \in OrderId : b.order[id].seq \in 0..MaxSequence
    BY <1>1 DEF BookType, Order
  <2> QED
    BY <2>1, <1>2, WidthAssumption
<1>4. b.seq <= c.seq
  BY <1>2
<1>5. \A s \in Side, p \in Price : \A i \in DOMAIN b.level[s][p] :
        c.order[b.level[s][p][i]].seq = b.order[b.level[s][p][i]].seq
  BY <1>2
<1>6. KeepsNumbers(b, c)
  BY <1>1, <1>3, <1>4, <1>5 DEF KeepsNumbers
<1> QED
  BY <1>1, <1>2, <1>6, SameQueuesOrdered

(* The next number is as large as any drawn, and larger than those that    *)
(* are not the largest there is.                                           *)
LEMMA NextFollows ==
  ASSUME NEW b, b \in BookType, Drawn(b), NEW id \in OrderId
  PROVE  /\ b.order[id].seq <= NextSequence(b)
         /\ b.seq <= NextSequence(b)
         /\ NextSequence(b) \in 0..MaxSequence
         /\ Follows(b.order[id].seq, NextSequence(b))
<1>1. b.seq \in 0..MaxSequence /\ b.order[id].seq \in 0..MaxSequence
  BY DEF BookType, Order
<1>2. b.order[id].seq <= b.seq
  BY DEF Drawn
<1> QED
  BY <1>1, <1>2, WidthAssumption DEF NextSequence, Min2, Follows

(* An order that is not in the book goes behind all others of its level.   *)
LEMMA RestedOrdered ==
  ASSUME NEW b, Sound(b), Ordered(b), NEW id \in OrderId, id \notin b.index,
         NEW s \in Side, NEW p \in Price, NEW qty \in 0..MaxQuantity,
         NEW owner \in Participant,
         NEW c, c = Rested(b, id, s, p, qty, owner)
  PROVE  Ordered(c)
<1> DEFINE fifo == b.level[s][p]
           tail == Append(fifo, id)
           n == NextSequence(b)
<1>1. b \in BookType /\ QueuedAreIndexed(b) /\ fifo \in Seq(OrderId)
  BY DEF Sound, BookType
<1>2. /\ c.level = [b.level EXCEPT ![s][p] = tail]
      /\ c.order = [b.order EXCEPT ![id] = [side |-> s, price |-> p, qty |-> qty,
                                             seq |-> n, owner |-> owner]]
      /\ c.seq = n
  BY <1>1 DEF Rested, BookType
<1>3. /\ c.order[id].seq = n
      /\ \A x \in OrderId : x # id => c.order[x] = b.order[x]
  BY <1>1, <1>2 DEF BookType
<1>4. /\ DOMAIN fifo = 1..Len(fifo) /\ DOMAIN tail = 1..(Len(fifo) + 1) /\ Len(fifo) \in Nat
      /\ \A i \in 1..Len(fifo) : tail[i] = fifo[i]
      /\ tail[Len(fifo) + 1] = id
  BY <1>1, AppendProperties, LenProperties, SMTT(30)
<1>5. /\ c.level[s][p] = tail
      /\ \A t \in Side, q \in Price :
           ~(t = s /\ q = p) => c.level[t][q] = b.level[t][q]
  BY <1>1, <1>2 DEF BookType
<1>6. /\ \A x \in OrderId : /\ b.order[x].seq <= n
                            /\ Follows(b.order[x].seq, n)
      /\ n \in 0..MaxSequence
  BY <1>1, NextFollows DEF Ordered
<1>7. \A t \in Side, q \in Price : \A i \in DOMAIN b.level[t][q] :
        /\ b.level[t][q][i] \in OrderId
        /\ c.order[b.level[t][q][i]] = b.order[b.level[t][q][i]]
  <2>1. \A t \in Side, q \in Price : \A i \in DOMAIN b.level[t][q] :
          b.level[t][q][i] \in b.index /\ b.level[t][q][i] \in OrderId
    BY <1>1 DEF QueuedAreIndexed, BookType
  <2> QED
    BY <2>1, <1>3
<1> HIDE DEF fifo, tail, n
<1>8. Drawn(c)
  <2> SUFFICES ASSUME NEW x \in OrderId PROVE c.order[x].seq <= n
    BY <1>2 DEF Drawn
  <2> QED
    BY <1>3, <1>6
<1>9. InSequence(c)
  <2> SUFFICES ASSUME NEW t \in Side, NEW q \in Price,
                      NEW i \in DOMAIN c.level[t][q], NEW j \in DOMAIN c.level[t][q], i < j
               PROVE  Follows(c.order[c.level[t][q][i]].seq, c.order[c.level[t][q][j]].seq)
    BY DEF InSequence
  <2>1. CASE ~(t = s /\ q = p)
    <3>1. c.level[t][q] = b.level[t][q]
      BY <2>1, <1>5
    <3> QED
      BY <3>1, <1>7 DEF Ordered, InSequence
  <2>2. CASE t = s /\ q = p
    <3>1. /\ c.level[t][q] = tail /\ i \in 1..Len(fifo) /\ tail[i] = fifo[i]
          /\ j \in 1..(Len(fifo) + 1)
      BY <2>2, <1>4, <1>5
    <3>2. fifo[i] \in OrderId /\ c.order[fifo[i]] = b.order[fifo[i]]
      BY <3>1, <1>4, <1>7 DEF fifo
    <3>3. CASE j \in 1..Len(fifo)
      <4>1. tail[j] = fifo[j] /\ c.order[fifo[j]] = b.order[fifo[j]]
        BY <3>3, <1>4, <1>7 DEF fifo
      <4>2. Follows(b.order[fifo[i]].seq, b.order[fifo[j]].seq)
        BY <3>1, <3>3, <1>4 DEF Ordered, InSequence, fifo
      <4> QED
        BY <3>1, <3>2, <4>1, <4>2
    <3>4. CASE j = Len(fifo) + 1
      <4>1. tail[j] = id
        BY <3>4, <1>4
      <4>2. Follows(b.order[fifo[i]].seq, n)
        BY <3>2, <1>6
      <4> QED
        BY <3>1, <3>2, <4>1, <4>2, <1>3
    <3> QED
      BY <3>1, <3>3, <3>4, <1>4
  <2> QED
    BY <2>1, <2>2
<1> QED
  BY <1>8, <1>9 DEF Ordered

-----------------------------------------------------------------------------
(* The steps of OrderBook, one lemma for each change they make to a book.  *)

(* A resting order leaves, or is reduced, at once.                         *)
LEMMA LeavingKeepsOrder ==
  ASSUME Inv, Ordered(book), NEW id \in book.index,
         \/ Removable(book, id) /\ book' = Removed(book, id)
         \/ book' = Unindexed(Unlinked(book, id), id)
  PROVE  Ordered(book')
<1>1. Sound(book) /\ book.used > 0
  BY InvFacts, RemovedCount
<1> QED
  BY <1>1, RemovedOrdered, UnlinkedOrdered

(* modify_order and in-place replacement reduce an order where it is.      *)
LEMMA ReduceKeepsOrder ==
  ASSUME Inv, Ordered(book), NEW id \in book.index, NEW qty \in 0..MaxQuantity,
         qty < book.order[id].qty, Reduce(id, qty)
  PROVE  Ordered(book')
<1> DEFINE s == book.order[id].side
           p == book.order[id].price
<1>1. CASE book.order[id].qty - qty > book.total[s][p]
  BY <1>1 DEF Reduce, Report
<1>2. CASE ~(book.order[id].qty - qty > book.total[s][p])
  <2>1. book' = Reduced(book, id, qty)
    BY <1>2 DEF Reduce, Apply
  <2>2. /\ book.order[id].qty \in 0..MaxQuantity
        /\ book.total[s][p] \in 0..MaxQuantity
    BY InvFacts, OrderPlace DEF Order
  <2>3. /\ qty <= book.order[id].qty
        /\ book.order[id].qty - qty <= book.total[s][p]
    BY <2>2, <1>2, WidthAssumption
  <2> QED
    BY <2>1, <2>3, InvFacts, ReducedOrdered
<1> QED
  BY <1>1, <1>2

(* The commands, up to the matching loop.                                  *)
LEMMA CommandKeepsOrder ==
  ASSUME Inv, Ordered(book), Command
  PROVE  Ordered(book')
<1>1. CASE book' = book
  BY <1>1
<1>2. ASSUME NEW id \in OrderId, CancelOrder(id) PROVE Ordered(book')
  <2>1. \/ book' = book
        \/ id \in book.index /\ Removable(book, id) /\ book' = Removed(book, id)
    BY <1>2 DEF CancelOrder, Report, Refuse, Apply
  <2> QED
    BY <2>1, LeavingKeepsOrder
<1>3. ASSUME NEW id \in OrderId, NEW qty \in QuantityInput, ModifyOrder(id, qty)
      PROVE  Ordered(book')
  <2>1. qty \in 0..MaxQuantity
    BY InputAssumption
  <2>2. \/ book' = book
        \/ id \in book.index /\ qty < book.order[id].qty /\ Reduce(id, qty)
    BY <1>3 DEF ModifyOrder, Report, Refuse
  <2> QED
    BY <2>1, <2>2, ReduceKeepsOrder
<1>4. ASSUME NEW id \in OrderId, NEW price \in PriceInput, NEW qty \in QuantityInput,
             NEW tif \in TimeInForce \cup {BadTimeInForce}, NEW postOnly \in BOOLEAN,
             ReplaceOrder(id, price, qty, tif, postOnly)
      PROVE  Ordered(book')
  <2> DEFINE old == book.order[id]
             o == [kind |-> "replace", id |-> id, side |-> old.side, price |-> price,
                   qty |-> qty, tif |-> tif, postOnly |-> postOnly, owner |-> old.owner]
  <2>1. qty \in 0..MaxQuantity
    BY InputAssumption
  <2>2. \/ book' = book
        \/ id \in book.index /\ qty < book.order[id].qty /\ Reduce(id, qty)
        \/ id \in book.index /\ LeaveForReentry(o, Plan(o))
    BY <1>4 DEF ReplaceOrder, Report, Refuse
  <2>3. CASE id \in book.index /\ LeaveForReentry(o, Plan(o))
    <3>1. o.id = id
      OBVIOUS
    <3>2. book' = book \/ book' = Unindexed(Unlinked(book, id), id)
      BY <2>3, <3>1 DEF LeaveForReentry, Report
    <3> QED
      BY <2>3, <3>2, LeavingKeepsOrder
  <2> QED
    BY <2>1, <2>2, <2>3, ReduceKeepsOrder
<1>5. ASSUME NEW id \in OrderId \cup {InvalidId}, NEW s \in Side, NEW price \in PriceInput,
             NEW qty \in QuantityInput, NEW tif \in TimeInForce \cup {BadTimeInForce},
             NEW postOnly \in BOOLEAN, NEW owner \in Participant,
             AddLimitOrder(id, s, price, qty, tif, postOnly, owner)
      PROVE  book' = book
  BY <1>5 DEF AddLimitOrder, Report, Refuse
<1>6. ASSUME NEW s \in Side, NEW qty \in QuantityInput, NEW owner \in Participant,
             MatchMarketOrder(s, qty, owner)
      PROVE  book' = book
  BY <1>6 DEF MatchMarketOrder, Report, Refuse
<1> QED
  BY <1>1, <1>2, <1>3, <1>4, <1>5, <1>6 DEF Command

(* A replaced order that is given up gives up a node that is not queued.   *)
LEMMA GivenUpOrdered ==
  ASSUME Inv, Ordered(book), phase = "matching"
  PROVE  Ordered(GivenUp) /\ GivenUp.seq = book.seq
<1>1. CASE op.kind = "replace"
  <2>1. /\ op.id \in OrderId /\ op.id \notin book.index
        /\ book.used > 0 /\ Sound(book)
    BY <1>1, InvFacts DEF Inv, OpIsPlaceable, Relisting
  <2>2. GivenUp = Released(book, op.id)
    BY <1>1 DEF GivenUp
  <2>3. GivenUp.seq = book.seq
    BY <2>1, <2>2 DEF Sound, BookType, Released
  <2> QED
    BY <2>1, <2>2, <2>3, ReleasedOrdered
<1>2. CASE op.kind # "replace"
  BY <1>2 DEF GivenUp
<1> QED
  BY <1>1, <1>2

(* What a fill changes, if it is one.                                      *)
LEMMA TradeKeepsOrder ==
  ASSUME Inv, Ordered(book), Trade, ~Abort
  PROVE  /\ CanMatch
         /\ Ordered(book')
         /\ \A id \in OrderId : id # FrontOrder => book'.order[id] = book.order[id]
<1> DEFINE x == Min2(run.remaining, book.order[FrontOrder].qty)
<1>1. CanMatch /\ book' = FilledFront(book, Contra, x)
  BY DEF Trade
<1>2. run.remaining \in 0..MaxQuantity
  BY InvFacts DEF RunType
<1>3. /\ Contra \in Side /\ book.best[Contra] # NoPrice
      /\ FrontOrder \in book.index
      /\ book.order[FrontOrder].qty \in 0..MaxQuantity
  BY <1>1, FrontFacts
<1>4. x \in Nat /\ x <= book.order[FrontOrder].qty
  <2> HIDE DEF FrontOrder
  <2>1. run.remaining \in Nat /\ book.order[FrontOrder].qty \in Nat
    BY <1>2, <1>3, WidthAssumption
  <2> QED
    BY <2>1 DEF Min2
<1>5. Sound(book) /\ book.used > 0
  BY <1>3, InvFacts, RemovedCount
<1>6. FrontOrder = Head(book.level[Contra][book.best[Contra]])
  BY DEF FrontOrder
<1>7. x <= book.order[Head(book.level[Contra][book.best[Contra]])].qty
  BY <1>4, <1>6
<1> HIDE DEF x
<1>8. /\ Ordered(book')
      /\ \A y \in OrderId :
           y # Head(book.level[Contra][book.best[Contra]]) => book'.order[y] = book.order[y]
  BY <1>1, <1>3, <1>4, <1>5, <1>7, FilledFrontOrdered, ZenonT(40)
<1> QED
  BY <1>1, <1>6, <1>8

(* A residual rests at the back of its queue, or nowhere.                  *)
LEMMA RestKeepsOrder ==
  ASSUME Inv, Ordered(book), RestResidual
  PROVE  Ordered(book')
<1> DEFINE taken == IF op.kind = "add" THEN [book EXCEPT !.used = @ + 1] ELSE book
           b == Rested(taken, op.id, op.side, op.price, run.remaining, op.owner)
           n == NextSequence(book)
<1>1. phase = "matching" /\ Rests
  BY DEF RestResidual
<1>2. /\ book \in BookType /\ book.seq \in 0..MaxSequence /\ book.used \in Nat
      /\ Kept(book)
  BY InvFacts DEF Sound, BookType
<1>3. \/ RestStatus = "Accepted" /\ book' = b
      \/ book' = [GivenUp EXCEPT !.seq = n] \/ book' = GivenUp
  BY DEF RestResidual, GivenUp
<1>4. CASE RestStatus = "Accepted" /\ book' = b
  <2>1. /\ op.id \in OrderId /\ op.id \notin book.index
        /\ op.side \in Side /\ op.price \in Price /\ op.owner \in Participant
        /\ run.remaining \in 0..MaxQuantity
    BY <1>1, <1>4, RestStatusFacts
  <2>2. Sound(taken) /\ Ordered(taken) /\ taken.index = book.index
    <3>1. CASE op.kind = "add"
      <4> DEFINE used == book.used + 1
      <4>1. used \in Nat /\ book.seq <= book.seq
        BY <1>2
      <4>2. taken = Recounted(book, used, book.seq)
        BY <1>2, <3>1 DEF BookType, Recounted
      <4> HIDE DEF taken, used
      <4>3. Ordered(taken)
        BY <4>1, <4>2, <1>2, RecountedOrdered
      <4>4. Kept(taken) /\ taken.index = book.index
        BY <4>1, <4>2, <1>2, SlotsAndSequence
      <4> QED
        BY <4>3, <4>4 DEF Kept
    <3>2. CASE op.kind # "add"
      BY <3>2, <1>2 DEF Kept
    <3> QED
      BY <3>1, <3>2
  <2> HIDE DEF taken
  <2> QED
    BY <2>1, <2>2, <1>4, RestedOrdered
<1>5. CASE book' = [GivenUp EXCEPT !.seq = n] \/ book' = GivenUp
  <2>1. /\ Kept(GivenUp) /\ GivenUp \in BookType /\ GivenUp.used \in Nat
        /\ Ordered(GivenUp) /\ GivenUp.seq = book.seq
    BY <1>1, GivenUpFacts, GivenUpOrdered DEF Kept, Sound, BookType
  <2>2. n \in 0..MaxSequence /\ book.seq <= n
    BY <1>2, WidthAssumption DEF NextSequence, Min2
  <2> HIDE DEF n
  <2>3. CASE book' = [GivenUp EXCEPT !.seq = n]
    <3>1. book' = Recounted(GivenUp, GivenUp.used, n)
      BY <2>1, <2>3 DEF BookType, Recounted
    <3> QED
      BY <3>1, <2>1, <2>2, RecountedOrdered
  <2> QED
    BY <2>1, <2>3, <1>5
<1> QED
  BY <1>3, <1>4, <1>5

(* Every step keeps the queues in sequence.                                *)
LEMMA NextKeepsOrder ==
  ASSUME Inv, Ordered(book), [Next]_vars
  PROVE  Ordered(book')
<1>1. CASE Command
  BY <1>1, CommandKeepsOrder
<1>2. CASE phase = "matching" /\ book' = GivenUp
  BY <1>2, GivenUpOrdered
<1>3. CASE Trade
  <2>1. CASE Abort
    BY <2>1, <1>2, <1>3 DEF Abort, GivenUp, Trade, CanMatch
  <2> QED
    BY <2>1, <1>3, TradeKeepsOrder
<1>4. CASE CancelOwnResting
  <2>1. CanMatch /\ FrontOrder \in book.index
    BY <1>4, FrontFacts DEF CancelOwnResting
  <2>2. \/ phase = "matching" /\ book' = GivenUp
        \/ Removable(book, FrontOrder) /\ book' = Removed(book, FrontOrder)
    BY <1>4, <2>1 DEF CancelOwnResting, Abort, GivenUp, CanMatch
  <2> QED
    BY <2>1, <2>2, <1>2, LeavingKeepsOrder
<1>5. CASE Complete
  BY <1>2, <1>5 DEF Complete, GivenUp
<1>6. CASE RestResidual
  BY <1>6, RestKeepsOrder
<1>7. CASE StopAggressor \/ Return \/ UNCHANGED vars
  BY <1>7 DEF StopAggressor, Return, vars
<1> QED
  BY <1>1, <1>3, <1>4, <1>5, <1>6, <1>7 DEF Next, Execute

(* A book without orders is in sequence.                                   *)
LEMMA EmptyBookOrdered == Ordered(EmptyBook)
<1>1. \A s \in Side, p \in Price : EmptyBook.level[s][p] = <<>>
  BY DEF EmptyBook
<1>2. InSequence(EmptyBook)
  BY <1>1, EmptySeq DEF InSequence
<1>3. Drawn(EmptyBook)
  BY DEF Drawn, EmptyBook, Blank
<1> QED
  BY <1>2, <1>3 DEF Ordered

-----------------------------------------------------------------------------
(* Fills.                                                                  *)

(* A command that is not in the matching loop has no fills.                *)
LEMMA CommandsDoNotFill ==
  ASSUME Command
  PROVE  run'.fills = 0
<1>1. \A q, n : Emitted([NoRun EXCEPT !.remaining = q], n).fills = 0 /\ Emitted(NoRun, n).fills = 0
  BY DEF NoRun, Emitted
<1>2. ASSUME NEW id \in OrderId, CancelOrder(id) PROVE run'.fills = 0
  BY <1>1, <1>2 DEF CancelOrder, Apply, Report, Refuse, Answer
<1>3. ASSUME NEW id \in OrderId, NEW qty \in QuantityInput, Reduce(id, qty)
      PROVE  run'.fills = 0
  BY <1>1, <1>3 DEF Reduce, Apply, Report, Answer
<1>4. ASSUME NEW id \in OrderId, NEW qty \in QuantityInput, ModifyOrder(id, qty)
      PROVE  run'.fills = 0
  BY <1>1, <1>3, <1>4 DEF ModifyOrder, Report, Refuse, Answer
<1>5. ASSUME NEW id \in OrderId, NEW price \in PriceInput, NEW qty \in QuantityInput,
             NEW tif \in TimeInForce \cup {BadTimeInForce}, NEW postOnly \in BOOLEAN,
             ReplaceOrder(id, price, qty, tif, postOnly)
      PROVE  run'.fills = 0
  BY <1>1, <1>3, <1>5 DEF ReplaceOrder, LeaveForReentry, Enter, Report, Refuse, Answer
<1>6. ASSUME NEW id \in OrderId \cup {InvalidId}, NEW s \in Side, NEW price \in PriceInput,
             NEW qty \in QuantityInput, NEW tif \in TimeInForce \cup {BadTimeInForce},
             NEW postOnly \in BOOLEAN, NEW owner \in Participant,
             AddLimitOrder(id, s, price, qty, tif, postOnly, owner)
      PROVE  run'.fills = 0
  BY <1>1, <1>6 DEF AddLimitOrder, Enter, Report, Refuse, Answer
<1>7. ASSUME NEW s \in Side, NEW qty \in QuantityInput, NEW owner \in Participant,
             MatchMarketOrder(s, qty, owner)
      PROVE  run'.fills = 0
  BY <1>1, <1>7 DEF MatchMarketOrder, Enter, Report, Refuse, Answer
<1> QED
  BY <1>2, <1>4, <1>5, <1>6, <1>7 DEF Command

(* No other action than Trade counts a fill.                               *)
LEMMA OnlyTradesFill ==
  ASSUME Inv, [Next]_vars, run'.fills > run.fills
  PROVE  Trade /\ ~Abort
<1>1. run \in RunType /\ run.fills \in Nat
  BY InvFacts DEF RunType
<1>2. run' # run /\ run'.fills # 0
  BY <1>1
<1>3. run'.fills # run.fills
  BY <1>1
<1>4. \A n : Emitted(run, n).fills = run.fills
  BY <1>1 DEF Emitted, RunType
<1>5. ~Abort
  BY <1>2 DEF Abort
<1>6. ~Command
  BY <1>2, CommandsDoNotFill
<1>7. ~CancelOwnResting
  <2> DEFINE r == [run EXCEPT !.cancels = @ + 1,
                              !.stopped = config.policy = "CancelBoth"]
  <2>1. r.fills = run.fills
    BY <1>1 DEF RunType
  <2>2. Emitted(r, 1).fills = r.fills
    BY <1>1 DEF Emitted, RunType
  <2>3. CancelOwnResting => Abort \/ run' = Emitted(r, 1)
    BY DEF CancelOwnResting
  <2> QED
    BY <2>1, <2>2, <2>3, <1>3, <1>5
<1>8. ~StopAggressor
  <2>1. \A b : [run EXCEPT !.stopped = b].fills = run.fills
    BY <1>1 DEF RunType
  <2> QED
    BY <2>1, <1>3 DEF StopAggressor
<1>9. ~Complete /\ ~RestResidual
  BY <1>2, <1>3, <1>4, <1>5 DEF Complete, RestResidual
<1>10. ~Return /\ ~UNCHANGED vars
  BY <1>2 DEF Return, vars, NoRun
<1> QED
  BY <1>5, <1>6, <1>7, <1>8, <1>9, <1>10 DEF Next, Execute

(* The front order of the best level has priority over its side.           *)
LEMMA FrontHasPriority ==
  ASSUME Inv, Ordered(book), CanMatch, NEW other \in book.index, other # FrontOrder,
         book.order[other].side = book.order[FrontOrder].side
  PROVE  ~Precedes(book.order[other], book.order[FrontOrder])
<1> DEFINE s == Contra
           p == book.best[s]
           q == book.order[other].price
           fifo == book.level[s][p]
<1>1. /\ s \in Side /\ p \in Price /\ p # NoPrice
      /\ book.order[FrontOrder].side = s /\ book.order[FrontOrder].price = p
      /\ FrontOrder \in book.index /\ FrontOrder = Head(fifo)
  BY FrontFacts DEF FrontOrder
<1>2. /\ book \in BookType /\ BestIsCached(book) /\ IndexedAreQueued(book)
      /\ Sound(book)
  BY InvFacts DEF Sound
<1>3. other \in OrderId /\ q \in Price /\ book.order[other].side = s
  BY <1>1, <1>2, OrderPlace
<1>4. /\ FrontOrder \in OrderId
      /\ book.order[other].seq \in Int /\ book.order[FrontOrder].seq \in Int
  <2>1. FrontOrder \in OrderId
    BY <1>1, <1>2, OrderPlace
  <2>2. \A x \in OrderId : book.order[x].seq \in 0..MaxSequence
    BY <1>2 DEF BookType, Order
  <2> QED
    BY <2>1, <2>2, <1>3, WidthAssumption
<1>5. PICK j \in DOMAIN book.level[s][q] : book.level[s][q][j] = other
  BY <1>2, <1>3 DEF IndexedAreQueued
<1>6. book.level[s][q] \in Seq(OrderId) /\ fifo \in Seq(OrderId)
  BY <1>1, <1>2, <1>3 DEF BookType
<1> HIDE DEF s, p, q
<1>7. ~Better(s, q, p)
  <2>1. book.level[s][q] # <<>>
    BY <1>5, <1>6, EmptySeq
  <2>2. q \in Occupied(book, s)
    BY <2>1, <1>3 DEF Occupied
  <2> QED
    BY <2>2, <1>1, <1>2 DEF BestIsCached, p
<1>8. ASSUME q = p PROVE ~(book.order[other].seq < book.order[FrontOrder].seq)
  <2>1. /\ j \in 1..Len(fifo) /\ Len(fifo) \in Nat
        /\ DOMAIN fifo = 1..Len(fifo) /\ fifo[j] = other
    BY <1>5, <1>6, <1>8, LenProperties
  <2>2. 1 \in DOMAIN fifo /\ fifo[1] = FrontOrder
    <3>1. fifo # <<>>
      BY <2>1, EmptySeq
    <3>2. Head(fifo) = fifo[1]
      BY <3>1, <1>6, HeadTailProperties
    <3> QED
      BY <3>2, <2>1, <1>1
  <2> HIDE DEF fifo
  <2>3. 1 < j
    BY <2>1, <2>2
  <2>4. Follows(book.order[FrontOrder].seq, book.order[other].seq)
    BY <2>1, <2>2, <2>3, <1>1 DEF Ordered, InSequence, fifo
  <2> QED
    BY <2>4, <1>4 DEF Follows
<1> QED
  BY <1>1, <1>3, <1>7, <1>8 DEF Precedes, q

-----------------------------------------------------------------------------

(* The invariant and the order of the queues.                              *)
LEMMA AlwaysOrdered == Spec => [](Inv /\ Ordered(book))
<1>1. Init => Inv /\ Ordered(book)
  BY InitEstablishesInv, EmptyBookOrdered DEF Init
<1>2. Inv /\ Ordered(book) /\ [Next]_vars => (Inv /\ Ordered(book))'
  BY NextKeepsInv, NextKeepsOrder
<1> QED
  BY <1>1, <1>2, PTL DEF Spec

(* Within a level the queue is in the order of arrival, whatever was       *)
(* filled, cancelled, reduced, replaced or added: OrderBook's FIFO.        *)
THEOREM QueuesAlwaysInSequence == Spec => []FifoBySequence
<1>1. Ordered(book) => FifoBySequence
  BY DEF Ordered, InSequence, Follows, FifoBySequence
<1> QED
  BY <1>1, AlwaysOrdered, PTL

(* A fill takes quantity only from the order with price-time priority over *)
(* every other on its side: match_against's choice of the front order.     *)
THEOREM PriorityIsAlwaysRespected == Spec => FillsRespectPriority
<1> DEFINE Taken(id) == book'.order[id].qty < book.order[id].qty
<1>1. ASSUME Inv, Ordered(book), [Next]_vars, run'.fills > run.fills,
             NEW id \in book.index, Taken(id),
             NEW other \in book.index \ {id},
             book.order[other].side = book.order[id].side
      PROVE  ~Precedes(book.order[other], book.order[id])
  <2>1. /\ CanMatch
        /\ \A x \in OrderId : x # FrontOrder => book'.order[x] = book.order[x]
    <3>1. Trade /\ ~Abort
      BY <1>1, OnlyTradesFill
    <3> QED
      BY <1>1, <3>1, TradeKeepsOrder
  <2>2. id \in OrderId /\ book.order[id].qty \in Int
    <3>1. id \in OrderId /\ book.order[id] \in Order
      BY <1>1, InvFacts, OrderPlace
    <3> QED
      BY <3>1, WidthAssumption DEF Order
  <2>3. book'.order[id] # book.order[id]
    BY <1>1, <2>2
  <2>4. id = FrontOrder
    BY <2>1, <2>2, <2>3
  <2> QED
    BY <1>1, <2>1, <2>4, FrontHasPriority
<1>2. Inv /\ Ordered(book) /\ [Next]_vars =>
        [run'.fills > run.fills =>
           \A id \in book.index :
             book'.order[id].qty < book.order[id].qty =>
               \A other \in book.index \ {id} :
                 book.order[other].side = book.order[id].side =>
                   ~Precedes(book.order[other], book.order[id])]_vars
  BY <1>1
<1> QED
  BY <1>2, AlwaysOrdered, PTL DEF Spec, FillsRespectPriority

-----------------------------------------------------------------------------
(* What a command foresees, and that it comes about. Before the first fill *)
(* the preflight walks the other side of the book and the command checks   *)
(* room for everything that will follow; then the matching loop runs and   *)
(* fails nowhere. The theorems say, for every value of the constants, that *)
(* the walk computes what the loop does, that the residual it leaves has   *)
(* the room it was promised, and that neither log runs out on the way.     *)
(* Three inductive invariants, each resting on those before it (Inv and    *)
(* Exact above come first): Foresight, Placement, Reserve.                 *)

(* How far the matching loop has come, as the walk of the preflight counts *)
(* it.                                                                     *)
Acc == [remaining |-> run.remaining, executable |-> run.executed, fills |-> run.fills,
        cancels |-> run.cancels, stopped |-> run.stopped]

(* Plan takes the executable quantity of such a command from the levels'   *)
(* totals, not from the walk.                                              *)
CountsLevels == op.kind = "add" /\ config.policy = "Disabled"

(* What the loop has done and what a walk from here would foresee make the *)
(* plan.                                                                   *)
Foreseen ==
  LET w == Outlook(book, Contra, op.price, op.owner, config.policy, Acc)
  IN /\ plan.fills = w.fills /\ plan.cancels = w.cancels /\ plan.stopped = w.stopped
     /\ ~CountsLevels => plan.executable = w.executable

(* What the loop has executed and what the levels in reach still offer.    *)
Offer == run.executed + ExecutableQuantity(book, Contra, run.remaining, op.price)

(* The inductive form of PlanIsExact: at every turn of the loop the plan   *)
(* is what was done plus what is still to come. A walk that starts at the  *)
(* present front order and from the present progress ends where the        *)
(* preflight's walk ended; when nothing is left to match it has ended.     *)
Foresight ==
  /\ phase = "idle" => op = NoOp
  /\ phase = "matching" =>
       /\ Foreseen
       /\ CountsLevels => plan.executable = Offer
       /\ config.policy = "Disabled" => ~run.stopped
  /\ op.kind # "none" => run.executed + run.remaining = op.qty
  /\ PlanIsExact

(* The operation events a command has logged before its first fill.        *)
Announced == [add |-> 1, replace |-> 2, market |-> 0]

(* Feed f can take n more events.                                          *)
RoomFor(f, n) == f.count + n <= config.marketCapacity /\ f.seq + n <= MaxMarketSequence

(* The most market-data events a command has published so far: three for a *)
(* fill, two for a cancel, two for taking the replaced order out.          *)
QuotesUsed == 3 * run.fills + 2 * run.cancels + (IF op.kind = "replace" THEN 2 ELSE 0)

(* The inductive form of ReservationIsKept and FeedMirrorsBook: what the   *)
(* command has logged is what its fills and cancels account for, and what  *)
(* the plan reserved beyond that is still free.                            *)
Reserve ==
  /\ FeedMirrorsBook
  /\ phase = "idle" => feed.count = 0
  /\ phase = "matching" =>
       /\ run.events = Announced[op.kind] + run.fills + run.cancels
       /\ plan.events = EventsNeeded(op, plan, plan.executable)
       /\ plan.quotes = QuotesNeeded(op, plan, plan.executable)
       /\ plan.events <= config.eventCapacity
       /\ IF config.marketCapacity = 0 THEN feed.count = 0
          ELSE feed.count <= QuotesUsed /\ RoomFor(feed, plan.quotes - feed.count)
  /\ ReservationIsKept

(* The inductive form of PostOnlyIsPassive, ResidualIsStored and           *)
(* FillOrKill: the room that was checked for the residual is still there,  *)
(* since a turn of the loop changes the other side only, and releases      *)
(* slots only.                                                             *)
Placement ==
  /\ phase = "idle" => status = "none"
  /\ phase = "matching" =>
       /\ status = "none"
       /\ op.postOnly => CrossingPrices(book, Contra, op.price) = {}
       /\ HasResidual(op, plan) /\ op.kind # "market" =>
            /\ op.qty - plan.executable <= MaxQuantity - book.total[op.side][op.price]
            /\ Cardinality(book.index) < config.maxOrders
            /\ Cardinality(book.index) < config.idCapacity
            /\ op.kind = "add" => plan.idRoom
  /\ op.kind # "none" /\ op.postOnly => run.fills = 0 /\ run.cancels = 0 /\ ~run.stopped
  /\ op.kind # "none" /\ op.tif = "Fok" => plan.executable >= op.qty /\ ~plan.stopped
  /\ status # "InternalError"
  /\ ResidualIsStored

-----------------------------------------------------------------------------
(* A turn of the matching loop.                                            *)

(* A step of the loop turns the progress made into the next.               *)
LEMMA AccTyped ==
  ASSUME Inv
  PROVE  Acc \in Progress
<1>1. run \in RunType
  BY InvFacts
<1> QED
  BY <1>1 DEF Acc, Progress, RunType

(* A progress is known by its five fields.                                 *)
LEMMA SameProgress ==
  ASSUME NEW a \in Progress, NEW b \in Progress,
         a.remaining = b.remaining, a.executable = b.executable, a.fills = b.fills,
         a.cancels = b.cancels, a.stopped = b.stopped
  PROVE  a = b
  BY DEF Progress

(* What counting an event leaves alone.                                    *)
LEMMA EmittedFields ==
  ASSUME NEW r \in RunType, NEW n
  PROVE  /\ Emitted(r, n).remaining = r.remaining /\ Emitted(r, n).executed = r.executed
         /\ Emitted(r, n).fills = r.fills /\ Emitted(r, n).cancels = r.cancels
         /\ Emitted(r, n).stopped = r.stopped
         /\ Emitted(r, n).events = Min2(r.events + n, config.eventCapacity)
  BY DEF Emitted, RunType

(* A turn of the loop has a front order of some quantity to look at, and   *)
(* can always remove it.                                                   *)
LEMMA TurnFacts ==
  ASSUME Inv, Exact, CanMatch
  PROVE  /\ phase = "matching" /\ Contra \in Side
         /\ book.best[Contra] \in Price /\ book.best[Contra] # NoPrice
         /\ Crosses(Contra, book.best[Contra], op.price)
         /\ FrontOrder = FrontOf(book, Contra) /\ FrontOrder \in book.index
         /\ FrontOrder \in OrderId
         /\ book.order[FrontOrder].qty \in Nat \ {0}
         /\ Removable(book, FrontOrder)
         /\ run.remaining \in Nat \ {0} /\ run.remaining \in 0..MaxQuantity
         /\ ~run.stopped /\ ~Sated(Acc)
         /\ Sound(book) /\ Sums(book) /\ book.used > 0
         /\ IsFiniteSet(book.index)
<1>1. /\ phase = "matching" /\ Contra \in Side /\ book.best[Contra] # NoPrice
      /\ book.best[Contra] \in Price /\ FrontOrder \in book.index
      /\ book.order[FrontOrder].qty \in 0..MaxQuantity
  BY FrontFacts
<1>2. /\ Sound(book) /\ Exactly(book, config.lot) /\ Kept(book)
      /\ run.remaining \in 0..MaxQuantity
  BY InvFacts DEF Exact, RunType
<1>3. book.used > 0 /\ IsFiniteSet(book.index)
  BY <1>1, <1>2, InvFacts, RemovedCount DEF Kept
<1>4. book.order[FrontOrder].qty # 0 /\ Sums(book)
  BY <1>1, <1>2 DEF Exactly, Lots, WholeLot
<1>5. Removable(book, FrontOrder) /\ FrontOrder \in OrderId
  BY <1>1, <1>2, <1>4, TotalHasOrder, OrderPlace
<1>6. /\ Crosses(Contra, book.best[Contra], op.price)
      /\ ~run.stopped /\ run.remaining # 0
  <2>1. run.remaining > 0 /\ run.remaining \in 0..MaxQuantity
    BY <1>2 DEF CanMatch
  <2>2. run.remaining # 0
    BY <2>1
  <2> QED
    BY <2>2 DEF CanMatch
<1>7. ~Sated(Acc)
  BY <1>6 DEF Sated, Acc
<1>8. FrontOrder = FrontOf(book, Contra)
  BY DEF FrontOrder, FrontOf
<1>9. book.order[FrontOrder].qty \in Nat \ {0} /\ run.remaining \in Nat \ {0}
  BY <1>1, <1>2, <1>4, <1>6, WidthAssumption
<1> QED
  BY <1>1, <1>2, <1>3, <1>4, <1>5, <1>6, <1>7, <1>8, <1>9

(* The fill of one turn.                                                   *)
Fills(x) ==
  /\ UNCHANGED <<config, phase, op, plan, status>>
  /\ x = Min2(run.remaining, book.order[FrontOrder].qty)
  /\ x \in Nat \ {0} /\ x <= run.remaining /\ x <= book.order[FrontOrder].qty
  /\ run'.remaining = run.remaining - x /\ run'.executed = run.executed + x
  /\ run'.fills = run.fills + 1 /\ run'.cancels = run.cancels /\ run'.stopped = run.stopped
  /\ run'.events = Min2(run.events + 1, config.eventCapacity)
  /\ feed' = Publish(Posted(feed, feed), book, book', Contra, book.best[Contra])
  /\ Sound(book') /\ IsFiniteSet(book'.index)
  /\ \/ x = book.order[FrontOrder].qty /\ FrontLeft(book, book', Contra)
     \/ x = run.remaining /\ Shortened(book, book', FrontOrder, Contra, book.best[Contra], x)

(* A turn that trades is a fill of some quantity.                          *)
LEMMA TradeFills ==
  ASSUME Inv, Exact, Trade
  PROVE  \E x : Fills(x)
<1> DEFINE x == Min2(run.remaining, book.order[FrontOrder].qty)
           r == [run EXCEPT !.remaining = @ - x, !.executed = @ + x, !.fills = @ + 1]
<1>1. CanMatch
  BY DEF Trade
<1>2. /\ Contra \in Side /\ book.best[Contra] # NoPrice /\ book.best[Contra] \in Price
      /\ book.order[FrontOrder].qty \in Nat \ {0} /\ run.remaining \in Nat \ {0}
      /\ run.remaining \in 0..MaxQuantity
      /\ Sound(book) /\ Sums(book) /\ book.used > 0
      /\ FrontOrder = FrontOf(book, Contra)
  BY <1>1, TurnFacts
<1>3. /\ x \in Nat \ {0} /\ x <= run.remaining /\ x <= book.order[FrontOrder].qty
      /\ x # book.order[FrontOrder].qty => x = run.remaining
      /\ ~(x = 0)
  BY <1>2 DEF Min2
<1>4. /\ book' = FilledFront(book, Contra, x)
      /\ feed' = Publish(Posted(feed, feed), book, book', Contra, book.best[Contra])
      /\ run' = Emitted(r, 1)
      /\ UNCHANGED <<config, phase, op, plan, status>>
  BY <1>3 DEF Trade
<1>5. /\ run \in RunType /\ run.executed \in Nat /\ run.fills \in Nat
  BY InvFacts DEF RunType
<1>6. x = Min2(run.remaining, book.order[FrontOrder].qty)
  OBVIOUS
<1>7. r.remaining = run.remaining - x /\ r.executed = run.executed + x
      /\ r.fills = run.fills + 1 /\ r.cancels = run.cancels /\ r.stopped = run.stopped
      /\ r.events = run.events
  BY <1>5 DEF RunType
<1> HIDE DEF x
<1>8. run.remaining - x \in 0..MaxQuantity /\ run.executed + x \in Nat /\ run.fills + 1 \in Nat
  <2>1. run.remaining \in 0..MaxQuantity /\ x \in Nat /\ x <= run.remaining
    BY <1>2, <1>3
  <2> QED
    BY <2>1, <1>5, WidthAssumption
<1>9. r \in RunType
  BY <1>5, <1>8 DEF RunType
<1> HIDE DEF r
<1>10. /\ run'.remaining = run.remaining - x /\ run'.executed = run.executed + x
       /\ run'.fills = run.fills + 1 /\ run'.cancels = run.cancels /\ run'.stopped = run.stopped
       /\ run'.events = Min2(run.events + 1, config.eventCapacity)
  BY <1>4, <1>7, <1>9, EmittedFields
<1>11. x \in Nat /\ x <= book.order[FrontOf(book, Contra)].qty
  BY <1>2, <1>3
<1>12. /\ Sound(book')
       /\ x # book.order[FrontOf(book, Contra)].qty =>
            Shortened(book, book', FrontOf(book, Contra), Contra, book.best[Contra], x)
       /\ x = book.order[FrontOf(book, Contra)].qty => FrontLeft(book, book', Contra)
  BY <1>2, <1>4, <1>11, FilledFrontSums DEF FrontLeft
<1>13. IsFiniteSet(book'.index)
  BY TradeKeepsInv DEF Inv
<1>14. \/ x = book.order[FrontOrder].qty /\ FrontLeft(book, book', Contra)
       \/ x = run.remaining /\ Shortened(book, book', FrontOrder, Contra, book.best[Contra], x)
  BY <1>2, <1>3, <1>12
<1>15. Fills(x)
  BY <1>3, <1>4, <1>6, <1>10, <1>12, <1>13, <1>14 DEF Fills
<1> QED
  BY <1>15

(* The cancellation of an own resting order in one turn.                   *)
CancelsOwn ==
  /\ UNCHANGED <<config, phase, op, plan, status>>
  /\ run'.remaining = run.remaining /\ run'.executed = run.executed
  /\ run'.fills = run.fills /\ run'.cancels = run.cancels + 1
  /\ run'.stopped = (config.policy = "CancelBoth")
  /\ run'.events = Min2(run.events + 1, config.eventCapacity)
  /\ feed' = Publish(feed, book, book', Contra, book.best[Contra])
  /\ Sound(book') /\ IsFiniteSet(book'.index)
  /\ FrontLeft(book, book', Contra)

(* A turn that cancels the aggressor's own resting order.                  *)
LEMMA CancelOwnCancels ==
  ASSUME Inv, Exact, CancelOwnResting
  PROVE  CancelsOwn
<1> DEFINE stop == (config.policy = "CancelBoth")
           r == [run EXCEPT !.cancels = @ + 1, !.stopped = stop]
<1>1. CanMatch
  BY DEF CancelOwnResting
<1>2. /\ Contra \in Side /\ book.best[Contra] # NoPrice /\ book.best[Contra] \in Price
      /\ Sound(book) /\ Sums(book) /\ book.used > 0
      /\ FrontOrder = FrontOf(book, Contra) /\ FrontOrder \in book.index
      /\ Removable(book, FrontOrder)
  BY <1>1, TurnFacts
<1>3. /\ book' = Removed(book, FrontOrder)
      /\ feed' = Publish(feed, book, book', Contra, book.best[Contra])
      /\ run' = Emitted(r, 1)
      /\ UNCHANGED <<config, phase, op, plan, status>>
  BY <1>2 DEF CancelOwnResting
<1>4. run \in RunType /\ run.cancels \in Nat /\ stop \in BOOLEAN
  BY InvFacts DEF RunType
<1> HIDE DEF stop
<1>5. /\ r.remaining = run.remaining /\ r.executed = run.executed
      /\ r.fills = run.fills /\ r.cancels = run.cancels + 1 /\ r.events = run.events
      /\ r.stopped = stop
  BY <1>4 DEF RunType
<1>6. r \in RunType
  <2>1. run.cancels + 1 \in Nat
    BY <1>4
  <2> QED
    BY <2>1, <1>4 DEF RunType
<1> HIDE DEF r
<1>7. /\ run'.remaining = run.remaining /\ run'.executed = run.executed
      /\ run'.fills = run.fills /\ run'.cancels = run.cancels + 1
      /\ run'.events = Min2(run.events + 1, config.eventCapacity)
      /\ run'.stopped = stop
  BY <1>3, <1>5, <1>6, EmittedFields
<1>8. /\ Sound(book')
      /\ \E s, p, i : Leaves(book, book', FrontOrder, s, p, i)
      /\ SameBut(book, book', FrontOrder)
      /\ book'.index = book.index \ {FrontOrder}
  BY <1>2, <1>3, RemovedSums
<1>9. book.order[FrontOrder].side = Contra /\ book.order[FrontOrder].price = book.best[Contra]
  BY <1>1, FrontFacts
<1>10. FrontLeft(book, book', Contra)
  <2>1. PICK s, p, i : Leaves(book, book', FrontOrder, s, p, i)
    BY <1>8
  <2>2. s = Contra /\ p = book.best[Contra]
    BY <2>1, <1>9 DEF Leaves
  <2>3. Leaves(book, book', FrontOrder, Contra, book.best[Contra], i)
    BY <2>1, <2>2
  <2> QED
    BY <2>3, <1>2, <1>8 DEF FrontLeft
<1>11. IsFiniteSet(book'.index)
  BY CancelOwnKeepsInv DEF Inv
<1> QED
  BY <1>3, <1>7, <1>8, <1>10, <1>11 DEF CancelsOwn, stop

-----------------------------------------------------------------------------
(* The plan after a turn of the loop.                                      *)

(* What is foreseen with the book as it is and the progress made.          *)
Sees(b, acc) == Outlook(b, Contra, op.price, op.owner, config.policy, acc)

(* A step of the loop that changes neither what is foreseen nor what is    *)
(* offered.                                                                *)
LEMMA TurnForeseen ==
  ASSUME Foresight, phase = "matching", UNCHANGED <<config, phase, op, plan>>,
         Sees(book', Acc') = Sees(book, Acc),
         CountsLevels => Offer' = Offer,
         run'.executed + run'.remaining = run.executed + run.remaining,
         config.policy = "Disabled" => ~run'.stopped
  PROVE  Foresight'
<1>1. Foreseen'
  BY DEF Foresight, Foreseen, Sees, CountsLevels, Contra
<1>2. CountsLevels' => plan'.executable = Offer'
  BY DEF Foresight, CountsLevels
<1>3. op'.kind # "none" => run'.executed + run'.remaining = op'.qty
  BY DEF Foresight
<1>4. PlanIsExact'
  BY DEF PlanIsExact, Planned
<1> QED
  BY <1>1, <1>2, <1>3, <1>4 DEF Foresight

(* The offer in terms of the lemmas on it.                                 *)
LEMMA OfferIs ==
  Offer = run.executed + Min2(run.remaining, Offered(book, Contra, op.price))
  BY ExecutableIsOffered DEF Offer

(* Offer after a step.                                                     *)
LEMMA NextOfferIs ==
  ASSUME UNCHANGED op
  PROVE  Offer' = run'.executed + Min2(run'.remaining, Offered(book', Contra, op.price))
<1>1. ExecutableQuantity(book', Contra, run'.remaining, op.price) =
        Min2(run'.remaining, Offered(book', Contra, op.price))
  BY ExecutableIsOffered
<1> QED
  BY <1>1 DEF Offer, Contra

(* The progress made is progress in the next state too.                    *)
LEMMA NextAccTyped ==
  ASSUME Inv'
  PROVE  Acc' \in Progress
<1>1. run' \in RunType
  BY DEF Inv, TypeOK
<1> QED
  BY <1>1 DEF Acc, Progress, RunType

(* A fill changes neither.                                                 *)
LEMMA FillForesight ==
  ASSUME Inv, Exact, Foresight, Trade
  PROVE  Foresight'
<1>1. PICK x : Fills(x)
  BY TradeFills
<1>2. CanMatch /\ ~FrontIsOwn
  BY DEF Trade
<1>3. /\ phase = "matching" /\ Contra \in Side /\ book.best[Contra] # NoPrice
      /\ book.best[Contra] \in Price
      /\ Crosses(Contra, book.best[Contra], op.price)
      /\ FrontOrder = FrontOf(book, Contra) /\ FrontOrder \in book.index
      /\ FrontOrder \in OrderId
      /\ Sound(book) /\ Sums(book) /\ IsFiniteSet(book.index) /\ ~Sated(Acc)
      /\ run.remaining \in Nat /\ book.order[FrontOrder].qty \in Nat
  BY <1>2, TurnFacts
<1>4. Acc \in Progress /\ Acc' \in Progress
  <2>1. Inv'
    BY TradeKeepsInv
  <2> QED
    BY <2>1, AccTyped, NextAccTyped
<1>5. /\ UNCHANGED <<config, phase, op, plan, status>>
      /\ x = Min2(run.remaining, book.order[FrontOrder].qty)
      /\ x \in Nat \ {0} /\ x <= run.remaining /\ x <= book.order[FrontOrder].qty
      /\ run'.remaining = run.remaining - x /\ run'.executed = run.executed + x
      /\ run'.fills = run.fills + 1 /\ run'.cancels = run.cancels
      /\ run'.stopped = run.stopped
      /\ Sound(book') /\ IsFiniteSet(book'.index)
  BY <1>1 DEF Fills
<1>6. PICK next : next = Visited(book, op.owner, config.policy, FrontOrder, Acc)
  OBVIOUS
<1>7. /\ next \in Progress
      /\ next.remaining = Acc.remaining - Min2(Acc.remaining, book.order[FrontOrder].qty)
      /\ next.executable = Acc.executable + Min2(Acc.remaining, book.order[FrontOrder].qty)
      /\ next.fills = Acc.fills + 1
      /\ next.cancels = Acc.cancels /\ next.stopped = Acc.stopped
  <2>1. ~SelfTrade(config.policy, book.order[FrontOrder].owner, op.owner)
    BY <1>2 DEF FrontIsOwn
  <2>2. book \in BookType
    BY <1>3 DEF Sound
  <2> QED
    BY <2>1, <2>2, <1>3, <1>4, <1>6, VisitedOther
<1>8. Acc' = next
  <2>1. /\ Acc'.remaining = run'.remaining /\ Acc'.executable = run'.executed
        /\ Acc'.fills = run'.fills /\ Acc'.cancels = run'.cancels /\ Acc'.stopped = run'.stopped
        /\ Acc.remaining = run.remaining /\ Acc.executable = run.executed
        /\ Acc.fills = run.fills /\ Acc.cancels = run.cancels /\ Acc.stopped = run.stopped
    BY DEF Acc
  <2>2. /\ Acc'.remaining = next.remaining /\ Acc'.executable = next.executable
        /\ Acc'.fills = next.fills /\ Acc'.cancels = next.cancels
        /\ Acc'.stopped = next.stopped
    BY <2>1, <1>5, <1>7
  <2> QED
    BY <2>2, <1>4, <1>7, SameProgress
<1>9. next = Visited(book, op.owner, config.policy, FrontOf(book, Contra), Acc)
  BY <1>3, <1>6
<1>10. book.best[Contra] \in CrossingPrices(book, Contra, op.price)
  <2>1. book.best[Contra] \in Occupied(book, Contra)
    BY <1>3 DEF Sound, BestIsCached
  <2> QED
    BY <2>1, <1>3, ReachIsFinite
<1>11. /\ Offered(book, Contra, op.price) \in Nat
       /\ Offered(book', Contra, op.price) \in Nat
  BY <1>3, <1>5, OfferedTyped
<1>12. CASE x = book.order[FrontOrder].qty /\ FrontLeft(book, book', Contra)
  <2>1. Sees(book', Acc') = Sees(book, Acc)
    BY <1>3, <1>4, <1>5, <1>8, <1>9, <1>12, OutlookTurn DEF Sees
  <2>2. Offered(book', Contra, op.price) = Offered(book, Contra, op.price) - x
    <3>1. PICK i : Leaves(book, book', FrontOf(book, Contra), Contra, book.best[Contra], i)
      BY <1>12 DEF FrontLeft
    <3>2. Sums(book')
      BY TradeExact DEF Exact, Exactly
    <3> QED
      BY <3>1, <3>2, <1>3, <1>5, <1>10, <1>12, OfferedLeaves
  <2>3. Offer' = Offer
    <3>1. Offer' = run'.executed + Min2(run'.remaining, Offered(book', Contra, op.price))
      BY <1>5, NextOfferIs
    <3>2. run.executed \in Nat
      BY InvFacts DEF RunType
    <3> QED
      BY <3>1, <3>2, <2>2, <1>3, <1>5, <1>11, OfferIs DEF Min2
  <2>4. /\ run'.executed + run'.remaining = run.executed + run.remaining
        /\ config.policy = "Disabled" => ~run'.stopped
    <3>1. run.executed \in Nat
      BY InvFacts DEF RunType
    <3> QED
      BY <3>1, <1>3, <1>5 DEF Foresight
  <2> QED
    BY <2>1, <2>3, <2>4, <1>3, <1>5, TurnForeseen
<1>13. CASE x = run.remaining
            /\ Shortened(book, book', FrontOrder, Contra, book.best[Contra], x)
  <2>1. Sated(next)
    BY <1>3, <1>5, <1>7, <1>8, <1>13 DEF Sated, Acc
  <2>2. Sees(book, Acc) = next
    BY <2>1, <1>3, <1>4, <1>9, OutlookFront DEF Sees
  <2>3. Sees(book', Acc') = next
    BY <2>1, <1>3, <1>5, <1>7, <1>8, OutlookDone DEF Sees
  <2>4. Offered(book', Contra, op.price) = Offered(book, Contra, op.price) - x
    <3>1. x \in Int
      BY <1>5
    <3> QED
      BY <3>1, <1>3, <1>5, <1>10, <1>13, OfferedShortened
  <2>5. Offer' = Offer
    <3>1. Offer' = run'.executed + Min2(run'.remaining, Offered(book', Contra, op.price))
      BY <1>5, NextOfferIs
    <3>2. run.executed \in Nat
      BY InvFacts DEF RunType
    <3> QED
      BY <3>1, <3>2, <2>4, <1>3, <1>5, <1>11, <1>13, OfferIs DEF Min2
  <2>6. /\ run'.executed + run'.remaining = run.executed + run.remaining
        /\ config.policy = "Disabled" => ~run'.stopped
    <3>1. run.executed \in Nat
      BY InvFacts DEF RunType
    <3> QED
      BY <3>1, <1>3, <1>5 DEF Foresight
  <2> QED
    BY <2>2, <2>3, <2>5, <2>6, <1>3, <1>5, TurnForeseen
<1> QED
  BY <1>1, <1>12, <1>13 DEF Fills

(* A self-trade cancellation of the resting order was foreseen.            *)
LEMMA CancelOwnForesight ==
  ASSUME Inv, Exact, Foresight, CancelOwnResting
  PROVE  Foresight'
<1>1. CancelsOwn
  BY CancelOwnCancels
<1>2. CanMatch /\ FrontIsOwn /\ config.policy # "CancelAggressor"
  BY DEF CancelOwnResting
<1>3. /\ phase = "matching" /\ Contra \in Side /\ book.best[Contra] # NoPrice
      /\ book.best[Contra] \in Price
      /\ Crosses(Contra, book.best[Contra], op.price)
      /\ FrontOrder = FrontOf(book, Contra)
      /\ Sound(book) /\ IsFiniteSet(book.index) /\ ~Sated(Acc) /\ ~run.stopped
  BY <1>2, TurnFacts
<1>4. Acc \in Progress /\ Acc' \in Progress
  <2>1. Inv'
    BY CancelOwnKeepsInv
  <2> QED
    BY <2>1, AccTyped, NextAccTyped
<1>5. /\ UNCHANGED <<config, phase, op, plan, status>>
      /\ run'.remaining = run.remaining /\ run'.executed = run.executed
      /\ run'.fills = run.fills /\ run'.cancels = run.cancels + 1
      /\ run'.stopped = (config.policy = "CancelBoth")
      /\ Sound(book') /\ FrontLeft(book, book', Contra)
  BY <1>1 DEF CancelsOwn
<1>6. PICK next : next = Visited(book, op.owner, config.policy, FrontOrder, Acc)
  OBVIOUS
<1>7. /\ next \in Progress
      /\ next.remaining = Acc.remaining /\ next.executable = Acc.executable
      /\ next.fills = Acc.fills
      /\ next.cancels = IF config.policy = "CancelAggressor" THEN Acc.cancels ELSE Acc.cancels + 1
      /\ next.stopped = (config.policy # "CancelResting")
  <2>1. SelfTrade(config.policy, book.order[FrontOrder].owner, op.owner)
    BY <1>2 DEF FrontIsOwn
  <2> QED
    BY <2>1, <1>3, <1>4, <1>6, VisitedOwn
<1>8. config.policy = "CancelBoth" <=> config.policy # "CancelResting"
  <2>1. config.policy \in Policy
    BY InvFacts, ConfigAssumption
  <2>2. config.policy # "Disabled"
    BY <1>2 DEF FrontIsOwn, SelfTrade
  <2> QED
    BY <2>1, <2>2, <1>2 DEF Policy
<1>9. Acc' = next
  <2>1. /\ Acc'.remaining = run'.remaining /\ Acc'.executable = run'.executed
        /\ Acc'.fills = run'.fills /\ Acc'.cancels = run'.cancels
        /\ Acc'.stopped = run'.stopped
        /\ Acc.remaining = run.remaining /\ Acc.executable = run.executed
        /\ Acc.fills = run.fills /\ Acc.cancels = run.cancels
    BY DEF Acc
  <2>2. /\ Acc'.remaining = next.remaining /\ Acc'.executable = next.executable
        /\ Acc'.fills = next.fills /\ Acc'.cancels = next.cancels
    BY <2>1, <1>2, <1>5, <1>7
  <2>3. Acc'.stopped = next.stopped
    BY <2>1, <1>5, <1>7, <1>8
  <2> QED
    BY <2>2, <2>3, <1>4, <1>7, SameProgress
<1>10. Sees(book', Acc') = Sees(book, Acc)
  BY <1>3, <1>4, <1>5, <1>6, <1>9, OutlookTurn DEF Sees
<1>11. config.policy # "Disabled" /\ ~CountsLevels
  BY <1>2 DEF FrontIsOwn, SelfTrade, CountsLevels
<1> QED
  BY <1>3, <1>5, <1>10, <1>11, TurnForeseen

(* So was the end of the aggressor.                                        *)
LEMMA StopForesight ==
  ASSUME Inv, Exact, Foresight, StopAggressor
  PROVE  Foresight'
<1>2. CanMatch /\ FrontIsOwn /\ config.policy = "CancelAggressor"
  BY DEF StopAggressor
<1>3. /\ phase = "matching" /\ Contra \in Side /\ book.best[Contra] # NoPrice
      /\ book.best[Contra] \in Price
      /\ Crosses(Contra, book.best[Contra], op.price)
      /\ FrontOrder = FrontOf(book, Contra)
      /\ Sound(book) /\ IsFiniteSet(book.index) /\ ~Sated(Acc) /\ ~run.stopped
  BY <1>2, TurnFacts
<1>4. Acc \in Progress /\ Acc' \in Progress
  <2>1. Inv'
    BY StopKeepsInv
  <2> QED
    BY <2>1, AccTyped, NextAccTyped
<1>5. /\ UNCHANGED <<config, phase, op, plan, book, status>>
      /\ run'.remaining = run.remaining /\ run'.executed = run.executed
      /\ run'.fills = run.fills /\ run'.cancels = run.cancels
      /\ run'.stopped = TRUE
  BY InvFacts DEF StopAggressor, RunType
<1>6. PICK next : next = Visited(book, op.owner, config.policy, FrontOrder, Acc)
  OBVIOUS
<1>7. /\ next \in Progress
      /\ next.remaining = Acc.remaining /\ next.executable = Acc.executable
      /\ next.fills = Acc.fills
      /\ next.cancels = IF config.policy = "CancelAggressor" THEN Acc.cancels ELSE Acc.cancels + 1
      /\ next.stopped = (config.policy # "CancelResting")
  <2>1. SelfTrade(config.policy, book.order[FrontOrder].owner, op.owner)
    BY <1>2 DEF FrontIsOwn
  <2> QED
    BY <2>1, <1>3, <1>4, <1>6, VisitedOwn
<1>9. Acc' = next
  <2>1. /\ Acc'.remaining = run'.remaining /\ Acc'.executable = run'.executed
        /\ Acc'.fills = run'.fills /\ Acc'.cancels = run'.cancels
        /\ Acc'.stopped = run'.stopped
        /\ Acc.remaining = run.remaining /\ Acc.executable = run.executed
        /\ Acc.fills = run.fills /\ Acc.cancels = run.cancels
    BY DEF Acc
  <2>2. /\ Acc'.remaining = next.remaining /\ Acc'.executable = next.executable
        /\ Acc'.fills = next.fills /\ Acc'.cancels = next.cancels
    BY <2>1, <1>2, <1>5, <1>7
  <2>3. Acc'.stopped = next.stopped
    BY <2>1, <1>2, <1>5, <1>7
  <2> QED
    BY <2>2, <2>3, <1>4, <1>7, SameProgress
<1>10. Sated(next)
  BY <1>2, <1>7 DEF Sated
<1>11. Sees(book, Acc) = next
  BY <1>3, <1>4, <1>6, <1>10, OutlookFront DEF Sees
<1>12. Sees(book', Acc') = next
  BY <1>3, <1>5, <1>7, <1>9, <1>10, OutlookDone DEF Sees
<1>13. config.policy # "Disabled" /\ ~CountsLevels
  BY <1>2 DEF CountsLevels
<1> QED
  BY <1>3, <1>5, <1>11, <1>12, <1>13, TurnForeseen

-----------------------------------------------------------------------------
(* What a command does before the loop.                                    *)

(* A command that changes nothing.                                         *)
Refused ==
  /\ phase' = "done" /\ UNCHANGED <<config, op, book, feed>>
  /\ status' # "InternalError"

(* A command that changes one level of side s and ends.                    *)
Changed(s, p) ==
  /\ phase' = "done" /\ UNCHANGED <<config, op>>
  /\ feed' = Publish(feed, book, book', s, p)
  /\ Sound(book') /\ SameElsewhere(book, book', s, p)
  /\ \A t \in Side : t # s => book'.best[t] = book.best[t]
  /\ CanPublish(LevelQuotes)
  /\ status' # "InternalError"

(* A new order, or a market order, enters the loop.                        *)
EnteredNew(o) ==
  /\ o.kind # "replace"
  /\ UNCHANGED <<book, feed>>
  /\ o.kind = "add" => AddStatus(o, Plan(o)) = "Accepted"
  /\ o.kind = "market" => ~o.postOnly /\ o.tif = "Gtc"

(* A replacement does: its order leaves.                                   *)
EnteredAgain(o) ==
  /\ o.kind = "replace"
  /\ o.id \in book.index /\ Removable(book, o.id) /\ o.side = book.order[o.id].side
  /\ book' = Unindexed(Unlinked(book, o.id), o.id)
  /\ feed' = Publish(feed, book, book', o.side, book.order[o.id].price)
  /\ TermsStatus(o) = "Accepted" /\ ReentryStatus(o, Plan(o)) = "Accepted"

(* What a command is when it enters the loop.                              *)
Entered(o) ==
  /\ UNCHANGED config
  /\ Placeable(o)
  /\ Enter(o, Plan(o), Announced[o.kind])
  /\ Capacity(Plan(o).events, Plan(o).quotes) = "Accepted"
  /\ EnteredNew(o) \/ EnteredAgain(o)

(* The three things the first step of a command can do.                    *)
Effect ==
  \/ Refused
  \/ \E s \in Side, p \in Price : Changed(s, p)
  \/ \E o \in OpType : Entered(o)

(* cancel_order is refused or takes one order out of one level.            *)
LEMMA CancelEffect ==
  ASSUME Inv, Exact, NEW id \in OrderId, CancelOrder(id)
  PROVE  Effect
<1> DEFINE s == book.order[id].side
           p == book.order[id].price
<1>1. Sound(book) /\ Sums(book)
  BY InvFacts DEF Exact, Exactly
<1>2. id \in book.index => Removable(book, id)
  BY <1>1, TotalHasOrder
<1>3. \/ Refused
      \/ /\ id \in book.index /\ Capacity(1, LevelQuotes) = "Accepted"
         /\ book' = Removed(book, id)
         /\ feed' = Publish(feed, book, book', s, p)
         /\ phase' = "done" /\ UNCHANGED <<config, op>> /\ status' # "InternalError"
  BY <1>2 DEF CancelOrder, Report, Refuse, Answer, Apply, Refused, Capacity
<1>4. CASE /\ id \in book.index /\ Capacity(1, LevelQuotes) = "Accepted"
           /\ book' = Removed(book, id)
           /\ feed' = Publish(feed, book, book', s, p)
           /\ phase' = "done" /\ UNCHANGED <<config, op>> /\ status' # "InternalError"
  <2>1. book.used > 0
    BY <1>4, InvFacts, RemovedCount
  <2>2. /\ Sound(book')
        /\ \E t, q, i : Leaves(book, book', id, t, q, i)
    BY <1>1, <1>4, <2>1, RemovedSums
  <2>3. PICK t, q, i : Leaves(book, book', id, t, q, i)
    BY <2>2
  <2>4. t = s /\ q = p /\ s \in Side /\ p \in Price
    BY <2>3 DEF Leaves
  <2>5. CanPublish(LevelQuotes)
    BY <1>4 DEF Capacity
  <2>6. Changed(s, p)
    BY <2>2, <2>3, <2>4, <2>5, <1>4 DEF Changed, Leaves
  <2> QED
    BY <2>4, <2>6 DEF Effect
<1> QED
  BY <1>3, <1>4 DEF Effect

(* A reduction changes one level.                                          *)
LEMMA ReduceEffect ==
  ASSUME Inv, Exact, UNCHANGED config, NEW id \in book.index,
         NEW qty \in 0..MaxQuantity, qty < book.order[id].qty,
         CanPublish(LevelQuotes), Reduce(id, qty)
  PROVE  Effect
<1> DEFINE s == book.order[id].side
           p == book.order[id].price
<1>1. Sound(book) /\ Sums(book)
  BY InvFacts DEF Exact, Exactly
<1>2. /\ book.order[id].qty \in 0..MaxQuantity /\ book.total[s][p] \in 0..MaxQuantity
      /\ book.order[id].qty <= book.total[s][p]
  BY <1>1, TotalHasOrder DEF Removable
<1>3. qty <= book.order[id].qty /\ ~(book.order[id].qty - qty > book.total[s][p])
  BY <1>2, WidthAssumption
<1>4. /\ book' = Reduced(book, id, qty)
      /\ feed' = Publish(feed, book, book', s, p)
      /\ phase' = "done" /\ UNCHANGED <<config, op>> /\ status' # "InternalError"
  BY <1>3 DEF Reduce, Apply, Answer
<1>5. /\ Sound(book')
      /\ \E t, q, x : Shortened(book, book', id, t, q, x)
  BY <1>1, <1>3, <1>4, ReducedShortens
<1>6. PICK t, q, x : Shortened(book, book', id, t, q, x)
  BY <1>5
<1>7. t = s /\ q = p /\ s \in Side /\ p \in Price
  BY <1>6 DEF Shortened
<1>8. Changed(s, p)
  BY <1>4, <1>5, <1>6, <1>7 DEF Changed, Shortened
<1> QED
  BY <1>7, <1>8 DEF Effect

(* modify_order is refused or changes one level.                           *)
LEMMA ModifyEffect ==
  ASSUME Inv, Exact, NEW id \in OrderId, NEW qty \in QuantityInput, ModifyOrder(id, qty)
  PROVE  Effect
<1>1. UNCHANGED config /\ qty \in 0..MaxQuantity
  BY InputAssumption DEF ModifyOrder
<1>2. \/ Refused
      \/ /\ id \in book.index /\ qty < book.order[id].qty
         /\ CanPublish(LevelQuotes) /\ Reduce(id, qty)
  BY DEF ModifyOrder, Report, Refuse, Answer, Refused, Capacity, LotStatus
<1> QED
  BY <1>1, <1>2, ReduceEffect DEF Effect

(* add_limit_order is refused or enters the matching loop.                 *)
LEMMA AddEffect ==
  ASSUME Inv, Exact, NEW id \in OrderId \cup {InvalidId}, NEW s \in Side,
         NEW price \in PriceInput, NEW qty \in QuantityInput,
         NEW tif \in TimeInForce \cup {BadTimeInForce}, NEW postOnly \in BOOLEAN,
         NEW owner \in Participant,
         AddLimitOrder(id, s, price, qty, tif, postOnly, owner)
  PROVE  Effect
<1> DEFINE o == [kind |-> "add", id |-> id, side |-> s, price |-> price, qty |-> qty,
                 tif |-> tif, postOnly |-> postOnly, owner |-> owner]
           p == Plan(o)
           st == AddStatus(o, p)
           room == Capacity(p.events, p.quotes)
<1>1. st # "InternalError" /\ room # "InternalError"
  <2> HIDE DEF o, p
  <2> QED
    BY DEF AddStatus, TermsStatus, LotStatus, LevelStatus, Capacity
<1>2. \/ /\ phase' = "done" /\ UNCHANGED <<config, op, book, feed>>
         /\ status' = st \/ status' = room
      \/ st = "Accepted" /\ room = "Accepted" /\ Enter(o, p, 1)
           /\ UNCHANGED <<config, book, feed>>
  BY DEF AddLimitOrder, Report, Refuse, Answer
<1>3. CASE st = "Accepted" /\ room = "Accepted" /\ Enter(o, p, 1)
             /\ UNCHANGED <<config, book, feed>>
  <2> HIDE DEF p
  <2>1. o.id # InvalidId /\ TermsStatus(o) = "Accepted"
    BY <1>3 DEF AddStatus
  <2>2. price \in Price /\ tif \in TimeInForce
    BY <2>1 DEF TermsStatus
  <2>3. o \in OpType
    BY <2>2, InputAssumption DEF OpType
  <2>4. Placeable(o) /\ o.kind = "add"
    BY <2>1, <2>2 DEF Placeable
  <2>5. Announced[o.kind] = 1
    BY <2>4 DEF Announced
  <2>6. EnteredNew(o)
    BY <2>4, <1>3 DEF EnteredNew, p
  <2>7. Entered(o)
    BY <2>4, <2>5, <2>6, <1>3 DEF Entered, p
  <2> QED
    BY <2>3, <2>7 DEF Effect
<1> QED
  BY <1>1, <1>2, <1>3 DEF Effect, Refused

(* match_market_order is refused or enters the matching loop.              *)
LEMMA MarketEffect ==
  ASSUME Inv, Exact, NEW s \in Side, NEW qty \in QuantityInput, NEW owner \in Participant,
         MatchMarketOrder(s, qty, owner)
  PROVE  Effect
<1> DEFINE o == [NoOp EXCEPT !.kind = "market", !.side = s, !.qty = qty, !.owner = owner]
           p == Plan(o)
           room == Capacity(p.events, p.quotes)
<1>1. LotStatus(qty) # "InternalError" /\ room # "InternalError"
  <2> HIDE DEF o, p
  <2> QED
    BY DEF LotStatus, Capacity
<1>2. \/ /\ phase' = "done" /\ UNCHANGED <<config, op, book, feed>>
         /\ status' = LotStatus(qty) \/ status' = room
      \/ room = "Accepted" /\ Enter(o, p, 0) /\ UNCHANGED <<config, book, feed>>
  BY DEF MatchMarketOrder, Report, Refuse, Answer
<1>3. /\ o \in OpType /\ o.kind = "market" /\ Placeable(o) /\ ~o.postOnly /\ o.tif = "Gtc"
  BY NoOpTyped, InputAssumption DEF NoOp, OpType, Placeable
<1> HIDE DEF o
<1>4. CASE room = "Accepted" /\ Enter(o, p, 0) /\ UNCHANGED <<config, book, feed>>
  <2>1. Announced[o.kind] = 0
    BY <1>3 DEF Announced
  <2>2. EnteredNew(o)
    BY <1>3, <1>4 DEF EnteredNew
  <2>3. Entered(o)
    BY <2>1, <2>2, <1>3, <1>4 DEF Entered
  <2> QED
    BY <2>3, <1>3 DEF Effect
<1> HIDE DEF room, p
<1> QED
  BY <1>1, <1>2, <1>4 DEF Effect, Refused

(* replace_order is refused, reduces in place, or takes its old order out  *)
(* and enters the matching loop.                                           *)
LEMMA ReplaceEffect ==
  ASSUME Inv, Exact, NEW id \in OrderId, NEW price \in PriceInput, NEW qty \in QuantityInput,
         NEW tif \in TimeInForce \cup {BadTimeInForce}, NEW postOnly \in BOOLEAN,
         ReplaceOrder(id, price, qty, tif, postOnly)
  PROVE  Effect
<1> DEFINE old == book.order[id]
           o == [kind |-> "replace", id |-> id, side |-> old.side, price |-> price,
                 qty |-> qty, tif |-> tif, postOnly |-> postOnly, owner |-> old.owner]
           p == Plan(o)
           st == ReentryStatus(o, p)
           room == Capacity(p.events, p.quotes)
           inPlaceRoom == Capacity(1, IF qty = old.qty THEN 0 ELSE LevelQuotes)
<1>1. UNCHANGED config /\ qty \in 0..MaxQuantity
  BY InputAssumption DEF ReplaceOrder
<1>2. Sound(book) /\ Sums(book)
  BY InvFacts DEF Exact, Exactly
<1>3. id \in book.index => Removable(book, id)
  BY <1>2, TotalHasOrder
<1>4. /\ TermsStatus(o) # "InternalError"
      /\ inPlaceRoom # "InternalError" /\ room # "InternalError"
  <2> HIDE DEF o, p
  <2> QED
    BY DEF TermsStatus, LotStatus, Capacity
<1>5. id \in book.index /\ TermsStatus(o) = "Accepted" => st # "InternalError"
  <2> SUFFICES ASSUME id \in book.index, TermsStatus(o) = "Accepted"
               PROVE  st # "InternalError"
    OBVIOUS
  <2>1. price \in Price /\ o.id = id /\ o.price = price
    BY DEF TermsStatus
  <2>2. /\ old.side \in Side
        /\ old.qty \in 0..MaxQuantity /\ old.qty <= book.total[old.side][old.price]
        /\ book.total[old.side][price] \in 0..MaxQuantity
    BY <2>1, <1>2, TotalHasOrder, OrderPlace DEF Removable, Sound, BookType
  <2>3. ~((IF price = old.price THEN old.qty ELSE 0) > book.total[old.side][price])
    BY <2>2, WidthAssumption
  <2> HIDE DEF p
  <2>4. \A n : ReplacementStatus(o.id, o.price, n) # "InternalError"
    BY <2>1, <2>3 DEF ReplacementStatus
  <2> HIDE DEF o
  <2> QED
    BY <2>4 DEF ReentryStatus
<1>6. \/ /\ phase' = "done" /\ UNCHANGED <<config, op, book, feed>>
         /\ \/ status' \in {"UnknownOrderId", "Accepted", inPlaceRoom, room}
            \/ status' = TermsStatus(o)
            \/ id \in book.index /\ TermsStatus(o) = "Accepted" /\ status' = st
      \/ /\ id \in book.index /\ qty < old.qty /\ inPlaceRoom = "Accepted"
         /\ Reduce(id, qty)
      \/ /\ id \in book.index /\ TermsStatus(o) = "Accepted"
         /\ st = "Accepted" /\ room = "Accepted" /\ LeaveForReentry(o, p)
  BY <1>1 DEF ReplaceOrder, Report, Refuse, Answer
<1>7. CASE id \in book.index /\ qty < old.qty /\ inPlaceRoom = "Accepted" /\ Reduce(id, qty)
  <2>1. qty # old.qty
    <3>1. old.qty \in 0..MaxQuantity
      BY <1>2, <1>7, OrderPlace DEF Order
    <3> QED
      BY <3>1, <1>1, <1>7, WidthAssumption
  <2>2. CanPublish(LevelQuotes)
    BY <2>1, <1>7 DEF Capacity
  <2> QED
    BY <2>2, <1>1, <1>7, ReduceEffect
<1>8. CASE /\ id \in book.index /\ TermsStatus(o) = "Accepted"
           /\ st = "Accepted" /\ room = "Accepted" /\ LeaveForReentry(o, p)
  <2>1. price \in Price /\ tif \in TimeInForce
    BY <1>8 DEF TermsStatus
  <2>2. old.side \in Side /\ old.owner \in Participant
    BY <1>2, <1>8, OrderPlace DEF Order
  <2>3. o \in OpType /\ Placeable(o) /\ o.kind = "replace" /\ o.id = id
        /\ o.side = old.side
    BY <2>1, <2>2, <1>1 DEF OpType, Placeable
  <2>8. TermsStatus(o) = "Accepted"
    BY <1>8
  <2> HIDE DEF o
  <2>4. /\ book' = Unindexed(Unlinked(book, o.id), o.id)
        /\ feed' = Publish(feed, book, book', o.side, book.order[o.id].price)
        /\ Enter(o, p, 2)
    BY <2>3, <1>3, <1>8 DEF LeaveForReentry
  <2>5. EnteredAgain(o)
    BY <2>3, <2>4, <2>8, <1>3, <1>8 DEF EnteredAgain
  <2>6. Announced[o.kind] = 2
    BY <2>3 DEF Announced
  <2>7. Entered(o)
    BY <2>3, <2>4, <2>5, <2>6, <1>1, <1>8 DEF Entered
  <2> QED
    BY <2>3, <2>7 DEF Effect
<1> HIDE DEF st, room, inPlaceRoom, p, o
<1> QED
  BY <1>4, <1>5, <1>6, <1>7, <1>8 DEF Effect, Refused

(* Each command does one of the three.                                     *)
LEMMA CommandEffect ==
  ASSUME Inv, Exact, Command
  PROVE  phase = "idle" /\ Effect
<1>1. phase = "idle"
  <2>1. ASSUME NEW id, NEW s, NEW price, NEW qty, NEW tif, NEW postOnly, NEW owner,
               AddLimitOrder(id, s, price, qty, tif, postOnly, owner)
        PROVE  phase = "idle"
    BY <2>1 DEF AddLimitOrder
  <2>2. ASSUME NEW s, NEW qty, NEW owner, MatchMarketOrder(s, qty, owner)
        PROVE  phase = "idle"
    BY <2>2 DEF MatchMarketOrder
  <2>3. ASSUME NEW id, NEW price, NEW qty, NEW tif, NEW postOnly,
               ReplaceOrder(id, price, qty, tif, postOnly)
        PROVE  phase = "idle"
    BY <2>3 DEF ReplaceOrder
  <2>4. ASSUME NEW id, CancelOrder(id) PROVE phase = "idle"
    BY <2>4 DEF CancelOrder
  <2>5. ASSUME NEW id, NEW qty, ModifyOrder(id, qty) PROVE phase = "idle"
    BY <2>5 DEF ModifyOrder
  <2> QED
    BY <2>1, <2>2, <2>3, <2>4, <2>5 DEF Command
<1> QED
  BY <1>1, AddEffect, MarketEffect, CancelEffect, ModifyEffect, ReplaceEffect DEF Command

-----------------------------------------------------------------------------
(* Foresight is invariant.                                                 *)

(* Without a crossing best price nothing is within reach.                  *)
LEMMA NothingWithin ==
  ASSUME NEW b, Sound(b), NEW s \in Side, NEW limit,
         IsFiniteSet(b.index), limit \in Price \cup {NoPrice},
         b.best[s] = NoPrice \/ ~Crosses(s, b.best[s], limit)
  PROVE  CrossingPrices(b, s, limit) = {} /\ Sweep(b, s, limit) = {}
<1>1. ASSUME NEW p \in CrossingPrices(b, s, limit) PROVE FALSE
  <2>1. p \in Occupied(b, s) /\ Crosses(s, p, limit) /\ p \in Price
    BY ReachIsFinite
  <2>2. b.best[s] # NoPrice /\ b.best[s] \in Price /\ ~Better(s, p, b.best[s])
    BY <2>1, PriceAssumption DEF Sound, BestIsCached, Occupied
  <2>3. ~Crosses(s, b.best[s], limit)
    BY <2>2
  <2>4. limit # NoPrice
    BY <2>3 DEF Crosses
  <2>5. limit \in Int /\ p \in Int /\ b.best[s] \in Int
    BY <2>1, <2>2, <2>4, PriceAssumption
  <2> QED
    BY <2>1, <2>2, <2>3, <2>4, <2>5 DEF Crosses, Better, Side
<1>2. CrossingPrices(b, s, limit) = {}
  BY <1>1
<1> QED
  BY <1>2 DEF Sweep

(* The book an entering command leaves is a book, the same on the side it  *)
(* will trade with.                                                        *)
LEMMA EntrySide ==
  ASSUME Inv, NEW o \in OpType, Entered(o)
  PROVE  /\ Opposite(o.side) \in Side /\ Opposite(o.side) # o.side /\ o.side \in Side
         /\ Sound(book) /\ IsFiniteSet(book.index)
         /\ Sound(book') /\ IsFiniteSet(book'.index)
         /\ SameSide(book, book', Opposite(o.side))
<1>1. Opposite(o.side) \in Side /\ Opposite(o.side) # o.side /\ o.side \in Side
  BY DEF OpType, Side, Opposite
<1>2. Sound(book) /\ IsFiniteSet(book.index)
  BY InvFacts DEF Kept
<1>3. CASE EnteredNew(o)
  BY <1>1, <1>2, <1>3 DEF EnteredNew, SameSide, OnSide
<1>4. CASE EnteredAgain(o)
  <2>1. /\ o.id \in book.index /\ Removable(book, o.id) /\ o.side = book.order[o.id].side
        /\ book' = Unindexed(Unlinked(book, o.id), o.id)
    BY <1>4 DEF EnteredAgain
  <2>2. Sound(book') /\ book'.index = book.index \ {o.id}
    BY <2>1, <1>2, UnlinkedSound
  <2>3. IsFiniteSet(book'.index)
    BY <2>2, <1>2, FS_Subset
  <2>4. SameSide(book, book', Opposite(o.side))
    BY <2>1, <1>1, <1>2, OtherSideStays
  <2> QED
    BY <2>2, <2>3, <2>4, <1>1, <1>2
<1> QED
  BY <1>3, <1>4 DEF Entered

(* What preflight starts from.                                             *)
Outset(qty) == [remaining |-> qty, executable |-> 0, fills |-> 0, cancels |-> 0,
                stopped |-> FALSE]

(* A command that enters the loop has been planned on the book it will     *)
(* match against.                                                          *)
LEMMA EntryForesight ==
  ASSUME Inv, NEW o \in OpType, Entered(o)
  PROVE  Foresight'
<1> DEFINE s == Opposite(o.side)
<1>1. /\ s \in Side /\ Sound(book) /\ IsFiniteSet(book.index)
      /\ Sound(book') /\ IsFiniteSet(book'.index) /\ SameSide(book, book', s)
  BY EntrySide
<1>2. /\ UNCHANGED config /\ phase' = "matching" /\ op' = o /\ plan' = Plan(o)
      /\ o.kind # "none"
  BY DEF Entered, Enter, Placeable
<1>3. /\ run'.remaining = o.qty /\ run'.executed = 0 /\ run'.fills = 0
      /\ run'.cancels = 0 /\ run'.stopped = FALSE
  BY DEF Entered, Enter, Emitted, NoRun
<1>4. o.qty \in 0..MaxQuantity /\ o.qty \in Nat
  BY WidthAssumption DEF OpType
<1>5. Acc' = Outset(o.qty) /\ Outset(o.qty) \in Progress
  BY <1>3, <1>4 DEF Acc, Outset, Progress
<1>6. PICK w : w = Preflight(book, s, o.qty, o.price, o.owner, config.policy)
  OBVIOUS
<1>7. w = Outlook(book, s, o.price, o.owner, config.policy, Outset(o.qty))
  BY <1>6 DEF Preflight, Outset
<1>8. w = Outlook(book', s, o.price, o.owner, config.policy, Outset(o.qty))
  BY <1>1, <1>5, <1>7, OutlookOtherSide
<1>9. PICK x : x = ExecutableQuantity(book, s, o.qty, o.price)
  OBVIOUS
<1>10. x = ExecutableQuantity(book', s, o.qty, o.price)
  BY <1>1, <1>9, ExecutableIsOffered, OfferedOtherSide
<1>11. x \in Nat
  <2>1. Offered(book, s, o.price) \in Nat
    BY <1>1, OfferedTyped
  <2> HIDE DEF s
  <2> QED
    BY <2>1, <1>4, <1>9, ExecutableIsOffered DEF Min2
<1>12. /\ plan'.fills = w.fills /\ plan'.cancels = w.cancels /\ plan'.stopped = w.stopped
       /\ plan'.executable =
            IF o.kind = "add" /\ config.policy = "Disabled" THEN x ELSE w.executable
  BY <1>2, <1>6, <1>9 DEF Plan
<1> HIDE DEF s
<1>13. Contra' = s
  BY <1>2 DEF Contra, s
<1>14. Foreseen'
  BY <1>2, <1>5, <1>8, <1>12, <1>13 DEF Foreseen, CountsLevels
<1>15. CountsLevels' => plan'.executable = Offer'
  BY <1>2, <1>3, <1>10, <1>11, <1>12, <1>13 DEF CountsLevels, Offer
<1>16. op'.kind # "none" => run'.executed + run'.remaining = op'.qty
  BY <1>2, <1>3, <1>4
<1>17. PlanIsExact'
  BY <1>2 DEF PlanIsExact, Planned
<1> QED
  BY <1>2, <1>3, <1>14, <1>15, <1>16, <1>17 DEF Foresight

(* A command that is over has nothing to compare with its plan.            *)
LEMMA IdleForesight ==
  ASSUME Foresight, phase = "idle", phase' = "done", op' = op
  PROVE  Foresight'
<1>1. op'.kind = "none"
  BY DEF Foresight, NoOp
<1> QED
  BY <1>1 DEF Foresight, PlanIsExact, Planned

(* When the loop is over, what was foreseen has happened.                  *)
Over ==
  /\ plan.fills = run.fills /\ plan.cancels = run.cancels /\ plan.stopped = run.stopped
  /\ plan.executable = run.executed

(* The loop ends when nothing of the plan is left.                         *)
LEMMA LoopEnds ==
  ASSUME Inv, Foresight, phase = "matching", ~CanMatch
  PROVE  Over
<1>1. /\ Sound(book) /\ IsFiniteSet(book.index) /\ Contra \in Side
      /\ run.remaining \in Nat /\ run.executed \in Nat
      /\ op.price \in Price \cup {NoPrice}
  BY InvFacts, WidthAssumption DEF Kept, RunType, OpType, Contra, Opposite, Side
<1>2. Acc \in Progress
  BY AccTyped
<1>3. \/ Sated(Acc)
      \/ CrossingPrices(book, Contra, op.price) = {} /\ Sweep(book, Contra, op.price) = {}
  <2>1. \/ run.remaining = 0 \/ run.stopped
        \/ book.best[Contra] = NoPrice \/ ~Crosses(Contra, book.best[Contra], op.price)
    <3>1. run.remaining = 0 \/ run.remaining > 0
      BY <1>1
    <3> QED
      BY <3>1 DEF CanMatch
  <2>2. run.remaining = 0 \/ run.stopped => Sated(Acc)
    BY DEF Sated, Acc
  <2> QED
    BY <2>1, <2>2, <1>1, NothingWithin
<1>4. Outlook(book, Contra, op.price, op.owner, config.policy, Acc) = Acc
  BY <1>1, <1>2, <1>3, OutlookDone
<1>5. /\ plan.fills = run.fills /\ plan.cancels = run.cancels /\ plan.stopped = run.stopped
      /\ ~CountsLevels => plan.executable = run.executed
  BY <1>4 DEF Foresight, Foreseen, Acc
<1>6. CASE CountsLevels
  <2>1. plan.executable = run.executed + Min2(run.remaining, Offered(book, Contra, op.price))
        /\ ~run.stopped
    BY <1>6, OfferIs DEF Foresight, CountsLevels
  <2>2. run.remaining = 0 \/ CrossingPrices(book, Contra, op.price) = {}
    BY <2>1, <1>3 DEF Sated, Acc
  <2>3. CrossingPrices(book, Contra, op.price) = {} => Offered(book, Contra, op.price) = 0
    BY SetSumEmpty DEF Offered
  <2>4. Offered(book, Contra, op.price) \in Nat
    BY <1>1, OfferedTyped
  <2>5. Min2(run.remaining, Offered(book, Contra, op.price)) = 0
    BY <2>2, <2>3, <2>4, <1>1 DEF Min2
  <2>6. plan.executable = run.executed
    BY <2>1, <2>5, <1>1
  <2> QED
    BY <2>6, <1>5 DEF Over
<1> QED
  BY <1>5, <1>6 DEF Over

(* Ending the command keeps the result but for its events.                 *)
Ending ==
  /\ phase = "matching" /\ ~CanMatch /\ phase' = "done"
  /\ UNCHANGED <<config, op, plan>>
  /\ run'.remaining = run.remaining /\ run'.executed = run.executed
  /\ run'.fills = run.fills /\ run'.cancels = run.cancels /\ run'.stopped = run.stopped

(* The end of a command leaves a plan that was exact.                      *)
LEMMA EndForesight ==
  ASSUME Inv, Foresight, Ending
  PROVE  Foresight'
<1>1. Over
  BY LoopEnds DEF Ending
<1>2. PlanIsExact'
  BY <1>1 DEF Over, Ending, PlanIsExact, Planned
<1>3. op'.kind # "none" => run'.executed + run'.remaining = op'.qty
  BY DEF Foresight, Ending
<1> QED
  BY <1>2, <1>3 DEF Foresight, Ending

(* A command that rests nothing ends so.                                   *)
LEMMA CompleteEnds ==
  ASSUME Inv, Complete
  PROVE  Ending
<1>1. run' = run \/ run' = Emitted(run, 1)
  BY DEF Complete
<1>2. run \in RunType
  BY InvFacts
<1> QED
  BY <1>1, <1>2, EmittedFields DEF Complete, Ending

(* A command that rests its residual ends so.                              *)
LEMMA RestEnds ==
  ASSUME Inv, RestResidual
  PROVE  Ending
<1>1. run' = run \/ run' = Emitted(run, 1)
  BY DEF RestResidual
<1>2. run \in RunType
  BY InvFacts
<1>3. /\ phase = "matching" /\ ~CanMatch /\ phase' = "done"
      /\ UNCHANGED <<config, op, plan>>
  BY DEF RestResidual
<1> QED
  BY <1>1, <1>2, <1>3, EmittedFields DEF Ending

(* Foresight is kept by every step.                                        *)
LEMMA NextKeepsForesight ==
  ASSUME Inv, Exact, Foresight, [Next]_vars
  PROVE  Foresight'
<1>1. CASE Command
  <2>1. phase = "idle" /\ Effect
    BY <1>1, CommandEffect
  <2>2. ASSUME Refused PROVE Foresight'
    BY <2>1, <2>2, IdleForesight DEF Refused
  <2>3. ASSUME NEW s \in Side, NEW p \in Price, Changed(s, p) PROVE Foresight'
    BY <2>1, <2>3, IdleForesight DEF Changed
  <2> QED
    BY <2>1, <2>2, <2>3, EntryForesight DEF Effect
<1>2. CASE Execute
  BY <1>2, FillForesight, CancelOwnForesight, StopForesight, CompleteEnds, RestEnds,
     EndForesight DEF Execute
<1>3. CASE Return
  BY <1>3 DEF Return, Foresight, PlanIsExact, Planned, NoOp
<1>4. CASE UNCHANGED vars
  BY <1>4 DEF vars, Foresight, Foreseen, Acc, CountsLevels, Offer, Contra, PlanIsExact,
     Planned
<1> QED
  BY <1>1, <1>2, <1>3, <1>4 DEF Next

(* Foresight is an invariant.                                              *)
LEMMA ForesightInvariance == Spec => []Foresight
<1>1. Init => Foresight
  BY DEF Init, Foresight, NoOp, PlanIsExact, Planned
<1> QED
  BY <1>1, Invariance, ExactInvariance, NextKeepsForesight, PTL DEF Spec

(* What the matching loop did (DenseBookSide::match) is what preflight     *)
(* said it would do: the same fills, the same cancels, the same executed   *)
(* quantity, and a stop by self-trade prevention exactly where one was     *)
(* foreseen. It holds for every book and every policy, though the loop     *)
(* changes the book under itself and the preflight walked it unchanged.    *)
THEOREM PlanIsAlwaysExact == Spec => []PlanIsExact
<1>1. Foresight => PlanIsExact
  BY DEF Foresight
<1> QED
  BY <1>1, ForesightInvariance, PTL

-----------------------------------------------------------------------------
(* Placement is invariant.                                                 *)

(* What the residual of the command in the loop will need.                 *)
RoomToRest ==
  /\ op.qty - plan.executable <= MaxQuantity - book.total[op.side][op.price]
  /\ Cardinality(book.index) < config.maxOrders
  /\ Cardinality(book.index) < config.idCapacity
  /\ op.kind = "add" => plan.idRoom

(* Placement before the end.                                               *)
Placeful ==
  /\ status = "none"
  /\ op.postOnly => CrossingPrices(book, Contra, op.price) = {}
  /\ HasResidual(op, plan) /\ op.kind # "market" => RoomToRest
  /\ op.postOnly => run.fills = 0 /\ run.cancels = 0 /\ ~run.stopped
  /\ op.tif = "Fok" => plan.executable >= op.qty /\ ~plan.stopped

(* Placement inside the matching loop.                                     *)
LEMMA PlacefulIs ==
  ASSUME phase = "matching", op.kind # "none"
  PROVE  Placement <=> Placeful
  BY DEF Placement, Placeful, RoomToRest, ResidualIsStored, Planned

(* The plan of a command in range has an executable quantity in range.     *)
LEMMA ExecutableTyped ==
  ASSUME Inv, NEW o \in OpType
  PROVE  Plan(o).executable \in Nat
<1> DEFINE s == Opposite(o.side)
<1>1. /\ s \in Side /\ Sound(book) /\ IsFiniteSet(book.index) /\ o.qty \in Nat
      /\ o.qty \in 0..MaxQuantity
  BY InvFacts, WidthAssumption DEF Kept, OpType, Opposite, Side
<1>2. PICK w : w = Preflight(book, s, o.qty, o.price, o.owner, config.policy)
  OBVIOUS
<1>3. PICK x : x = ExecutableQuantity(book, s, o.qty, o.price)
  OBVIOUS
<1>4. Plan(o).executable =
        IF o.kind = "add" /\ config.policy = "Disabled" THEN x ELSE w.executable
  BY <1>2, <1>3 DEF Plan
<1> HIDE DEF s
<1>5. Outset(o.qty) \in Progress
  BY <1>1 DEF Outset, Progress
<1>6. w = Outlook(book, s, o.price, o.owner, config.policy, Outset(o.qty))
  BY <1>2 DEF Preflight, Outset
<1>7. w \in Progress
  BY <1>1, <1>5, <1>6, OutlookGrows DEF Further
<1>8. w.executable \in Nat
  BY <1>7 DEF Progress
<1>9. Offered(book, s, o.price) \in Nat
  BY <1>1, OfferedTyped
<1>10. x \in Nat
  BY <1>1, <1>3, <1>9, ExecutableIsOffered DEF Min2
<1> QED
  BY <1>4, <1>8, <1>10

(* A post-only command enters only with nothing within its reach.          *)
LEMMA PassiveEntry ==
  ASSUME Inv, Exact, NEW o \in OpType, ~WouldCross(o), o.qty # 0
  PROVE  CrossingPrices(book, Opposite(o.side), o.price) = {}
<1> DEFINE s == Opposite(o.side)
<1>1. /\ s \in Side /\ Sound(book) /\ IsFiniteSet(book.index) /\ o.qty \in Nat
  BY InvFacts, WidthAssumption DEF Kept, OpType, Opposite, Side
<1>2. Sums(book) /\ \A id \in book.index : book.order[id].qty # 0
  BY DEF Exact, Exactly, Lots, WholeLot
<1>3. Min2(o.qty, Offered(book, s, o.price)) = 0
  BY ExecutableIsOffered DEF WouldCross
<1>4. Offered(book, s, o.price) \in Nat
  <2> HIDE DEF s
  <2> QED
    BY <1>1, OfferedTyped
<1>5. Offered(book, s, o.price) = 0
  <2> HIDE DEF s
  <2> QED
    BY <1>1, <1>3, <1>4 DEF Min2
<1> QED
  BY <1>1, <1>2, <1>5, NothingOffered

(* A new order that is accepted has room for its residual.                 *)
LEMMA NewHasRoom ==
  ASSUME Inv, Exact, phase = "idle", NEW o \in OpType, Entered(o), EnteredNew(o),
         o.kind # "market", HasResidual(o, Plan(o))
  PROVE  RoomToRest'
<1>1. /\ o.kind = "add" /\ o.price \in Price /\ o.side \in Side
      /\ o.qty \in 0..MaxQuantity
  BY DEF Entered, EnteredNew, Placeable, OpType
<1>2. /\ op' = o /\ plan' = Plan(o) /\ UNCHANGED <<book, config>>
  BY DEF Entered, Enter, EnteredNew
<1>3. /\ LevelStatus(o.side, o.price, o.qty - Plan(o).executable) = "Accepted"
      /\ book.used # config.maxOrders /\ Plan(o).idRoom
  <2>1. AddStatus(o, Plan(o)) = "Accepted"
    BY <1>1 DEF EnteredNew
  <2> QED
    BY <2>1 DEF AddStatus
<1>4. ~(MaxQuantity - book.total[o.side][o.price] < o.qty - Plan(o).executable)
  BY <1>3 DEF LevelStatus
<1>5. book.total[o.side][o.price] \in 0..MaxQuantity /\ Plan(o).executable \in Nat
  BY <1>1, InvFacts, ExecutableTyped DEF Sound, BookType
<1>6. o.qty - Plan(o).executable <= MaxQuantity - book.total[o.side][o.price]
  BY <1>1, <1>4, <1>5, WidthAssumption
<1>7. Cardinality(book.index) < config.maxOrders
  <2>1. book.used = Cardinality(book.index)
    BY InvFacts DEF Relisting
  <2> QED
    BY <2>1, <1>3, InvFacts
<1>8. Plan(o).idRoom = (Cardinality(book.index) < config.idCapacity)
  BY DEF Plan
<1> QED
  BY <1>2, <1>3, <1>6, <1>7, <1>8 DEF RoomToRest

(* So has a replacement, with what the replaced order gives back.          *)
LEMMA ReplacementHasRoom ==
  ASSUME Inv, Exact, phase = "idle", NEW o \in OpType, Entered(o), EnteredAgain(o),
         HasResidual(o, Plan(o))
  PROVE  RoomToRest'
<1> DEFINE old == book.order[o.id]
           left == o.qty - Plan(o).executable
           own == IF o.price = old.price THEN old.qty ELSE 0
           held == book.total[o.side][o.price]
<1>1. /\ o.kind = "replace" /\ o.price \in Price /\ o.side \in Side
      /\ o.qty \in 0..MaxQuantity /\ o.id \in book.index
      /\ o.side = old.side
  BY DEF Entered, EnteredAgain, Placeable, OpType
<1>2. /\ op' = o /\ plan' = Plan(o) /\ UNCHANGED config
      /\ book' = Unindexed(Unlinked(book, o.id), o.id)
  BY DEF Entered, Enter, EnteredAgain
<1>3. ReplacementStatus(o.id, o.price, left) = "Accepted"
  BY DEF EnteredAgain, ReentryStatus
<1>4. ~(MaxQuantity - (held - own) < left)
  BY <1>1, <1>3 DEF ReplacementStatus
<1>5. /\ Sound(book) /\ Sums(book) /\ Removable(book, o.id)
  BY InvFacts DEF Exact, Exactly, EnteredAgain
<1>6. /\ old.qty \in 0..MaxQuantity /\ held \in 0..MaxQuantity
      /\ old.price \in Price
  BY <1>1, <1>5, TotalHasOrder, OrderPlace DEF Sound, BookType
<1>7. Plan(o).executable \in Nat
  BY ExecutableTyped
<1>8. book'.total[o.side][o.price] = held - own
  <2>1. PICK s, p, i : Leaves(book, book', o.id, s, p, i)
    BY <1>1, <1>2, <1>5, UnlinkedChanges
  <2>2. s = o.side /\ p = old.price
    BY <2>1, <1>1 DEF Leaves
  <2>3. CASE o.price = old.price
    BY <2>1, <2>2, <2>3 DEF Leaves
  <2>4. CASE o.price # old.price
    <3>1. book'.total[o.side][o.price] = book.total[o.side][o.price]
      BY <2>1, <2>2, <2>4, <1>1 DEF Leaves, SameElsewhere
    <3> QED
      BY <3>1, <2>4, <1>6, WidthAssumption
  <2> QED
    BY <2>3, <2>4
<1>9. left <= MaxQuantity - book'.total[o.side][o.price]
  <2>1. own \in 0..MaxQuantity
    BY <1>6, WidthAssumption
  <2> HIDE DEF own, held, old
  <2> QED
    BY <2>1, <1>1, <1>4, <1>6, <1>7, <1>8, WidthAssumption
<1>10. /\ Cardinality(book'.index) < config.maxOrders
       /\ Cardinality(book'.index) < config.idCapacity
  <2>1. book'.index = book.index \ {o.id}
    BY <1>1, <1>2, <1>5, UnlinkedSound
  <2>2. Cardinality(book'.index) = Cardinality(book.index) - 1
    BY <2>1, <1>1, InvFacts, RemovedCount
  <2> QED
    BY <2>2, InvFacts
<1> QED
  BY <1>1, <1>2, <1>9, <1>10 DEF RoomToRest

(* A command that enters the loop has had its residual's room checked.     *)
LEMMA EntryPlacement ==
  ASSUME Inv, Exact, Placement, phase = "idle", NEW o \in OpType, Entered(o)
  PROVE  Placement'
<1>1. /\ phase' = "matching" /\ op' = o /\ plan' = Plan(o) /\ UNCHANGED <<config, status>>
      /\ o.kind # "none"
  BY DEF Entered, Enter, Placeable
<1>2. status' = "none"
  BY <1>1 DEF Placement
<1>3. run'.fills = 0 /\ run'.cancels = 0 /\ run'.stopped = FALSE
  BY DEF Entered, Enter, Emitted, NoRun
<1>4. /\ o.postOnly => o.kind # "market" /\ ~WouldCross(o) /\ o.qty # 0
      /\ ~FokFails(o, Plan(o))
  <2>1. CASE EnteredNew(o)
    <3>1. CASE o.kind = "add"
      <4>1. AddStatus(o, Plan(o)) = "Accepted"
        BY <2>1, <3>1 DEF EnteredNew
      <4> QED
        BY <4>1, <3>1 DEF AddStatus, TermsStatus, LotStatus
    <3>2. CASE o.kind = "market"
      BY <2>1, <3>2 DEF EnteredNew, FokFails
    <3> QED
      BY <2>1, <3>1, <3>2, <1>1 DEF EnteredNew, OpType
  <2>2. CASE EnteredAgain(o)
    BY <2>2 DEF EnteredAgain, TermsStatus, LotStatus, ReentryStatus
  <2> QED
    BY <2>1, <2>2 DEF Entered
<1>5. op'.postOnly => CrossingPrices(book', Contra', op'.price) = {}
  <2> SUFFICES ASSUME o.postOnly PROVE CrossingPrices(book', Opposite(o.side), o.price) = {}
    BY <1>1 DEF Contra
  <2>1. CrossingPrices(book, Opposite(o.side), o.price) = {}
    BY <1>4, PassiveEntry
  <2> QED
    BY <2>1, EntrySide, OfferedOtherSide
<1>6. HasResidual(op', plan') /\ op'.kind # "market" => RoomToRest'
  BY <1>1, NewHasRoom, ReplacementHasRoom DEF Entered, EnteredAgain
<1>7. op'.tif = "Fok" => plan'.executable >= op'.qty /\ ~plan'.stopped
  <2>1. Plan(o).executable \in Nat /\ o.qty \in Nat
    BY ExecutableTyped, WidthAssumption DEF OpType
  <2>2. o.tif = "Fok" => ~(Plan(o).executable < o.qty) /\ ~Plan(o).stopped
    BY <1>4 DEF FokFails
  <2> QED
    BY <2>1, <2>2, <1>1
<1>8. Placeful'
  BY <1>1, <1>2, <1>3, <1>5, <1>6, <1>7 DEF Placeful, HasResidual
<1>9. phase' = "matching" /\ op'.kind # "none"
  BY <1>1
<1> QED
  BY <1>1, <1>8 DEF Placement, Placeful, RoomToRest, ResidualIsStored, Planned

(* A turn of the loop leaves the aggressor's own side alone.               *)
LEMMA TurnPlacement ==
  ASSUME Inv, Exact, Placement, CanMatch,
         UNCHANGED <<config, phase, op, plan, status>>,
         IsFiniteSet(book.index), book'.index \subseteq book.index,
         op.kind # "market" => book'.total[op.side][op.price] = book.total[op.side][op.price]
  PROVE  Placement'
<1>1. phase = "matching" /\ op.kind # "none"
  BY DEF CanMatch, Inv, OpIsPlaceable
<1>2. Placeful
  BY <1>1, PlacefulIs
<1>3. ~op.postOnly
  <2>1. /\ Contra \in Side /\ book.best[Contra] # NoPrice
        /\ Crosses(Contra, book.best[Contra], op.price) /\ Sound(book)
        /\ book.best[Contra] \in Price
    BY TurnFacts
  <2>2. book.best[Contra] \in Occupied(book, Contra)
    BY <2>1 DEF Sound, BestIsCached
  <2>3. book.best[Contra] \in CrossingPrices(book, Contra, op.price)
    BY <2>1, <2>2, ReachIsFinite
  <2> QED
    BY <2>3, <1>2 DEF Placeful
<1>4. /\ Cardinality(book'.index) <= Cardinality(book.index)
      /\ Cardinality(book'.index) \in Nat /\ Cardinality(book.index) \in Nat
  BY FS_Subset, FS_CardinalityType
<1>5. HasResidual(op', plan') /\ op'.kind # "market" => RoomToRest'
  <2> SUFFICES ASSUME HasResidual(op, plan), op.kind # "market" PROVE RoomToRest'
    BY DEF HasResidual
  <2>1. RoomToRest
    BY <1>2 DEF Placeful
  <2>2. /\ Cardinality(book'.index) < config.maxOrders
        /\ Cardinality(book'.index) < config.idCapacity
    BY <2>1, <1>4, InvFacts DEF RoomToRest
  <2> QED
    BY <2>1, <2>2 DEF RoomToRest
<1>6. Placeful'
  BY <1>2, <1>3, <1>5 DEF Placeful, HasResidual
<1> QED
  BY <1>1, <1>6 DEF Placement, Placeful, RoomToRest, ResidualIsStored, Planned

(* A turn of the loop takes no room from the residual.                     *)
LEMMA ExecutePlacement ==
  ASSUME Inv, Exact, Placement, Trade \/ CancelOwnResting \/ StopAggressor
  PROVE  Placement'
<1>1. CanMatch
  BY DEF Trade, CancelOwnResting, StopAggressor
<1>2. /\ IsFiniteSet(book.index) /\ Contra \in Side /\ op.side # Contra /\ op.side \in Side
      /\ op.kind # "market" => op.price \in Price
  BY <1>1, InvFacts DEF Kept, OpType, Contra, Opposite, Side, CanMatch, Inv, OpIsPlaceable
<1>3. ASSUME NEW p, SameElsewhere(book, book', Contra, p), op.kind # "market"
      PROVE  book'.total[op.side][op.price] = book.total[op.side][op.price]
  BY <1>2, <1>3 DEF SameElsewhere
<1>4. ASSUME FrontLeft(book, book', Contra)
      PROVE  /\ book'.index \subseteq book.index
             /\ SameElsewhere(book, book', Contra, book.best[Contra])
  BY <1>4 DEF FrontLeft, Leaves
<1>5. CASE Trade
  <2>1. PICK x : Fills(x)
    BY <1>5, TradeFills
  <2>2. /\ book'.index \subseteq book.index
        /\ SameElsewhere(book, book', Contra, book.best[Contra])
    BY <2>1, <1>4 DEF Fills, Shortened
  <2>3. UNCHANGED <<config, phase, op, plan, status>>
    BY <2>1 DEF Fills
  <2> QED
    BY <2>2, <2>3, <1>1, <1>2, <1>3, TurnPlacement
<1>6. CASE CancelOwnResting
  <2>1. CancelsOwn
    BY <1>6, CancelOwnCancels
  <2> QED
    BY <2>1, <1>1, <1>2, <1>3, <1>4, TurnPlacement DEF CancelsOwn
<1>7. CASE StopAggressor
  <2>1. UNCHANGED <<config, phase, op, plan, status, book>>
    BY <1>7 DEF StopAggressor
  <2> QED
    BY <2>1, <1>1, <1>2, TurnPlacement
<1> QED
  BY <1>5, <1>6, <1>7

(* Nothing stops a residual from resting.                                  *)
LEMMA ResidualRests ==
  ASSUME Inv, Exact, Foresight, Placement, phase = "matching", ~CanMatch, Rests
  PROVE  RestStatus = "Accepted"
<1>1. /\ Over /\ op.kind # "none" /\ op.kind # "market" /\ op.price \in Price
  BY LoopEnds DEF Inv, OpIsPlaceable, Rests
<1>2. Placeful
  BY <1>1, PlacefulIs
<1>3. /\ run.remaining \in 0..MaxQuantity /\ run.remaining \in Nat
      /\ run.executed \in Nat /\ op.qty \in Nat
      /\ op.tif \in TimeInForce /\ op.side \in Side
      /\ run.executed + run.remaining = op.qty
      /\ run.remaining > 0 /\ ~run.stopped
  BY <1>1, InvFacts, WidthAssumption DEF RunType, OpType, Foresight, Rests
<1>4. plan.executable = run.executed /\ plan.stopped = run.stopped
  BY <1>1 DEF Over
<1>5. op.tif = "Gtc"
  <2>1. ~(plan.executable >= op.qty)
    BY <1>3, <1>4
  <2> QED
    BY <2>1, <1>2, <1>3 DEF Placeful, Rests, TimeInForce
<1>6. HasResidual(op, plan)
  <2>1. plan.executable < op.qty
    BY <1>3, <1>4
  <2> QED
    BY <2>1, <1>3, <1>4, <1>5 DEF HasResidual
<1>7. RoomToRest
  BY <1>1, <1>2, <1>6 DEF Placeful
<1>8. /\ op.qty - plan.executable = run.remaining
      /\ book.total[op.side][op.price] \in 0..MaxQuantity
  BY <1>1, <1>3, <1>4, InvFacts DEF Sound, BookType
<1>9. ~(MaxQuantity - book.total[op.side][op.price] < run.remaining)
  BY <1>3, <1>7, <1>8, WidthAssumption DEF RoomToRest
<1>10. ~FullSide(op.side, op.price)
  <2>1. /\ Cardinality(Occupied(book, op.side)) \in Nat
        /\ Cardinality(Occupied(book, op.side)) <= Cardinality(book.index)
        /\ Cardinality(book.index) \in Nat
    BY <1>3, InvFacts, FewLevels DEF Kept
  <2>2. ~(Cardinality(Occupied(book, op.side)) >= config.maxOrders)
    BY <2>1, <1>7, InvFacts DEF RoomToRest
  <2> QED
    BY <2>2 DEF FullSide
<1>11. LevelStatus(op.side, op.price, run.remaining) = "Accepted"
  BY <1>9, <1>10 DEF LevelStatus
<1>12. /\ op.kind = "add" => plan.idRoom
       /\ Cardinality(book.index) # config.idCapacity
       /\ op.kind = "add" => book.used # config.maxOrders
  <2>1. op.kind = "add" => book.used = Cardinality(book.index)
    BY InvFacts DEF Relisting
  <2> QED
    BY <2>1, <1>7, InvFacts DEF RoomToRest
<1> QED
  BY <1>11, <1>12 DEF RestStatus

(* It is in the book afterwards.                                           *)
LEMMA RestedIsStored ==
  ASSUME Inv, RestResidual, RestStatus = "Accepted"
  PROVE  /\ op.id \in book'.index /\ book'.order[op.id].qty = run.remaining
         /\ run' = Emitted(run, 1)
         /\ status' \in {"Accepted", "PartiallyFilled"}
         /\ feed' = Publish(feed, book, book', op.side, op.price)
         /\ op.side \in Side /\ op.price \in Price
         /\ Sound(book') /\ SameElsewhere(book, book', op.side, op.price)
         /\ \A t \in Side : t # op.side => book'.best[t] = book.best[t]
<1> DEFINE taken == IF op.kind = "add" THEN [book EXCEPT !.used = @ + 1] ELSE book
           b == Rested(taken, op.id, op.side, op.price, run.remaining, op.owner)
<1>1. /\ phase = "matching" /\ Rests /\ book' = b
      /\ run' = Emitted(run, 1) /\ status' \in {"Accepted", "PartiallyFilled"}
      /\ feed' = Publish(feed, book, b, op.side, op.price)
  BY DEF RestResidual
<1>2. /\ op.id \in OrderId /\ op.side \in Side /\ op.price \in Price
  BY <1>1, RestStatusFacts
<1>3. /\ book \in BookType /\ book.used \in Nat
  BY InvFacts DEF Sound
<1>4. /\ taken \in BookType /\ taken.level = book.level /\ taken.total = book.total
      /\ taken.best = book.best
  <2>1. CASE op.kind = "add"
    <3>1. book.used + 1 \in Nat
      BY <1>3
    <3> QED
      BY <2>1, <3>1, <1>3 DEF BookType
  <2>2. CASE op.kind # "add"
    BY <2>2, <1>3
  <2> QED
    BY <2>1, <2>2
<1> HIDE DEF taken
<1>5. SameElsewhere(taken, b, op.side, op.price) /\ b.order[op.id].qty = run.remaining
  BY <1>2, <1>4, RestedChanges
<1>6. op.id \in b.index
  BY <1>2, <1>4 DEF Rested, BookType
<1>7. \A t \in Side : t # op.side => b.best[t] = taken.best[t]
  BY <1>2, <1>4 DEF Rested, BookType
<1>8. Sound(book')
  BY RestKeepsInv, Zenon DEF Inv, TypeOK, BestIsBest, IndexIsExact, Sound
<1> HIDE DEF b
<1> QED
  BY <1>1, <1>2, <1>4, <1>5, <1>6, <1>7, <1>8 DEF SameElsewhere

(* The end of a command.                                                   *)
LEMMA EndPlacement ==
  ASSUME Inv, Exact, Foresight, Placement, Complete \/ RestResidual
  PROVE  Placement'
<1>1. Ending
  BY CompleteEnds, RestEnds
<1>2. /\ phase = "matching" /\ ~CanMatch /\ phase' = "done" /\ UNCHANGED <<op, plan>>
      /\ run'.remaining = run.remaining /\ run'.fills = run.fills
      /\ run'.cancels = run.cancels /\ run'.stopped = run.stopped
  BY <1>1 DEF Ending
<1>3. Placeful /\ op.kind # "none"
  BY <1>2, PlacefulIs DEF Inv, OpIsPlaceable
<1>4. status' # "InternalError" /\ ResidualIsStored'
  <2>1. CASE Complete
    <3>1. ~Rests /\ op.kind # "none"
      BY <2>1, <1>3 DEF Complete
    <3>2. status' \in {"SelfTradePrevented", "NoLiquidity", "Filled", "PartiallyFilled"}
      BY <2>1 DEF Complete
    <3>3. ~(op.tif = "Gtc" /\ op.kind # "market" /\ run.remaining > 0 /\ ~run.stopped)
      BY <3>1 DEF Rests
    <3> QED
      BY <3>2, <3>3, <1>2 DEF ResidualIsStored
  <2>2. CASE RestResidual
    <3>1. RestStatus = "Accepted"
      BY <2>2, <1>2, ResidualRests DEF RestResidual
    <3>2. /\ op.id \in book'.index /\ book'.order[op.id].qty = run.remaining
          /\ status' \in {"Accepted", "PartiallyFilled"}
      BY <2>2, <3>1, RestedIsStored
    <3> QED
      BY <3>2, <1>2 DEF ResidualIsStored
  <2> QED
    BY <2>1, <2>2
<1> QED
  BY <1>2, <1>3, <1>4 DEF Placement, Placeful

(* A command that does not match keeps Placement.                          *)
LEMMA IdlePlacement ==
  ASSUME Foresight, phase = "idle", phase' = "done", op' = op, status' # "InternalError"
  PROVE  Placement'
<1>1. op'.kind = "none"
  BY DEF Foresight, NoOp
<1> QED
  BY <1>1 DEF Placement, ResidualIsStored, Planned

(* Every step keeps Placement.                                             *)
LEMMA NextKeepsPlacement ==
  ASSUME Inv, Exact, Foresight, Placement, [Next]_vars
  PROVE  Placement'
<1>1. CASE Command
  <2>1. phase = "idle" /\ Effect
    BY <1>1, CommandEffect
  <2>2. ASSUME Refused PROVE Placement'
    BY <2>1, <2>2, IdlePlacement DEF Refused
  <2>3. ASSUME NEW s \in Side, NEW p \in Price, Changed(s, p) PROVE Placement'
    BY <2>1, <2>3, IdlePlacement DEF Changed
  <2> QED
    BY <2>1, <2>2, <2>3, EntryPlacement DEF Effect
<1>2. CASE Execute
  BY <1>2, ExecutePlacement, EndPlacement DEF Execute
<1>3. CASE Return
  BY <1>3 DEF Return, Placement, ResidualIsStored, Planned, NoOp
<1>4. CASE UNCHANGED vars
  BY <1>4 DEF vars, Placement, Contra, HasResidual, ResidualIsStored, Planned
<1> QED
  BY <1>1, <1>2, <1>3, <1>4 DEF Next

(* Placement is an invariant.                                              *)
LEMMA PlacementInvariance == Spec => []Placement
<1>1. Init => Placement
  BY DEF Init, Placement, NoOp, ResidualIsStored, Planned
<1> QED
  BY <1>1, Invariance, ExactInvariance, ForesightInvariance, NextKeepsPlacement, PTL DEF Spec

(* A command that got past its checks never fails for want of storage: the *)
(* level total, the pool slot and the index entry promised to the residual *)
(* are there when it rests (can_accept_residual, residual_reject_status).  *)
THEOREM ResidualsAreStored == Spec => []ResidualIsStored
<1>1. Placement => ResidualIsStored
  BY DEF Placement
<1> QED
  BY <1>1, PlacementInvariance, PTL

(* A post-only order takes no liquidity and cancels nobody: what was       *)
(* within its limit when add_limit_order or replace_order checked,         *)
(* nothing, is still so in the loop.                                       *)
THEOREM PostOnlyIsAlwaysPassive == Spec => []PostOnlyIsPassive
<1>1. Placement => PostOnlyIsPassive
  BY DEF Placement, PostOnlyIsPassive, Planned
<1> QED
  BY <1>1, PlacementInvariance, PTL

(* A fill-or-kill order that gets past its checks is filled whole, also    *)
(* when self-trade prevention cancels resting orders on its way; and no    *)
(* command ends in InternalError.                                          *)
THEOREM FillOrKillFills == Spec => []FillOrKill
<1>1. Inv /\ Foresight /\ Placement => FillOrKill
  <2> SUFFICES ASSUME Inv, Foresight, Placement, Planned, op.tif = "Fok"
               PROVE  run.remaining = 0
    BY DEF FillOrKill, Placement
  <2>1. /\ run.executed = plan.executable /\ run.executed + run.remaining = op.qty
        /\ plan.executable >= op.qty
    BY DEF Foresight, Placement, PlanIsExact, Planned
  <2>2. run.executed \in Nat /\ run.remaining \in Nat /\ op.qty \in Nat
    BY InvFacts, WidthAssumption DEF RunType, OpType
  <2> QED
    BY <2>1, <2>2
<1> QED
  BY <1>1, Invariance, ForesightInvariance, PlacementInvariance, PTL

-----------------------------------------------------------------------------
(* What a change publishes.                                                *)

(* f is what a subscriber to book b should hold.                           *)
Mirrors(f, b) ==
  \A s \in Side :
    /\ f.best[s] = Quote(b, s)
    /\ \A p \in Price : f.depth[s][p] = Depth(b, s, p)

(* FeedMirrorsBook, of any feed and book.                                  *)
LEMMA MirrorIs == FeedMirrorsBook <=> (config.marketCapacity # 0 => Mirrors(feed, book))
  BY DEF FeedMirrorsBook, Mirrors

(* g is f with n more events.                                              *)
Longer(g, f, n) == g.count = f.count + n /\ g.seq = f.seq + n

(* With room, an event gets through.                                       *)
LEMMA PostedThrough ==
  ASSUME config \in Configs, NEW f \in FeedType, RoomFor(f, 1), NEW g \in FeedType,
         NEW h, h = Posted(f, g)
  PROVE  /\ h \in FeedType /\ Longer(h, f, 1) /\ h.depth = g.depth /\ h.best = g.best
<1>1. /\ f.count \in Nat /\ f.seq \in Nat /\ config.marketCapacity \in Nat
      /\ MaxMarketSequence \in Nat /\ f.seq \in 0..MaxMarketSequence
  BY ConfigAssumption, InputAssumption DEF FeedType
<1>2. ~(f.count = config.marketCapacity \/ f.seq = MaxMarketSequence)
  BY <1>1 DEF RoomFor
<1>3. h = [g EXCEPT !.seq = f.seq + 1, !.count = f.count + 1]
  BY <1>2 DEF Posted
<1>4. h \in FeedType
  BY PostedTyped
<1> QED
  BY <1>3, <1>4 DEF Longer, FeedType

(* Without a log, nothing gets through.                                    *)
LEMMA PostedNowhere ==
  ASSUME NEW f, f.count = 0, config.marketCapacity = 0, NEW g
  PROVE  Posted(f, g) = f
  BY DEF Posted

(* Without market data, a change publishes nothing.                        *)
LEMMA PublishNowhere ==
  ASSUME NEW f, f.count = 0, config.marketCapacity = 0, NEW b, NEW c, NEW s, NEW p
  PROVE  Publish(f, b, c, s, p) = f
  BY PostedNowhere DEF Publish

(* Book b became c by a change of one level.                               *)
OneLevel(b, c, s, p) ==
  SameElsewhere(b, c, s, p) /\ \A t \in Side : t # s => c.best[t] = b.best[t]

(* Depth and quote depend on the levels and the best prices only.          *)
LEMMA OtherDepthSame ==
  ASSUME NEW b, NEW c, Sound(b), NEW s \in Side, NEW p \in Price, OneLevel(b, c, s, p)
  PROVE  /\ \A t \in Side, q \in Price : ~(t = s /\ q = p) => Depth(c, t, q) = Depth(b, t, q)
         /\ \A t \in Side : t # s => Quote(c, t) = Quote(b, t)
<1>1. \A t \in Side, q \in Price : ~(t = s /\ q = p) =>
        c.level[t][q] = b.level[t][q] /\ c.total[t][q] = b.total[t][q]
  BY DEF OneLevel, SameElsewhere
<1>2. \A t \in Side, q \in Price : ~(t = s /\ q = p) => Depth(c, t, q) = Depth(b, t, q)
  BY <1>1 DEF Depth
<1>3. ASSUME NEW t \in Side, t # s PROVE Quote(c, t) = Quote(b, t)
  <2>1. c.best[t] = b.best[t] /\ b.best[t] \in Price \cup {NoPrice}
    BY <1>3 DEF OneLevel, Sound, BookType
  <2>2. CASE b.best[t] = NoPrice
    BY <2>1, <2>2 DEF Quote
  <2>3. CASE b.best[t] # NoPrice
    <3>1. /\ c.level[t][b.best[t]] = b.level[t][b.best[t]]
          /\ c.total[t][b.best[t]] = b.total[t][b.best[t]]
      BY <1>1, <1>3, <2>1, <2>3
    <3> QED
      BY <2>1, <3>1 DEF Quote
  <2> QED
    BY <2>2, <2>3
<1> QED
  BY <1>2, <1>3

(* With room for two events, a subscriber follows a change of one level.   *)
LEMMA PublishMirrors ==
  ASSUME config \in Configs, NEW f \in FeedType, RoomFor(f, 2),
         NEW b, Sound(b), NEW c, Sound(c), NEW s \in Side, NEW p \in Price,
         OneLevel(b, c, s, p), Mirrors(f, b),
         NEW g, g = Publish(f, b, c, s, p)
  PROVE  Mirrors(g, c) /\ \E n \in {1, 2} : Longer(g, f, n)
<1> DEFINE f1 == [f EXCEPT !.depth[s][p] = Depth(c, s, p)]
           level == Posted(f, f1)
           f2 == [level EXCEPT !.best[s] = Quote(c, s)]
<1>1. /\ f.count \in Nat /\ f.seq \in Nat /\ config.marketCapacity \in Nat
      /\ MaxMarketSequence \in Nat
  BY ConfigAssumption, InputAssumption DEF FeedType
<1>2. Quote(c, s) \in QuoteType /\ Depth(c, s, p) \in DepthType
  BY QuoteTyped
<1>3. /\ f1 \in FeedType /\ f1.best = f.best
      /\ f1.depth[s][p] = Depth(c, s, p)
      /\ \A t \in Side, q \in Price : ~(t = s /\ q = p) => f1.depth[t][q] = f.depth[t][q]
  BY <1>2 DEF FeedType, DepthType
<1>4. RoomFor(f, 1)
  BY <1>1 DEF RoomFor
<1> HIDE DEF f1
<1>5. /\ level \in FeedType /\ Longer(level, f, 1)
      /\ level.depth = f1.depth /\ level.best = f1.best
  BY <1>3, <1>4, PostedThrough
<1>6. RoomFor(level, 1)
  BY <1>1, <1>5 DEF RoomFor, Longer
<1>7. g = IF Quote(b, s) = Quote(c, s) THEN level ELSE Posted(level, f2)
  BY DEF Publish, f1
<1> HIDE DEF level
<1>8. /\ f2 \in FeedType /\ f2.depth = level.depth
      /\ f2.best[s] = Quote(c, s)
      /\ \A t \in Side : t # s => f2.best[t] = level.best[t]
  BY <1>2, <1>5 DEF FeedType, QuoteType
<1> HIDE DEF f2
<1>9. /\ Longer(Posted(level, f2), level, 1)
      /\ Posted(level, f2).depth = f2.depth /\ Posted(level, f2).best = f2.best
  BY <1>5, <1>6, <1>8, PostedThrough
<1>10. g.depth = f1.depth
  BY <1>5, <1>7, <1>8, <1>9
<1>11. \A t \in Side, q \in Price : g.depth[t][q] = Depth(c, t, q)
  BY <1>3, <1>10, OtherDepthSame DEF Mirrors
<1>12. \A t \in Side : g.best[t] = Quote(c, t)
  <2> SUFFICES ASSUME NEW t \in Side PROVE g.best[t] = Quote(c, t)
    OBVIOUS
  <2>1. f.best[t] = Quote(b, t)
    BY DEF Mirrors
  <2>2. t # s => Quote(c, t) = Quote(b, t)
    BY OtherDepthSame
  <2>3. CASE Quote(b, s) = Quote(c, s)
    BY <2>1, <2>2, <2>3, <1>3, <1>5, <1>7
  <2>4. CASE Quote(b, s) # Quote(c, s)
    BY <2>1, <2>2, <2>4, <1>3, <1>5, <1>7, <1>8, <1>9
  <2> QED
    BY <2>3, <2>4
<1>13. \E n \in {1, 2} : Longer(g, f, n)
  <2>1. CASE Quote(b, s) = Quote(c, s)
    BY <2>1, <1>5, <1>7
  <2>2. CASE Quote(b, s) # Quote(c, s)
    <3>1. Longer(g, f, 2)
      BY <2>2, <1>1, <1>5, <1>7, <1>9 DEF Longer
    <3> QED
      BY <3>1
  <2> QED
    BY <2>1, <2>2
<1> QED
  BY <1>11, <1>12, <1>13 DEF Mirrors

-----------------------------------------------------------------------------
(* The room a command reserved.                                            *)

(* used of the quotes reserved are spent at most.                          *)
Within(f, used, quotes) == f.count <= used /\ RoomFor(f, quotes - f.count)

(* A change of one level follows suit as long as it was reserved for.      *)
LEMMA ReservedPublish ==
  ASSUME config \in Configs, config.marketCapacity # 0, NEW f \in FeedType,
         NEW used \in Nat, NEW quotes \in Nat, Within(f, used, quotes), used + 2 <= quotes,
         NEW b, Sound(b), NEW c, Sound(c), NEW s \in Side, NEW p \in Price,
         OneLevel(b, c, s, p), Mirrors(f, b),
         NEW g, g = Publish(f, b, c, s, p)
  PROVE  Mirrors(g, c) /\ Within(g, used + 2, quotes)
<1>1. /\ f.count \in Nat /\ f.seq \in Nat /\ config.marketCapacity \in Nat
      /\ MaxMarketSequence \in Nat
  BY ConfigAssumption, InputAssumption DEF FeedType
<1>2. RoomFor(f, 2)
  BY <1>1 DEF RoomFor, Within
<1>3. Mirrors(g, c) /\ \E n \in {1, 2} : Longer(g, f, n)
  BY <1>2, PublishMirrors
<1>4. PICK n \in {1, 2} : Longer(g, f, n)
  BY <1>3
<1>5. Within(g, used + 2, quotes)
  BY <1>1, <1>4 DEF Within, RoomFor, Longer
<1> QED
  BY <1>3, <1>5

(* So does the trade event before it.                                      *)
LEMMA ReservedTrade ==
  ASSUME config \in Configs, NEW f \in FeedType,
         NEW used \in Nat, NEW quotes \in Nat, Within(f, used, quotes), used + 1 <= quotes,
         NEW b, Mirrors(f, b), NEW g, g = Posted(f, f)
  PROVE  g \in FeedType /\ Mirrors(g, b) /\ Within(g, used + 1, quotes)
<1>1. /\ f.count \in Nat /\ f.seq \in Nat /\ config.marketCapacity \in Nat
      /\ MaxMarketSequence \in Nat
  BY ConfigAssumption, InputAssumption DEF FeedType
<1>2. RoomFor(f, 1)
  BY <1>1 DEF RoomFor, Within
<1>3. g \in FeedType /\ Longer(g, f, 1) /\ g.depth = f.depth /\ g.best = f.best
  BY <1>2, PostedThrough
<1>4. Within(g, used + 1, quotes)
  BY <1>1, <1>3 DEF Within, RoomFor, Longer
<1> QED
  BY <1>3, <1>4 DEF Mirrors

(* CanPublish reserves the room.                                           *)
LEMMA RoomReserved ==
  ASSUME Inv, feed.count = 0, config.marketCapacity # 0, NEW n \in Nat, CanPublish(n)
  PROVE  Within(feed, 0, n)
<1>1. /\ feed.seq \in 0..MaxMarketSequence /\ config.marketCapacity \in Nat
      /\ MaxMarketSequence \in Nat
  BY InvFacts, ConfigAssumption, InputAssumption DEF FeedType
<1>2. CASE n = 0
  BY <1>1, <1>2 DEF Within, RoomFor
<1>3. CASE n # 0
  <2>1. n <= config.marketCapacity /\ n <= MaxMarketSequence - feed.seq
    BY <1>3 DEF CanPublish
  <2> QED
    BY <1>1, <2>1 DEF Within, RoomFor
<1> QED
  BY <1>2, <1>3

-----------------------------------------------------------------------------
(* What the loop has spent of its reservation.                             *)

(* The most market-data events a command has published after some fills    *)
(* and cancels.                                                            *)
Spent(o, fills, cancels) ==
  3 * fills + 2 * cancels + (IF o.kind = "replace" THEN 2 ELSE 0)

(* What is reserved covers what fills and cancellations within the plan    *)
(* take; a residual takes the rest.                                        *)
LEMMA PlanCovers ==
  ASSUME NEW o \in OpType, o.kind # "none", NEW w, w.fills \in Nat, w.cancels \in Nat,
         NEW x, NEW fills \in Nat, fills <= w.fills, NEW cancels \in Nat, cancels <= w.cancels
  PROVE  /\ Announced[o.kind] \in Nat /\ Spent(o, fills, cancels) \in Nat
         /\ EventsNeeded(o, w, x) \in Nat /\ QuotesNeeded(o, w, x) \in Nat
         /\ Announced[o.kind] + fills + cancels <= EventsNeeded(o, w, x)
         /\ config.marketCapacity # 0 => Spent(o, fills, cancels) <= QuotesNeeded(o, w, x)
<1>1. Announced[o.kind] \in Nat
  BY DEF Announced, OpType
<1>2. EventsNeeded(o, w, x) =
        Announced[o.kind] + w.fills + w.cancels + (IF Leftover(o, x) THEN 1 ELSE 0)
  BY DEF EventsNeeded, Announced
<1>3. EventsNeeded(o, w, x) \in Nat
      /\ Announced[o.kind] + fills + cancels <= EventsNeeded(o, w, x)
  BY <1>1, <1>2
<1>4. Spent(o, fills, cancels) \in Nat
  BY DEF Spent
<1>5. CASE config.marketCapacity = 0
  BY <1>1, <1>3, <1>4, <1>5 DEF QuotesNeeded
<1>6. CASE config.marketCapacity # 0
  <2>1. QuotesNeeded(o, w, x) =
          Spent(o, w.fills, w.cancels) + (IF Leftover(o, x) /\ ~w.stopped THEN 2 ELSE 0)
    BY <1>6 DEF QuotesNeeded, Spent
  <2>2. Spent(o, fills, cancels) <= Spent(o, w.fills, w.cancels)
        /\ Spent(o, w.fills, w.cancels) \in Nat
    BY DEF Spent
  <2> QED
    BY <2>1, <2>2, <1>1, <1>3, <1>4
<1> QED
  BY <1>5, <1>6

(* The command never gets ahead of its plan.                               *)
LEMMA NextWithinPlan ==
  ASSUME Inv', Foresight', phase' = "matching"
  PROVE  /\ plan'.fills \in Nat /\ plan'.cancels \in Nat
         /\ run'.fills \in Nat /\ run'.cancels \in Nat
         /\ run'.fills <= plan'.fills /\ run'.cancels <= plan'.cancels
<1>1. /\ Sound(book') /\ IsFiniteSet(book'.index) /\ run' \in RunType
  BY DEF Inv, TypeOK, BestIsBest, IndexIsExact, Sound
<1>2. Contra' \in Side
  BY DEF Contra, Opposite, Side
<1>3. Acc' \in Progress
  BY NextAccTyped
<1>4. PICK s : s = Contra'
  OBVIOUS
<1>5. PICK acc \in Progress : acc = Acc'
  BY <1>3
<1>6. PICK w : w = Outlook(book', s, op'.price, op'.owner, config'.policy, acc)
  OBVIOUS
<1>7. w \in Further(acc)
  BY <1>1, <1>2, <1>4, <1>6, OutlookGrows
<1>8. plan'.fills = w.fills /\ plan'.cancels = w.cancels
  BY <1>4, <1>5, <1>6 DEF Foresight, Foreseen
<1>9. acc.fills = run'.fills /\ acc.cancels = run'.cancels
  BY <1>5 DEF Acc
<1>10. /\ w.fills \in Nat /\ w.cancels \in Nat /\ w.fills >= acc.fills
       /\ w.cancels >= acc.cancels
       /\ acc.fills \in Nat /\ acc.cancels \in Nat
  BY <1>7 DEF Further, Progress
<1> QED
  BY <1>8, <1>9, <1>10

(* The reservation of a command in the loop.                               *)
Reserved ==
  /\ run.events = Announced[op.kind] + run.fills + run.cancels
  /\ plan.events = EventsNeeded(op, plan, plan.executable)
  /\ plan.quotes = QuotesNeeded(op, plan, plan.executable)
  /\ plan.events <= config.eventCapacity
  /\ IF config.marketCapacity = 0 THEN feed.count = 0
     ELSE /\ Mirrors(feed, book)
          /\ Within(feed, Spent(op, run.fills, run.cancels), plan.quotes)

(* Reserve inside the matching loop.                                       *)
LEMMA ReserveIs ==
  ASSUME phase = "matching", Reserve
  PROVE  Reserved
<1>1. config.marketCapacity # 0 => Mirrors(feed, book)
  BY MirrorIs DEF Reserve
<1> QED
  BY <1>1 DEF Reserve, Reserved, Within, QuotesUsed, Spent

(* In the next state it is enough to have the reservation.                 *)
LEMMA ReservedNext ==
  ASSUME Inv', Foresight', phase' = "matching", Reserved', UNCHANGED config
  PROVE  Reserve'
<1>1. /\ plan'.fills \in Nat /\ plan'.cancels \in Nat
      /\ run'.fills \in Nat /\ run'.cancels \in Nat
      /\ run'.fills <= plan'.fills /\ run'.cancels <= plan'.cancels
  BY NextWithinPlan
<1>2. FeedMirrorsBook'
  BY DEF Reserved, FeedMirrorsBook, Mirrors
<1>3. op' \in OpType /\ op'.kind # "none" /\ feed' \in FeedType /\ config' \in Configs
  BY DEF Inv, TypeOK, OpIsPlaceable
<1>4. PICK o \in OpType : o = op'
  BY <1>3
<1>5. PICK used : used = Spent(o, run'.fills, run'.cancels)
  OBVIOUS
<1>6. /\ Announced[o.kind] + run'.fills + run'.cancels <=
           EventsNeeded(o, plan', plan'.executable)
      /\ used \in Nat /\ QuotesNeeded(o, plan', plan'.executable) \in Nat
      /\ config.marketCapacity # 0 => used <= QuotesNeeded(o, plan', plan'.executable)
  BY <1>1, <1>3, <1>4, <1>5, PlanCovers
<1>7. run'.events <= plan'.events
  BY <1>4, <1>6 DEF Reserved, EventsNeeded, Leftover
<1>8. feed'.count <= plan'.quotes
  <2>1. plan'.quotes = QuotesNeeded(o, plan', plan'.executable)
    BY <1>4 DEF Reserved, QuotesNeeded, Leftover
  <2>2. feed'.count \in Nat
    BY <1>3 DEF FeedType
  <2>3. CASE config.marketCapacity = 0
    BY <2>1, <2>3, <1>6 DEF Reserved
  <2>4. CASE config.marketCapacity # 0
    <3>1. feed'.count <= used
      BY <2>4, <1>4, <1>5 DEF Reserved, Within, Spent
    <3> QED
      BY <3>1, <2>1, <2>2, <2>4, <1>6
  <2> QED
    BY <2>3, <2>4
<1>9. Within(feed, QuotesUsed, plan.quotes)' =
        Within(feed, Spent(op, run.fills, run.cancels), plan.quotes)'
  BY DEF QuotesUsed, Spent, Within
<1>10. /\ run'.events = Announced[op'.kind] + run'.fills + run'.cancels
       /\ plan'.events = (EventsNeeded(op, plan, plan.executable))'
       /\ plan'.quotes = (QuotesNeeded(op, plan, plan.executable))'
       /\ plan'.events <= config'.eventCapacity
       /\ IF config'.marketCapacity = 0 THEN feed'.count = 0
          ELSE feed'.count <= QuotesUsed' /\ RoomFor(feed, plan.quotes - feed.count)'
  BY <1>9 DEF Reserved, Within
<1>11. ReservationIsKept'
  BY <1>7, <1>8 DEF ReservationIsKept, Planned
<1> QED
  BY <1>2, <1>10, <1>11 DEF Reserve

(* One turn of the loop stays within the reservation.                      *)
LEMMA TurnReserve ==
  ASSUME Inv, Inv', Foresight', Reserve, phase = "matching",
         UNCHANGED <<config, phase, op, plan>>,
         run'.events = IF run'.fills + run'.cancels = run.fills + run.cancels
                       THEN run.events ELSE Min2(run.events + 1, config.eventCapacity),
         run'.fills + run'.cancels \in {run.fills + run.cancels,
                                        run.fills + run.cancels + 1},
         config.marketCapacity = 0 => feed'.count = 0,
         config.marketCapacity # 0 =>
           /\ Mirrors(feed', book')
           /\ Within(feed', Spent(op, run'.fills, run'.cancels), plan.quotes)
  PROVE  Reserve'
<1>1. Reserved
  BY ReserveIs
<1>2. /\ plan.fills \in Nat /\ plan.cancels \in Nat
      /\ run'.fills \in Nat /\ run'.cancels \in Nat
      /\ run'.fills <= plan.fills /\ run'.cancels <= plan.cancels
  BY NextWithinPlan
<1>3. /\ op \in OpType /\ op.kind # "none" /\ config.eventCapacity \in Nat
      /\ run.fills \in Nat /\ run.cancels \in Nat
  BY InvFacts, ConfigAssumption DEF Inv, OpIsPlaceable, RunType
<1>4. /\ Announced[op.kind] + run'.fills + run'.cancels <= plan.events
      /\ plan.events \in Nat /\ Announced[op.kind] \in Nat
  BY <1>1, <1>2, <1>3, PlanCovers DEF Reserved
<1>5. run'.events = Announced[op.kind] + run'.fills + run'.cancels
  <2>1. /\ run.events = Announced[op.kind] + run.fills + run.cancels
        /\ plan.events <= config.eventCapacity
    BY <1>1 DEF Reserved
  <2>2. CASE run'.fills + run'.cancels = run.fills + run.cancels
    <3>1. run'.events = run.events
      BY <2>2
    <3> QED
      BY <3>1, <2>1, <2>2, <1>2, <1>3, <1>4
  <2>3. CASE run'.fills + run'.cancels = run.fills + run.cancels + 1
    <3>1. run'.fills + run'.cancels # run.fills + run.cancels
      BY <2>3, <1>3
    <3>2. run'.events = Min2(run.events + 1, config.eventCapacity)
      BY <3>1
    <3>3. run.events + 1 = Announced[op.kind] + run'.fills + run'.cancels
      BY <2>1, <2>3, <1>2, <1>3, <1>4
    <3>4. run.events + 1 <= config.eventCapacity
      BY <3>3, <2>1, <1>2, <1>3, <1>4
    <3> QED
      BY <3>2, <3>3, <3>4, <2>1, <1>2, <1>3, <1>4 DEF Min2
  <2> QED
    BY <2>2, <2>3
<1>6. Reserved'
  BY <1>1, <1>5 DEF Reserved, EventsNeeded, QuotesNeeded, Leftover, Mirrors, Within,
     Spent, RoomFor
<1> QED
  BY <1>6, ReservedNext

(* What the next turn may spend.                                           *)
LEMMA TurnCovered ==
  ASSUME Inv, Inv', Foresight', Reserve, phase = "matching",
         UNCHANGED <<config, phase, op, plan>>, config.marketCapacity # 0
  PROVE  /\ Spent(op, run'.fills, run'.cancels) <= plan.quotes
         /\ plan.quotes \in Nat
         /\ Mirrors(feed, book)
         /\ Within(feed, Spent(op, run.fills, run.cancels), plan.quotes)
         /\ Spent(op, run.fills, run.cancels) \in Nat
<1>1. Reserved
  BY ReserveIs
<1>2. /\ plan.fills \in Nat /\ plan.cancels \in Nat
      /\ run'.fills \in Nat /\ run'.cancels \in Nat
      /\ run'.fills <= plan.fills /\ run'.cancels <= plan.cancels
  BY NextWithinPlan
<1>3. /\ op \in OpType /\ op.kind # "none"
      /\ run.fills \in Nat /\ run.cancels \in Nat
  BY InvFacts DEF Inv, OpIsPlaceable, RunType
<1>4. /\ Spent(op, run'.fills, run'.cancels) <= plan.quotes
      /\ plan.quotes \in Nat
  BY <1>1, <1>2, <1>3, PlanCovers DEF Reserved
<1>5. Spent(op, run.fills, run.cancels) \in Nat
  BY <1>3 DEF Spent
<1> QED
  BY <1>1, <1>4, <1>5 DEF Reserved

(* The front order's leaving is a change of one level.                     *)
LEMMA LeftIsOneLevel ==
  ASSUME NEW b, NEW c, NEW s, FrontLeft(b, c, s)
  PROVE  OneLevel(b, c, s, b.best[s])
  BY DEF FrontLeft, Leaves, OneLevel

(* A fill publishes at most the three market events counted for it.        *)
LEMMA TradeReserve ==
  ASSUME Inv, Inv', Exact, Foresight', Reserve, Trade
  PROVE  Reserve'
<1>1. PICK x : Fills(x)
  BY TradeFills
<1>2. /\ phase = "matching" /\ Contra \in Side /\ book.best[Contra] \in Price
      /\ Sound(book)
  BY TurnFacts DEF Trade
<1>3. /\ UNCHANGED <<config, phase, op, plan, status>>
      /\ run'.fills = run.fills + 1 /\ run'.cancels = run.cancels
      /\ run'.events = Min2(run.events + 1, config.eventCapacity)
      /\ feed' = Publish(Posted(feed, feed), book, book', Contra, book.best[Contra])
      /\ Sound(book')
  BY <1>1 DEF Fills
<1>4. OneLevel(book, book', Contra, book.best[Contra])
  BY <1>1, LeftIsOneLevel DEF Fills, Shortened, OneLevel
<1>5. run.fills \in Nat /\ run.cancels \in Nat /\ config \in Configs /\ feed \in FeedType
  BY InvFacts DEF RunType
<1>6. CASE config.marketCapacity = 0
  <2>1. feed.count = 0
    BY <1>2, <1>6, ReserveIs DEF Reserved
  <2>2. feed' = feed
    BY <2>1, <1>3, <1>6, PostedNowhere, PublishNowhere
  <2> QED
    BY <2>1, <2>2, <1>2, <1>3, <1>5, <1>6, TurnReserve
<1>7. CASE config.marketCapacity # 0
  <2> DEFINE used == Spent(op, run.fills, run.cancels)
  <2>1. /\ Spent(op, run'.fills, run'.cancels) <= plan.quotes /\ plan.quotes \in Nat
        /\ Mirrors(feed, book) /\ Within(feed, used, plan.quotes) /\ used \in Nat
    BY <1>2, <1>3, <1>7, TurnCovered
  <2>2. Spent(op, run'.fills, run'.cancels) = used + 3
    BY <1>3, <1>5 DEF Spent
  <2> HIDE DEF used
  <2>3. PICK f : f = Posted(feed, feed)
    OBVIOUS
  <2>4. used + 1 <= plan.quotes /\ used + 1 \in Nat /\ (used + 1) + 2 <= plan.quotes
        /\ (used + 1) + 2 = used + 3
    BY <2>1, <2>2
  <2>5. f \in FeedType /\ Mirrors(f, book) /\ Within(f, used + 1, plan.quotes)
    BY <2>1, <2>3, <2>4, <1>5, ReservedTrade
  <2> DEFINE spent == used + 1
  <2>6. spent \in Nat /\ spent + 2 <= plan.quotes /\ Within(f, spent, plan.quotes)
        /\ spent + 2 = used + 3
    BY <2>4, <2>5
  <2> HIDE DEF spent
  <2>7. feed' = Publish(f, book, book', Contra, book.best[Contra])
    BY <2>3, <1>3
  <2>8. Mirrors(feed', book') /\ Within(feed', spent + 2, plan.quotes)
    BY <2>1, <2>5, <2>6, <2>7, <1>2, <1>3, <1>4, <1>5, <1>7, ReservedPublish
  <2>9. Within(feed', Spent(op, run'.fills, run'.cancels), plan.quotes)
    BY <2>2, <2>6, <2>8
  <2>10. /\ run'.fills + run'.cancels = run.fills + run.cancels + 1
         /\ run'.fills + run'.cancels # run.fills + run.cancels
    BY <1>3, <1>5
  <2> QED
    BY <2>8, <2>9, <2>10, <1>2, <1>3, <1>7, TurnReserve
<1> QED
  BY <1>6, <1>7

(* Cancelling one's own order publishes at most the two counted for it.    *)
LEMMA CancelOwnReserve ==
  ASSUME Inv, Inv', Exact, Foresight', Reserve, CancelOwnResting
  PROVE  Reserve'
<1>1. CancelsOwn
  BY CancelOwnCancels
<1>2. /\ phase = "matching" /\ Contra \in Side /\ book.best[Contra] \in Price
      /\ Sound(book)
  BY TurnFacts DEF CancelOwnResting
<1>3. /\ UNCHANGED <<config, phase, op, plan, status>>
      /\ run'.fills = run.fills /\ run'.cancels = run.cancels + 1
      /\ run'.events = Min2(run.events + 1, config.eventCapacity)
      /\ feed' = Publish(feed, book, book', Contra, book.best[Contra])
      /\ Sound(book')
  BY <1>1 DEF CancelsOwn
<1>4. OneLevel(book, book', Contra, book.best[Contra])
  BY <1>1, LeftIsOneLevel DEF CancelsOwn
<1>5. run.fills \in Nat /\ run.cancels \in Nat /\ config \in Configs /\ feed \in FeedType
  BY InvFacts DEF RunType
<1>8. /\ run'.fills + run'.cancels = run.fills + run.cancels + 1
      /\ run'.fills + run'.cancels # run.fills + run.cancels
  BY <1>3, <1>5
<1>6. CASE config.marketCapacity = 0
  <2>1. feed.count = 0
    BY <1>2, <1>6, ReserveIs DEF Reserved
  <2>2. feed' = feed
    BY <2>1, <1>3, <1>6, PublishNowhere
  <2> QED
    BY <2>1, <2>2, <1>2, <1>3, <1>6, <1>8, TurnReserve
<1>7. CASE config.marketCapacity # 0
  <2> DEFINE used == Spent(op, run.fills, run.cancels)
  <2>1. /\ Spent(op, run'.fills, run'.cancels) <= plan.quotes /\ plan.quotes \in Nat
        /\ Mirrors(feed, book) /\ Within(feed, used, plan.quotes) /\ used \in Nat
    BY <1>2, <1>3, <1>7, TurnCovered
  <2>2. Spent(op, run'.fills, run'.cancels) = used + 2
    BY <1>3, <1>5 DEF Spent
  <2> HIDE DEF used
  <2>3. used + 2 <= plan.quotes
    BY <2>1, <2>2
  <2>4. Mirrors(feed', book') /\ Within(feed', used + 2, plan.quotes)
    BY <2>1, <2>3, <1>2, <1>3, <1>4, <1>5, <1>7, ReservedPublish
  <2>5. Within(feed', Spent(op, run'.fills, run'.cancels), plan.quotes)
    BY <2>2, <2>4
  <2> QED
    BY <2>4, <2>5, <1>2, <1>3, <1>7, <1>8, TurnReserve
<1> QED
  BY <1>6, <1>7

(* Stopping the aggressor publishes nothing.                               *)
LEMMA StopReserve ==
  ASSUME Inv, Inv', Foresight', Reserve, StopAggressor
  PROVE  Reserve'
<1>1. /\ phase = "matching" /\ UNCHANGED <<config, book, feed, phase, op, plan>>
      /\ run'.fills = run.fills /\ run'.cancels = run.cancels /\ run'.events = run.events
  BY InvFacts DEF StopAggressor, CanMatch, RunType
<1>2. Reserved
  BY <1>1, ReserveIs
<1>3. Reserved'
  BY <1>1, <1>2 DEF Reserved, EventsNeeded, QuotesNeeded, Leftover, Mirrors, Within,
     Spent, RoomFor
<1> QED
  BY <1>1, <1>3, ReservedNext

-----------------------------------------------------------------------------
(* Reserve is invariant.                                                   *)

(* What entering the loop has spent.                                       *)
LEMMA EntryReserve ==
  ASSUME Inv, Inv', Exact, Foresight', Reserve, phase = "idle",
         NEW o \in OpType, Entered(o)
  PROVE  Reserve'
<1> DEFINE w == Plan(o)
<1>1. /\ phase' = "matching" /\ op' = o /\ plan' = w /\ UNCHANGED config
      /\ o.kind # "none"
  BY DEF Entered, Enter, Placeable
<1>2. /\ run'.fills = 0 /\ run'.cancels = 0
      /\ run'.events = Min2(0 + Announced[o.kind], config.eventCapacity)
  BY DEF Entered, Enter, Emitted, NoRun
<1>3. /\ w.events = EventsNeeded(o, w, w.executable)
      /\ w.quotes = QuotesNeeded(o, w, w.executable)
  BY DEF Plan, EventsNeeded, QuotesNeeded
<1>4. w.events <= config.eventCapacity /\ CanPublish(w.quotes)
  <2> HIDE DEF w
  <2>1. ~(w.events > config.eventCapacity) /\ CanPublish(w.quotes)
    BY DEF Entered, Capacity, w
  <2>2. w.fills \in Nat /\ w.cancels \in Nat
    BY <1>1, NextWithinPlan
  <2>3. w.events \in Nat
    BY <2>2, <1>1, <1>3, PlanCovers
  <2>4. config.eventCapacity \in Nat
    BY InvFacts, ConfigAssumption
  <2> QED
    BY <2>1, <2>3, <2>4
<1> HIDE DEF w
<1>5. w.fills \in Nat /\ w.cancels \in Nat /\ 0 <= w.fills /\ 0 <= w.cancels
  <2>1. w.fills \in Nat /\ w.cancels \in Nat
    BY <1>1, NextWithinPlan
  <2> QED
    BY <2>1
<1>6. /\ Announced[o.kind] \in Nat
      /\ w.events \in Nat /\ w.quotes \in Nat
      /\ Announced[o.kind] + 0 + 0 <= w.events
      /\ config.marketCapacity # 0 => Spent(o, 0, 0) <= w.quotes
  BY <1>1, <1>3, <1>5, PlanCovers
<1>7. run'.events = Announced[o.kind] + run'.fills + run'.cancels
  <2>1. config.eventCapacity \in Nat
    BY InvFacts, ConfigAssumption
  <2> QED
    BY <2>1, <1>2, <1>4, <1>6 DEF Min2
<1>8. feed.count = 0 /\ feed \in FeedType /\ config \in Configs
  BY InvFacts DEF Reserve
<1>9. IF config.marketCapacity = 0 THEN feed'.count = 0
      ELSE Mirrors(feed', book') /\ Within(feed', Spent(o, 0, 0), w.quotes)
  <2>1. CASE config.marketCapacity = 0
    <3>1. feed' = feed
      BY <2>1, <1>8, PublishNowhere DEF Entered, EnteredNew, EnteredAgain
    <3> QED
      BY <3>1, <2>1, <1>8
  <2>2. CASE config.marketCapacity # 0
    <3>1. Mirrors(feed, book)
      BY <2>2, MirrorIs DEF Reserve
    <3>2. Within(feed, 0, w.quotes)
      BY <2>2, <1>4, <1>6, <1>8, RoomReserved
    <3>3. CASE EnteredNew(o)
      <4>1. Spent(o, 0, 0) = 0 /\ UNCHANGED <<feed, book>>
        BY <3>3 DEF EnteredNew, Spent
      <4> QED
        BY <4>1, <3>1, <3>2, <2>2
    <3>4. CASE EnteredAgain(o)
      <4> DEFINE p == book.order[o.id].price
      <4>1. /\ o.kind = "replace" /\ o.id \in book.index /\ o.side = book.order[o.id].side
            /\ book' = Unindexed(Unlinked(book, o.id), o.id)
            /\ feed' = Publish(feed, book, book', o.side, p)
        BY <3>4 DEF EnteredAgain
      <4>2. Sound(book) /\ Sound(book') /\ o.side \in Side
        BY EntrySide
      <4>3. PICK t, q, i : Leaves(book, book', o.id, t, q, i)
        BY <4>1, <4>2, UnlinkedChanges
      <4>4. t = o.side /\ q = p /\ p \in Price
        BY <4>3, <4>1 DEF Leaves
      <4>5. OneLevel(book, book', o.side, p)
        BY <4>3, <4>4 DEF Leaves, OneLevel
      <4> HIDE DEF p
      <4>6. Spent(o, 0, 0) = 0 + 2
        BY <4>1 DEF Spent
      <4>7. 0 + 2 <= w.quotes /\ 0 \in Nat
        BY <4>6, <2>2, <1>6
      <4>8. Mirrors(feed', book') /\ Within(feed', 0 + 2, w.quotes)
        BY <4>1, <4>2, <4>4, <4>5, <4>7, <3>1, <3>2, <2>2, <1>6, <1>8, ReservedPublish
      <4> QED
        BY <4>6, <4>8, <2>2
    <3> QED
      BY <3>3, <3>4 DEF Entered
  <2> QED
    BY <2>1, <2>2
<1>10. Reserved'
  <2>1. /\ plan'.events = (EventsNeeded(op, plan, plan.executable))'
        /\ plan'.quotes = (QuotesNeeded(op, plan, plan.executable))'
        /\ plan'.events <= config'.eventCapacity
        /\ run'.events = Announced[op'.kind] + run'.fills + run'.cancels
    BY <1>1, <1>3, <1>4, <1>7 DEF EventsNeeded, QuotesNeeded, Leftover
  <2>2. IF config'.marketCapacity = 0 THEN feed'.count = 0
        ELSE /\ Mirrors(feed', book')
             /\ Within(feed, Spent(op, run.fills, run.cancels), plan.quotes)'
    BY <1>1, <1>2, <1>9 DEF Within, RoomFor, Spent
  <2> QED
    BY <2>1, <2>2 DEF Reserved, Mirrors
<1> QED
  BY <1>1, <1>10, ReservedNext

(* A command that ends at once.                                            *)
LEMMA EndedReserve ==
  ASSUME Foresight, phase = "idle", phase' = "done", UNCHANGED <<config, op>>, FeedMirrorsBook'
  PROVE  Reserve'
<1>1. op'.kind = "none"
  BY DEF Foresight, NoOp
<1> QED
  BY <1>1 DEF Reserve, ReservationIsKept, Planned

(* A command that changes one level publishes what it was checked for.     *)
LEMMA ChangedReserve ==
  ASSUME Inv, Foresight, Reserve, phase = "idle",
         NEW s \in Side, NEW p \in Price, Changed(s, p)
  PROVE  Reserve'
<1>1. /\ phase' = "done" /\ UNCHANGED <<config, op>>
      /\ feed' = Publish(feed, book, book', s, p)
      /\ Sound(book') /\ OneLevel(book, book', s, p) /\ CanPublish(LevelQuotes)
  BY DEF Changed, OneLevel
<1>2. /\ feed.count = 0 /\ feed \in FeedType /\ config \in Configs /\ Sound(book)
  BY InvFacts DEF Reserve
<1>3. FeedMirrorsBook'
  <2>1. CASE config.marketCapacity = 0
    BY <2>1, <1>1 DEF FeedMirrorsBook
  <2>2. CASE config.marketCapacity # 0
    <3>1. Mirrors(feed, book)
      BY <2>2, MirrorIs DEF Reserve
    <3>2. Within(feed, 0, 2)
      BY <2>2, <1>1, <1>2, RoomReserved DEF LevelQuotes
    <3>3. 0 + 2 <= 2 /\ 0 \in Nat /\ 2 \in Nat
      OBVIOUS
    <3>4. Mirrors(feed', book')
      BY <3>1, <3>2, <3>3, <2>2, <1>1, <1>2, ReservedPublish
    <3> QED
      BY <3>4 DEF FeedMirrorsBook, Mirrors
  <2> QED
    BY <2>1, <2>2
<1> QED
  BY <1>1, <1>3, EndedReserve

(* What a subscriber holds does not depend on slots.                       *)
LEMMA GivenUpMirrors ==
  ASSUME Inv, phase = "matching", Mirrors(feed, book)
  PROVE  Mirrors(feed, GivenUp)
<1>1. /\ GivenUp.level = book.level /\ GivenUp.total = book.total
      /\ GivenUp.best = book.best
  <2>1. CASE op.kind = "replace"
    <3>1. op.id \in OrderId /\ book \in BookType
      BY <2>1, InvFacts DEF Inv, OpIsPlaceable, Sound
    <3>2. GivenUp = Released(book, op.id)
      BY <2>1 DEF GivenUp
    <3> QED
      BY <3>1, <3>2, ReleasedChanges
  <2>2. CASE op.kind # "replace"
    BY <2>2 DEF GivenUp
  <2> QED
    BY <2>1, <2>2
<1> HIDE DEF GivenUp
<1>2. ASSUME NEW s \in Side PROVE Quote(GivenUp, s) = Quote(book, s)
  BY <1>1 DEF Quote
<1>3. ASSUME NEW s \in Side, NEW p \in Price PROVE Depth(GivenUp, s, p) = Depth(book, s, p)
  BY <1>1 DEF Depth
<1> QED
  BY <1>2, <1>3 DEF Mirrors

(* At the end all of the reservation for events is used.                   *)
LEMMA EndReserve ==
  ASSUME Inv, Exact, Foresight, Placement, Reserve, Complete \/ RestResidual
  PROVE  Reserve'
<1>1. Ending
  BY CompleteEnds, RestEnds
<1>2. /\ phase = "matching" /\ ~CanMatch /\ phase' = "done" /\ UNCHANGED <<config, op, plan>>
      /\ op.kind # "none"
  BY <1>1 DEF Ending, Inv, OpIsPlaceable
<1>3. Reserved /\ Over
  BY <1>1, <1>2, ReserveIs, LoopEnds
<1>4. /\ op \in OpType /\ config \in Configs /\ feed \in FeedType /\ Sound(book)
      /\ run.fills \in Nat /\ run.cancels \in Nat /\ run.executed \in Nat
      /\ run.remaining \in Nat /\ op.qty \in Nat /\ run \in RunType
      /\ run.executed + run.remaining = op.qty
      /\ config.eventCapacity \in Nat
  BY <1>2, InvFacts, ConfigAssumption, WidthAssumption DEF RunType, OpType, Foresight
<1>5. /\ plan.fills = run.fills /\ plan.cancels = run.cancels
      /\ plan.stopped = run.stopped /\ plan.executable = run.executed
  BY <1>3 DEF Over
<1> DEFINE rest == op.kind # "market" /\ run.remaining > 0
<1>6. Leftover(op, plan.executable) <=> rest
  <2>1. run.executed < op.qty <=> run.remaining > 0
    BY <1>4
  <2> QED
    BY <2>1, <1>5 DEF Leftover
<1>7. Announced[op.kind] \in Nat
  BY <1>2, <1>4 DEF Announced, OpType
<1>8. plan.events = run.events + (IF rest THEN 1 ELSE 0)
  <2>1. plan.events = Announced[op.kind] + run.fills + run.cancels
                        + (IF Leftover(op, plan.executable) THEN 1 ELSE 0)
    BY <1>3, <1>5 DEF Reserved, EventsNeeded, Announced
  <2>2. run.events = Announced[op.kind] + run.fills + run.cancels
    BY <1>3 DEF Reserved
  <2> HIDE DEF rest
  <2> QED
    BY <2>1, <2>2, <1>6
<1>9. run.events \in Nat /\ plan.events <= config.eventCapacity
  BY <1>3, <1>4, <1>7 DEF Reserved
<1>10. rest => Emitted(run, 1).events = plan.events
  <2>1. Emitted(run, 1).events = Min2(run.events + 1, config.eventCapacity)
    BY <1>4, EmittedFields
  <2> HIDE DEF rest
  <2> QED
    BY <2>1, <1>4, <1>8, <1>9 DEF Min2
<1>11. ~rest => run.events = plan.events
  <2> HIDE DEF rest
  <2> QED
    BY <1>8, <1>9
<1>12. run'.events = plan.events
  <2>1. CASE Complete
    BY <2>1, <1>10, <1>11 DEF Complete
  <2>2. CASE RestResidual
    <3>1. RestStatus = "Accepted" /\ Rests
      BY <2>2, <1>2, ResidualRests DEF RestResidual
    <3>2. run' = Emitted(run, 1)
      BY <2>2, <3>1, RestedIsStored
    <3> QED
      BY <3>1, <3>2, <1>10 DEF Rests
  <2> QED
    BY <2>1, <2>2
<1>13. CASE config.marketCapacity = 0
  <2>1. feed.count = 0
    BY <1>3, <1>13 DEF Reserved
  <2>2. feed' = feed
    <3>1. CASE Complete
      BY <3>1 DEF Complete
    <3>2. CASE RestResidual
      <4>1. RestStatus = "Accepted"
        BY <3>2, <1>2, ResidualRests DEF RestResidual
      <4> QED
        BY <4>1, <3>2, <2>1, <1>13, RestedIsStored, PublishNowhere
    <3> QED
      BY <3>1, <3>2
  <2>3. plan.quotes = 0
    BY <1>3, <1>13 DEF Reserved, QuotesNeeded
  <2>4. FeedMirrorsBook'
    BY <1>2, <1>13 DEF FeedMirrorsBook
  <2>5. ReservationIsKept'
    BY <2>1, <2>2, <2>3, <1>2, <1>12 DEF ReservationIsKept, Planned
  <2> QED
    BY <2>4, <2>5, <1>2 DEF Reserve
<1>14. CASE config.marketCapacity # 0
  <2> DEFINE used == Spent(op, run.fills, run.cancels)
  <2>1. Mirrors(feed, book) /\ Within(feed, used, plan.quotes)
    BY <1>3, <1>14 DEF Reserved
  <2>2. used \in Nat
    BY <1>4 DEF Spent
  <2>3. plan.quotes = used + (IF rest /\ ~run.stopped THEN 2 ELSE 0)
    <3>1. plan.quotes = used + (IF Leftover(op, plan.executable) /\ ~plan.stopped
                                THEN 2 ELSE 0)
      BY <1>3, <1>5, <1>14 DEF Reserved, QuotesNeeded, Spent
    <3> HIDE DEF used, rest
    <3> QED
      BY <3>1, <1>5, <1>6
  <2> HIDE DEF used
  <2>4. Mirrors(feed', book') /\ feed'.count <= plan.quotes
    <3>1. CASE Complete
      <4>1. feed' = feed /\ book' = GivenUp
        BY <3>1 DEF Complete, GivenUp
      <4>2. Mirrors(feed, GivenUp)
        BY <2>1, <1>2, GivenUpMirrors
      <4>3. feed.count <= plan.quotes
        <5>1. feed.count <= used /\ feed.count \in Nat
          BY <2>1, <1>4 DEF Within, FeedType
        <5> HIDE DEF rest
        <5> QED
          BY <5>1, <2>2, <2>3
      <4> QED
        BY <4>1, <4>2, <4>3
    <3>2. CASE RestResidual
      <4>1. RestStatus = "Accepted" /\ Rests
        BY <3>2, <1>2, ResidualRests DEF RestResidual
      <4>2. /\ feed' = Publish(feed, book, book', op.side, op.price)
            /\ op.side \in Side /\ op.price \in Price
            /\ Sound(book') /\ OneLevel(book, book', op.side, op.price)
        BY <3>2, <4>1, RestedIsStored DEF OneLevel
      <4>3. used + 2 <= plan.quotes /\ plan.quotes \in Nat
        <5>1. rest /\ ~run.stopped
          BY <4>1 DEF Rests
        <5> HIDE DEF rest
        <5> QED
          BY <5>1, <2>2, <2>3
      <4>4. Mirrors(feed', book') /\ Within(feed', used + 2, plan.quotes)
        BY <4>2, <4>3, <2>1, <2>2, <1>4, <1>14, ReservedPublish
      <4>5. feed'.count \in Nat
        BY RestKeepsInv, <3>2 DEF Inv, TypeOK, FeedType
      <4>6. feed'.count <= used + 2
        BY <4>4 DEF Within
      <4> QED
        BY <4>3, <4>4, <4>5, <4>6, <2>2
    <3> QED
      BY <3>1, <3>2
  <2>5. FeedMirrorsBook'
    BY <2>4 DEF FeedMirrorsBook, Mirrors
  <2>6. ReservationIsKept'
    BY <2>4, <1>2, <1>12 DEF ReservationIsKept, Planned
  <2> QED
    BY <2>5, <2>6, <1>2 DEF Reserve
<1> QED
  BY <1>13, <1>14

(* Returning a command's result clears its events.                         *)
LEMMA ReturnReserve ==
  ASSUME Inv, Reserve, Return
  PROVE  Reserve'
<1>1. /\ phase' = "idle" /\ UNCHANGED <<config, book>>
      /\ feed' = [feed EXCEPT !.count = 0] /\ feed \in FeedType
  BY InvFacts DEF Return
<1>2. feed'.count = 0 /\ feed'.best = feed.best /\ feed'.depth = feed.depth
  BY <1>1 DEF FeedType
<1> QED
  BY <1>1, <1>2 DEF Reserve, ReservationIsKept, Planned, FeedMirrorsBook

(* Every step keeps Reserve.                                               *)
LEMMA NextKeepsReserve ==
  ASSUME Inv, Inv', Exact, Foresight, Foresight', Placement, Reserve, [Next]_vars
  PROVE  Reserve'
<1>1. CASE Command
  <2>1. phase = "idle" /\ Effect
    BY <1>1, CommandEffect
  <2>2. ASSUME Refused PROVE Reserve'
    <3>1. FeedMirrorsBook'
      BY <2>2 DEF Refused, Reserve, FeedMirrorsBook
    <3> QED
      BY <3>1, <2>1, <2>2, EndedReserve DEF Refused
  <2>3. ASSUME NEW s \in Side, NEW p \in Price, Changed(s, p) PROVE Reserve'
    BY <2>1, <2>3, ChangedReserve
  <2> QED
    BY <2>1, <2>2, <2>3, EntryReserve DEF Effect
<1>2. CASE Execute
  BY <1>2, TradeReserve, CancelOwnReserve, StopReserve, EndReserve DEF Execute
<1>3. CASE Return
  BY <1>3, ReturnReserve
<1>4. CASE UNCHANGED vars
  BY <1>4 DEF vars, Reserve, FeedMirrorsBook, EventsNeeded, QuotesNeeded, Leftover,
     QuotesUsed, RoomFor, ReservationIsKept, Planned
<1> QED
  BY <1>1, <1>2, <1>3, <1>4 DEF Next

(* Reserve is an invariant.                                                *)
LEMMA ReserveInvariance == Spec => []Reserve
<1>1. Init => Reserve
  <2> SUFFICES ASSUME Init PROVE Reserve
    OBVIOUS
  <2>1. FeedMirrorsBook
    BY LenProperties DEF Init, FeedMirrorsBook, Quote, Depth, EmptyBook, Side
  <2> QED
    BY <2>1 DEF Init, Reserve, ReservationIsKept, Planned, NoOp
<1> QED
  BY <1>1, Invariance, ExactInvariance, ForesightInvariance, PlacementInvariance,
     NextKeepsReserve, PTL DEF Spec

(* No command outgrows what start_operation reserved before the first      *)
(* change: the events and market-data events counted from the plan suffice *)
(* for every fill, cancel and residual that follows, and of the events     *)
(* none is left over.                                                      *)
THEOREM ReservationIsAlwaysKept == Spec => []ReservationIsKept
<1>1. Reserve => ReservationIsKept
  BY DEF Reserve
<1> QED
  BY <1>1, ReserveInvariance, PTL

(* A subscriber that applies every market-data event has the depth, the    *)
(* order counts and the best quotes of the book after every step, in the   *)
(* middle of a command too: each change publishes its level and the log    *)
(* always has room for it.                                                 *)
THEOREM FeedAlwaysMirrorsBook == Spec => []FeedMirrorsBook
<1>1. Reserve => FeedMirrorsBook
  BY DEF Reserve
<1> QED
  BY <1>1, ReserveInvariance, PTL

=============================================================================
