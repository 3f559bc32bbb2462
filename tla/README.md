# A verification of Eigen-Book in TLA+

Eigen-Book is a C++20, header-only, single-threaded limit order book with a
matching engine, snapshots and a command journal, and a Python layer that
replays recorded depth data against it. This directory holds TLA+ models of its
parts, TLC configurations that check them on small instances, and TLAPS proofs of
the results that matter most for every size.

## 1. Inventory

| Part | Source | State it keeps | Operations | What makes it correct |
| --- | --- | --- | --- | --- |
| Book sides | `include/BookSide.hpp`, `PriceLevel.hpp`, `Order.hpp` | per price an intrusive FIFO with a cached total and count; occupancy bitmap (dense) or sorted slots, free slots and a hashed price map (sparse); cached best | add, remove, reduce, match, preflight, residual checks | cached totals and best are exact; price-time priority; preflight predicts match |
| Order book | `include/OrderBook.hpp` | two sides, id index, pool, FIFO sequence, two logs | add limit, market, cancel, modify, replace | never crossed; an operation is refused whole or completes whole; no slot leaks |
| Id index | `include/OrderIdMap.hpp` | Robin Hood table, revision counter | insert, find, erase by id or token, clear | answers as a bounded set of ids |
| Pool | `include/MemoryPool.hpp` | nodes, LIFO free list | allocate, release | a slot has one owner |
| Logs | `include/EventLog.hpp`, `MarketData.hpp` | ring, write index, span of the last operation, sequence | begin, append, reset | the span is the operation, numbered without a hole |
| Gap detector | `include/MarketData.hpp` | last sequence, initialized | observe, reset | applied events have no hole and no repetition |
| Engine | `include/MatchingEngine.hpp` | books by instrument, counters | initialize, dispatch | all or nothing initialization; a command reaches its own book only |
| Snapshot | `include/Snapshot.hpp` | (bytes) | write, validate, restore | restore is all or nothing and reproduces the book |
| Journal | `include/Journal.hpp`, `Command.hpp` | sequence, checksums | record, replay | snapshot and tail reproduce the engine; divergence is detected |
| Depth book | `src/eigenbook/market_data.py` | levels, last update id, sync state | snapshot, bridge, update | no gap is applied; an update applies whole or not at all |
| Replay environment | `src/eigenbook/replay.py` | depth book, own orders with queue ahead, pending orders, inventory | step, activate, fill, fail closed | no fill without evidence; nothing survives a gap; inventory within its limit |
| Simulated environment | `src/eigenbook/env.py` | own book, cash, inventory | reset, step | accounts balance |
| Capture | `fetch_l2_data.py`, `experiments/` | temporary tape | record, validate, publish | a published tape is complete |
| Features, artifacts, bindings | `src/eigenbook/*.py`, `src/bindings.cpp` | rolling sums, metadata | numeric | (not state protocols) |

How they interact: the engine looks up a book and calls it; the book calls its
sides, pool, id index and logs synchronously, and hands the caller spans of the
two logs that live until the next mutating call on that book. There are no
threads, no callbacks and no locks in the C++ core. The hard behaviours are not
interleavings of threads but *long sequences of calls* against cached state, one
*multi-step operation* that must not fail half-way (its capacity is reserved up
front from a prediction of what it will do), limits that all bind at the same
time, and consumers beyond an unreliable transport. In the Python layer events
that arrive late, gaps, latency queues and crashes join them.
`PROJECT.json` lists each hazard at its line with the properties that cover it.

## 2. Modules and how they correspond to the code

**`Book`**: the storage of one book as a record, and one operator for each
storage operation. `level[s][p]` is the FIFO of a `PriceLevel`, `total` its
cached quantity (kept beside the FIFO, never derived from it), `best` the cached
best price, `order` the live nodes, `index` the ids in the `OrderIdMap`, `used`
the pool slots, `seq` the FIFO sequence. `FilledFront` subtracts from the total
with the width's wrap-around, as `fill_front` does, so that
`AggregatesAreExact` and `TypeOK` have something to say. `ExecutableQuantity` and
`Preflight` are the read-only walks. The walk over a side (`Walk`) visits the orders within
the limit (`Sweep`) one after the other as `Ahead` ranks them, by price, then by `Place` in the
queue, and threads what it has counted through them (`Visited`); `Outlook` is the walk
from any count on, so that a walk can be resumed in the middle of a command.

**`OrderBook`** (extends `Book`): the commands. A command is three kinds of step:

1. *enter*: everything before the first change (validation in the code's order,
   preflight, both reservations), with every early return. Cancel, modify and
   in-place replace finish here; a re-entering replace also unlinks the old order.
2. *one iteration of the matching loop*: `Trade`, `CancelOwnResting` or
   `StopAggressor`. Breaking the loop up makes the book visible between fills.
3. *settle*: `Complete` or `RestResidual`; then `Return` hands the result to
   the caller.

`InternalError` branches of the code are modelled (`Abort` and the refusals of
`Removable` and `Reduce`); `FillOrKill` and `ResidualIsStored` say that none is
ever taken. `feed` is the market-data log seen by a subscriber that
applies each event it publishes.

**`LevelWalk`, `PriceQueues`, `DenseSide`, `SparseSide`, `LevelStores`**: the two
ways a side stores its levels. `PriceQueues` is the promise: a queue of orders at
each price, matched by price, then time. `DenseSide` has the occupancy bitmap in
words and the cached best index; `SparseSide` the stack of free slots, the sorted
slots, and the price map with Robin Hood insertion and tombstones; `LevelWalk` what
both write out over their own navigation (preflight, the matching turn).
`LevelStores` gives a dense and a sparse side the same calls, as
`fuzz/fuzz_stateful_differential.cpp` does with two engines, and asks that they
answer alike and that the dense one is a `PriceQueues` (a refinement mapping).

**`OrderNodes`**: the layer below: the links in the `Order` nodes, head, tail, count
and total of each `PriceLevel`, and the free list threaded through the slots of
`MemoryPool`. The node in hand is one that has left the pool or a level and is not yet
linked or given back: between `Allocate` and `Rest`, or `Leave` and `Release`, it is
reachable from nowhere, as in the code. `queue` and `spare` are auxiliary: what the
links ought to spell, and so which nodes a cancel or a reduction can be about.

**`Engine`**: the books of a `MatchingEngine` and the effect of one dispatched
command as a function of the engine. Construction with its validation, which inserts
instrument after instrument and clears what it has (`FailInitialization`) when memory runs out
after any number of them; the open-addressing lookup of instruments; and the commands in the
view that a journal has of them: status, trades, events, quotes, counters, lifecycle.
The step-by-step view with all options is `OrderBook`; both use the storage operators of
`Book`.

**`Snapshot`** (extends `Engine`): an image is what the bytes say; validation is
field by field, across orders and against the level aggregates; the stable radix sort by
level key; restore, book after book.

**`Recovery`** (extends `Snapshot`): the caller of journal and snapshot. It
dispatches and records, makes the record durable in a later step (`Persist`),
takes snapshots, loses its memory with the record not yet written (`Crash`),
constructs another engine (with the instruments in another order, or failing),
restores the snapshot or a changed one, replays records in any order and more
than once, meets a torn record, and goes on (`Resume`). Checksum and digests are
the values they are computed from and the CRC is a Boolean: there are no
collisions. `Persist`, `Crash` and `Resume` are external, the caller's.

**`ReplayEnv`**: `SequencedMarketEnv` and `OwnOrderLedger`. One action is one half
of `step`, one source event, or one call of `reset`. Own orders wait their latency
in `pending`, are activated behind the displayed quantity (`queue`), are filled by
later trades, and go when the market crosses them, a snapshot interrupts the feed or the
feed fails. `asked`, `ahead`, `seen`, `earned`, `peak` are auxiliary: an independent account
of the evidence, which `FillsAreEarned` compares with the ledger's.

**`IdIndex` / `OrderIdMap`**: the abstract promise of the id index, and the
table with probe distances, backward shift and tokens. The hash function is a
variable that never changes, so TLC tries *every* function from ids to slots,
including those that send everything to one slot.

**`OperationLog`**: both rings, chosen by `kind`, driven as `OrderBook` drives
them: reserve, append at most what was reserved, read the span.

**`MarketFeed`**: a gap detector behind a transport that delivers any published
event any number of times, in any order or never, with other streams mixed in.
The transport is external; the detector is translated from the source.

**`Filter`**: the loop that picks out some elements of a sequence one after another, for the
radix sort of `Snapshot` and the activation of due orders in `ReplayEnv`.

**`BookProofs`, `OrderBookProofs`, `StorageProofs` (of `OrderNodes`, `OrderIdMap`, `OperationLog` and
`MarketFeed`), `LevelProofs`, `EngineProofs`, `RecoveryProofs`, `QueueLemmas`,
`ReplayEnvProofs`**: lemmas, theorems, proofs. `StorageProofs` extends four
components, so the operators of three of them have names of their own (`NodesInit`, `LogNext`,
`FeedNext`, `Publish` for the log's append, `span` for `last_count_` and so on); for the same reason
those of the two sides begin with `Dense` and `Sparse`.
**`MCOrderBook`, `MCOrderIdMap`, `MCLevelStores`, `MCRecovery`, `MCReplayEnv`**:
instances for TLC.

## 3. What the runs check

| Run | Question | Bounds |
| --- | --- | --- |
| `policies` | Is the book sound between any two fills under each self-trade policy, does match do what preflight said, do fills respect price-time priority? | 3 ids, 2 prices, quantities 0..3 with inputs 1 and 2, one named participant and the anonymous one, all 4 policies, FIFO sequence saturating at 2 |
| `limits` | With every capacity binding in some configuration, is an operation refused whole or completed whole, and does the market data rebuild the book? | as above, with zero quantities and prices, 5 configurations: pool of 1 with sparse levels, id index of 2, lots of 2 with an event log of 3, market-data logs of 5 and 7 events, market sequence ending at 8 |
| `live` | Does the matching loop end? | 2 ids, policies that go past own orders and none |
| `stp_rejections` | (finding) Do rejected commands publish nothing? | as `limits`, `CancelBoth`, a market-data log of 8 |
| `order_id_map` | Does the Robin Hood table implement a set? | 5 ids for 4 slots, all 1024 hash functions up to symmetry |
| `operation_log` | Is the span of every operation its own events? | capacities 0..3, sequence ending at 5 |
| `market_feed` | Are accepted events without hole and repetition? | sequence ending at 4, snapshots at 0, 1, 2 |
| `market_feed_snapshot_zero` | (finding) Is a loss reported after any snapshot? | the same |
| `level_stores` | Do dense and sparse sides answer alike, admit only what they can store, and keep price-time queues? | 3 prices by ticks of 2 and 3 prices off the grid, words of 2 bits, 3 orders, a map of 8 cells with a hash that sends two prices to the last cell and one to the first; quantities 1 and 2 |
| `order_nodes` | Do the links spell the queues, and is every slot at one place? | 4 slots, 2 levels, quantities up to 2 |
| `recovery` | Is a recovery that was accepted the engine that was lost? | 2 instruments in one lookup cell, pools of 2 and 1, 2 ids, 2 prices, quantities up to 3, FIFO sequence saturating at 2, scripts of 3 commands out of 11, 1 crash, every change of one field of the snapshot (and of two that agree) |
| `replay_env` | Is inventory earned and bounded, are quotes passive, does none outlive the feed? | 3 prices, 3 external books, 2 source times, trades and quotes of 1 and 2, latency 0 and 2, 1 event per action, inventory limit 2 |

Why these bounds are enough for the cases to happen: two prices give a best level
and one behind it, so a sweep crosses levels, loses the best and finds the next;
three orders give a queue of two beside another level or side, a fill that leaves a partial order,
and a replacement that goes behind another order. Quantity 3 is the width, so two
orders of 2 in one level overflow it. The FIFO sequence and the market-data
sequence end inside the bounds, so exhaustion happens. Five ids for four slots
fill the table, where the compaction loop is at its limit. Three prices need two words of
two bits, so the search for the next best crosses a word; the map of the sparse
side fills with tombstones, wraps and displaces, and in it a search meets a tombstone before
its price. In `level_stores` there are as many slots as prices on the grid, so a
full side never meets a new price there: that case is in `limits` (a pool of 1 with sparse levels,
where a replacement takes the slot of the level it leaves) and, for any sizes, in `AdmissionHolds`.
With two orders the run would lose the displacement in the map, and with four prices it takes
too long. Three nodes in a level are the least that have a middle. In `recovery` one crash
allows starting over at any point of the recovery after it, as often as the caller likes; a
crash of the engine recovered is in `RecoveryIsExactHolds`, which bounds no number. Two
instruments share a lookup cell, a level of two orders is restored from
a reversed image too, and the tail after a snapshot has two records. In `replay_env` the
spread moves past resting and pending quotes, latency 2 puts two decisions of one
side and both sides in the queue, and a quote of 2 with a limit of 2 is
refused or fills the limit. In the `policies` run
market data is off, in `live` too; `limits` has it on. Symmetry is over
order ids, which the models only compare for equality; it is not used for the
liveness property.

Deadlock is checked in every run but `recovery` and `replay_env`: there the caller
may stop, at the end of its script or of the tape.

`OpIsPlaceable` of `OrderBook` and `FeedTypeOK` of `MarketFeed` are no properties of a run:
they are parts of the inductive invariants, and proved.

**Fairness.** `FairSpec` assumes weak fairness of `Execute` only, the rest of a
command that has entered the loop: it is one C++ call that runs to completion on
its caller's thread. Nothing is assumed about when commands come.

**What recovery promises.** `RecoveryIsExact` says that a recovery from nothing or
from an unchanged snapshot holds the lost books to the last counter. `ReplayVouches`
says what a replayed record adds: even a changed snapshot is then the lost
engine, *but for event numbers*. The state checksum leaves out the number of the
next event (`MatchingEngine.hpp:468-500`), and the digest of a record's events
tells only when the command has events: a snapshot whose event number was changed
passes validation and, followed by commands without numbered events, replay. The same
offset arises when a replay that diverged after its command ran is tried again. The
model keeps the distinction; the code documents no promise about it.

**Findings.**

1. `docs/market-data-and-recovery.md` (lines 42-45) tells a consumer to
initialize `SequenceGapDetector` with the sequence a snapshot carries and then to
require `Contiguous`. A snapshot of a book that has published nothing carries 0,
which constructor and `reset` take for "no snapshot": the first event is `First`
whatever its number, and a loss before it is not reported. `LossIsReported` states
the doc's promise; TLC finds it violated by snapshot 0, two appends, delivery of
event 2. For every other snapshot `AppliedHasNoHole` shows that the promise holds,
but for one whose sequence is the largest number, after which that number still
counts as the next.

2. `include/Types.hpp` (lines 150-154), `README.md` (line 298) and
`docs/market-data-and-recovery.md` (lines 18-20) say that rejected commands publish no market data and
use no market-data sequence number. Under `CancelBoth` an order that meets an own
resting order cancels it, which publishes the level and the quote, and is then answered
with `SelfTradePrevented`, which `reject_status` (`MatchingEngine.hpp:736-783`)
counts as a rejection; the comment on `dispatch` (line 307) says the same of sequence numbers.
`RejectionsAreSilent` states the promise; TLC finds it violated in a book of two orders.

## 4. What is proved

`OrderBookProofs` proves, for any sets of ids, participants and prices (integers,
every non-empty set of which has a least and a greatest), any widths and any set of
configurations allowed by `ConfigAssumption`:

- `TypeCorrectness`: `Spec => []TypeOK`, in particular no level total leaves its width;
- `BestIsAlwaysBest`: the cached best is the best occupied price;
- `IndexIsAlwaysExact`: index and queues hold the same orders, each once;
- `NeverCrossed`: no bid at or above an ask, between fills included;
- `PoolIsAlwaysExact`: slots in use are the indexed orders, plus the order being replaced.

The argument. None of these is inductive alone. `Inv` is their conjunction with
`OpIsPlaceable` and the finiteness of the index. Not crossing needs the loop's exit
condition to speak of the *best* contra price, so it needs `BestIsBest`; that needs
each removal to empty exactly the level it says, so queues and index must agree;
a removal keeps the pool count only if the removed id was indexed, and a residual
may be queued only if its id is not queued already (`OpIsPlaceable`).
`BookProofs` shows for each storage operator that it keeps a book `Sound`,
`OrderBookProofs` has one lemma per action, and `NextKeepsInv` joins them.
The totals' type needs no sum: `can_accept_residual` refuses what would overflow
before it is added, `fill_front` wraps within the width and the other
reductions are guarded by `Removable`.

`AggregatesAreAlwaysExact` (`AggregatesAreExact`) comes next, on top of `Inv`: each total is the
sum of its queue, and every order holds whole lots, at least one. It is inductive together with
"what the aggressor has left is in whole lots" (`Exact`): a fill takes the lesser of two
multiples of the lot from both, so neither keeps a part of a lot, and the residual may rest.
`BookProofs` says of each storage operator which queue it changes, and how (`Leaves`,
`Shortened`, `SameElsewhere`); the sum follows. That the total is at least the quantity
of each of its orders (`TotalHasOrder`) is why `fill_front` never wraps and `Removable` always
holds, hence why no command ends in `InternalError`.

The second part of `OrderBookProofs` proves what a command foresees, in three inductive invariants:

1. `Foresight` gives `PlanIsAlwaysExact`. A walk over the book *as it is now*, that starts from
   what the loop has counted so far, ends where the preflight's walk ended. It holds when the
   command enters the loop because both are the same walk, also for a replace, whose
   old order is off the book by then and is on the other side. A turn of the loop keeps it:
   the front order of the best level is the first a walk visits (`FrontIsFirst`); if it
   leaves, the walk goes on from the next one (`FoldFromFront`) on a book in which each
   other order has the place it had, or is one nearer the front; if it stays, the
   walk is sated and so is the loop. When the loop ends the walk visits nothing more or does
   nothing more (`LoopEnds`). Without self-trade prevention the code takes the executable
   quantity from level totals, not from orders: there `Foresight` has the offer of the levels
   in reach (`Offer`), which a fill diminishes by what it executes. That needs `Exact`.
2. `Placement` gives `ResidualsAreStored`, `PostOnlyIsAlwaysPassive` and `FillOrKillFills`.
   What was checked for the residual before the loop still holds at every turn: the loop
   touches the other side only and gives slots back only, so room in the level, the
   pool and the index does not shrink; what a post-only order did not cross at first
   it does not cross later; and the residual is the one foreseen, by `Foresight`.
3. `Reserve` gives `ReservationIsAlwaysKept` and `FeedAlwaysMirrorsBook`. At every
   turn the events logged are those announced plus one for each fill and cancel, and the
   market-data events are at most three for a fill, two for a cancel and two for an old order
   (`Spent`): trade, level, best quote. What the plan reserved beyond that is still free. So no
   `Publish` finds the log full, and since each publishes the one level and the best price that
   changed, the subscriber has the book.

Several of these sums and walks are recursive in the library, and the library's induction
theorems take an operator, which the provers cannot instantiate. `QueueLemmas` therefore states
induction for a *set* of naturals or of subsets (`Induction`, `SubsetInduction`, from the
well-founded strict order on the subsets of a finite set), and proves from it that the functions
`FoldLeft` and `MapThenFoldSet` iterate exist and are unique, what a sum gains or loses when
an element joins, leaves or changes (`AddedAppend`, `AddedRemove`, `AddedUpdate`, `SetSumUpdate`,
`SetSumRemove`), and how a fold that picks the last element first may begin at the other end
(`FoldFromFront`).

`StorageProofs` proves for every capacity, set of levels and width that the
links of each level spell its orders forwards and backwards (`LinksAlwaysSpellQueues`)
and that no slot is lost, doubled or in two places (`SlotsAlwaysHaveOnePlace`). These
two are inductive only together: an unlink rewrites the links of its neighbours,
which belong to the same level because no node is at two places, and a pop from the free list
gives a node that is in no level. That `size` never passes the capacity is a pigeonhole
(`SomeSlotUsed`: while a node is in use fewer slots are free than the pool has); `QueueLemmas` has the facts about appending
to and removing from sequences. `TotalsAreAlwaysSums` (`TotalsAreSums`) is what the layer above
takes for granted: the total a level keeps is the sum over its queue.

A third part of `OrderBookProofs` adds price-time priority to the book's invariant:
`QueuesAlwaysInSequence` (`FifoBySequence`) and `PriorityIsAlwaysRespected`
(`FillsRespectPriority`, an action property). A queue stays in sequence when a residual
is appended only because no node holds a number that has yet to be drawn (`Drawn`):
released nodes are blank, and a refused residual leaves the counter at or above every number
in use, also once it is saturated. Each storage operator keeps a book `Ordered`. Of all
actions only `Trade` counts a fill and it changes no node but the front one, which has the best
price (`BestIsBest`) and the first place in its queue.

The second part of `StorageProofs` proves for every set of ids, every hash function and every capacity (a power
of two) that the table implements `IdIndex` step by step (`AlwaysAnIdIndex`), is always in Robin
Hood order (`TableIsAlwaysSound`) and that compaction ends (`CompactionAlwaysEnds`). The
inductive invariant `Inv` is that order (`Sound`, which adds to `TableIsSound` that no id is there
twice), an entry at home in a full table (`SomeHome`: without one `erase_index` would run round
for ever) and that a good token names its id's slot (`TokenFits`). The argument:

1. Slots are a ring (`Ring`, `AwayIs`), so all of it is said in distances from one slot.
2. Between an id's home and its entry every slot is taken by an entry at least as far from its
   own home (`Chain`), so none of the three ways a search stops applies before it is found
   (`Finds`).
3. An entry may take a slot if it is one slot further from home at most than its predecessor
   and no closer than whoever it drives out (`Replace`). That is a round of `insert`'s loop:
   until the first empty slot the table is in order, the incoming entry would fit at the next slot,
   and together they hold the old ids and the new one (`Travels`). The slot behind the one that
   was empty had no predecessor and so holds an entry at home: hence `SomeHome`.
4. A backward shift moves a run of entries that are not at home one slot back, and stops before
   an empty slot or an entry at home (`MovedIs`), where the chain begins anew (`ShiftKeeps`).

The third part of `StorageProofs` proves for every capacity and sequence width that the span
of an operation is exactly its events (`SpanIsAlwaysExact`) and that what is
still reserved fits behind it (`ReservationAlwaysFits`): the strengthening is
that a ring of capacity 0 never moves its write index and that the sequence numbers
left cover the reservation. `NumbersAreAlwaysConsecutive` (`NumbersAreConsecutive`) follows from
the same invariant: an append numbers the next of what is listed, and whatever was last had the
log's current number.

The fourth part of `StorageProofs` proves for every width of the sequence and everything the
transport may do that no event is applied twice but the largest
(`NothingIsAppliedTwice`) and that what was applied without a reported gap is an
interval that starts after the snapshot (`AppliedNeverHasAHole`). The strengthening:
the detector's last number bounds what was applied (`Bounded`), and the interval ends
exactly there (`Interval`).

`LevelProofs` proves for every price grid, word size, number of slots, map capacity, hash function and
width what the `level_stores` run checks of its invariants: the structures of both sides are exact
(`StructuresHold`), they answer alike (`AnswersHold`) and store what they admit (`AdmissionHolds`).
None of the three is inductive: that two sides agree today says nothing of tomorrow
if the map has an entry where no search will come. `StoresInv` has the reasons. The dense side's bitmap
marks the levels with orders and its cached index is the best of them (`DenseIs`); the sparse
side's list, free stack, positions, map and best slot are all about the same slots, those with orders
(`SparseShape`, `SparseIs`); the slots hold the queues of the dense side (`Holds`); and there are no
more orders than slots. The argument:

1. *Words.* An index is a word and a bit (`WordAndBit`, `IndexOfBit`), so that the outermost bit of
   the outermost word is the best index (`OutermostIs`), of the rest of a word and those beyond it
   too: `find_next_index_after` finds the best index behind another one (`DenseNextIs`).
2. *Map.* Each entry is where a search for its price comes, past cells that have never been empty
   (`Reaches`). Tombstones keep that (`MapErases`), and so does an insertion, which drives entries
   on until one finds a cell without a level (`Travels`, `TravelsOn`); at most half of
   the cells are taken (`MapHasRoom`), so one does. Hence a search finds the price, and
   nothing else (`FindSlotIs`). Robin Hood order is not needed: the search does not stop early.
3. *List.* The binary search of `lower_bound_price` finds where a price belongs (`LowerBoundIs`:
   each round halves what is left, so as many rounds as there are levels are enough), and insertion and removal
   renumber what they shift (`InsertListed`, `RemoveListed`).
4. *Levels.* An added order finds its level or a free slot for it, since there are at most as many
   levels as orders (`CountCovers`); `create_level` and `remove_occupied_level` change all the structures at once
   (`CreateLevelIs`, `RemoveLevelIs`). A replacement at a new price with every slot taken is admitted
   only if the old order was alone in its level: then that slot is free when it is needed (`SparseReplaces`, `ReplaceKeeps`).
5. *Both sides.* Each operation does the same to the queues of both (`AddsAgree`, `RemovesAgree`, `ReducesAgree`), so does
   each turn of `match` (`TurnsAgree`) and, turn by turn, the whole of it (`MatchedAgree`). The walk of the dense side from index to
   index and that of the sparse side along its list list the same levels in the same order (`WalkAgree`), on which every other answer rests.

`ReplayEnvProofs` proves for every tape, latency, price grid and limit that fills are earned
(`FillsAreAlwaysEarned`), the inventory is bounded (`InventoryIsAlwaysBounded`), no order is there
while the feed is out of step (`NoOrderEverOutlivesTheFeed`) and quotes are passive
(`QuotesAreAlwaysPassive`). The inductive invariant `Inv` says of the environment:

1. `Earned`: what an order has filled is what the evidence allows, and the queue before it is what
   the evidence has not used up. The ledger compares a trade's time with the order's activation
   and the source-time watermark, the auxiliary account with the latest time processed; so `Inv`
   has it that the two are the same (`env.watermark = peak`), which a bridge, with no watermark yet, and
   a resnapshot must keep.
2. `Bounded`: neither resting order could take the inventory past the limit. A fill moves inventory
   and order by the same amount; an activation is refused when the order could (`IsRefused`).
3. `Apart` and `Passive`: an order is refused if it crosses the book or the other quote when it is
   activated, and `CancelCrossed` removes what an update crosses before anything else sees it.
4. `Quiet`: an environment that is not synchronized holds no order.

All orders that are due at once are activated one after the other, each against the environment the
one before it left; `ActivatesRuns` and `ThoseRuns` (`QueueLemmas`) give the proof such a loop
as a function of its turns.

`EngineProofs` and `RecoveryProofs` prove for every set of instruments, hash, lookup table with a
cell to spare, configuration, pool, width, book and script of commands the five properties of
`Recovery`: what an engine holds are books (`BooksStayBooksHolds`), it finds exactly its instruments
(`RoutesAreExactHolds`), a recovery is exact (`RecoveryIsExactHolds`), a reproduced record vouches
for the engine (`ReplayVouchesHolds`) and a restore is all or nothing
(`RestoreIsAllOrNothingHolds`). A sixth theorem is its other side: the saved snapshot, unchanged, is
accepted by every engine with the instruments of the live one (`SavedIsRestorableHolds`, which
TLC also found true of every state of the `recovery` instance). None of it depends on how many commands, crashes, refusals or
records out of turn there were.

The argument about histories. `RecoveryIsExact` speaks of `past`, the engines there have been, and is
not inductive: it must be known how journal and snapshot relate to them. `RecoveryInv` says that
every engine of the past is one of books, the first new (`PastIs`); that the snapshot is the
image of one of them (`SavedIs`); that each record, durable or not, is the record of a command
that led from one to the next (`RecordIs`); that the live engine holds the same books as the last
(`LiveIs`); that an engine recovered from nothing that was changed holds the books of the past at
the cursor (`RecoveredIs`) and one that was vouched for has the checksum of the past there
(`VouchedIs`). Engines are compared by `SameBooks`, instrument by instrument: a recovered engine may
have its instruments in another order, another lookup table, even other statistics. TLC checked
`RecoveryInv` on the states of the `recovery` run before it was proved. Its steps need these facts
about data:

1. *Dispatch.* The lookup table only grows, so every cell probed before an instrument's own stays
   taken (`Reaches`), and a search ends at the instrument or at an empty cell, of which there is one
   (`FreeProbe`). Every command keeps the book of its instrument `HeldOk`: sound, uncrossed, queues
   in sequence, totals exact, and for exactly the resting orders a lifecycle (initial quantity, partly
   filled or not) that validation would accept. The matching loop is a fold over a
   number of turns that only has to be large enough; each turn but the last takes an order out.
   (`DispatchOk`.)
2. *Determinism.* Engines with the same books answer a command with the same record, and hold
   the same books afterwards (`DispatchFollows`, `SameRecord`). So replay of a due record
   reproduces it, and leads to the next engine of the past.
3. *Restore.* A pass of the radix sort takes the records with digit 0, then those with digit 1,
   each in their order (`PassArranges`), so the sort is stable and by key (`SortedIs`). Since a level's
   orders have one key, and levels have different ones (`KeyApart`), the loop of restore appends
   each level's orders in the order of the image, and what it has restored after k orders is the
   book of the first k (`Restored`, `RestoreSteps`). A book restored from a valid image is `HeldOk`
   (`RestoredIsOk`): this is what validation has to check, and it is enough.
4. *Round trip.* The image lists a book's orders side by side, level by level, in the order of the
   queues (`AllInOrder`, by induction on the levels, best first). A restored book therefore has the same
   orders in the same queues; two queues of the same orders, both in the order of one list, are
   the same (`SameQueue`), and with them totals, best prices and index (`AlikeAre`, `RoundTrip`).
5. *No refusal half-way.* `restore_snapshot_order` can refuse an order for want of a slot, for a level
   total that would overflow, or for an id that is there. Validation has counted the orders, compared the ids
   and bounded each level's sum; the sums over the first k orders only rise (`SumsRise`,
   `NoneTooWide`), so every insertion succeeds (`BookAccepted`), and a restore that is refused
   has been refused before any book was touched (`RefusedChangesNothing`).
6. *No refusal of what was written.* The image of a `HeldOk` book passes every test of validation:
   its orders are those of the index, each once (`Written`, `OrdersFit`, `OrdersAreSound`); sorted
   by key they stand level by level as in the queues, whose sequences do not fall (`OrdersInSequence`);
   and picking out a level's orders gives its queue, so the aggregates are those of the
   book (`LevelIsWritten`, `LevelsMatchOrders`, `WrittenIsValid`).
7. *The checksum.* It lists everything an engine holds but the event number, so equal checksums mean
   equal books but for that (`SumSettles`, `SameUnnumbered`).

8. *Construction.* After any number of insertions the engine is one of that many instruments
(`InsertsAll`), and whatever it is by then `fail_initialization` leaves nothing of it
(`FailLeavesNothing`, `ConstructedIs`).

The assumptions are the named `ASSUME`s of the modules: positive widths and capacities, an
anonymous participant, a level that is none, integer prices every
non-empty set of which has a least and a greatest element (a finite grid), and
configurations with positive pool, lot and event-log sizes and at least two index
slots (`capacity_for` never returns fewer). `OrderIdMap` assumes an id that is no order's and a
number of slots that is a power of two, at least two. `ReplayEnv` assumes a finite price grid and
configured quotes with a depth and an inventory limit that are natural numbers; `LevelStores` a valid grid
(`BookConfig::valid`), at least one order and a map of the capacity that the code computes; `Engine`, `Snapshot` and
`Recovery` a lookup table with a cell to spare, an id that is no order's, level keys with finitely
many digits, a valid list of instruments and commands that decode. TLC evaluates them in every run.

**Only model-checked.** All safety properties of `OrderBook`, `OrderIdMap`, `OperationLog`,
`MarketFeed`, `OrderNodes`, `LevelStores`, `Recovery` and `ReplayEnv` that the passing runs check are
theorems. What is left to TLC: that the dense side, besides, refines `PriceQueues`, whose walk takes the
prices in the order of a sort and whose count is a fold over a set; and
`CommandsEnd`, which is liveness, and liveness under fairness is out of the prover's reach.
`Foresight`, `Placement` and `Reserve` were found on TLC's instances of `OrderBook` first (the
configurations of section 3) and proved afterwards, as was `RecoveryInv` on that of `Recovery`.

## 5. Not modelled, and why

- The refusals `InvalidCommand`, for a side that is neither, and `InvalidConfiguration`, for a book
  whose configuration is no valid one: both return after
  `begin_operation`, before the book is read or changed, and the engine builds no such book.
- That a quote survives: `_activate` (`replay.py:839-858`) cancels the resting order of a side
  before the native book may still refuse the new one as crossing, and reports both. `ReplayEnv` has that
  step; no property speaks of the lost quote.
- Timestamps and event payloads beyond what the properties tell apart: stored, never decided upon.
- Probe statistics, operation counters, memory layout of the logs.
- The byte layout of commands, records and snapshots: pure functions without
  state. That bytes may be torn or changed is modelled by what decoding then yields.
- CRC, checksum and digest collisions: these are 32- and 64-bit values, here the values they are taken of.
- In `Engine`, the command options that `OrderBook` has (participants, post-only,
  IOC, FOK) and the limits other than pool and width: journal and snapshot treat
  all commands alike.
- The tape reader and `DepthBook`'s update identifiers (`market_data.py`): a chain
  of field checks on immutable input that ends in an accepted event or in an
  error; `ReplayEnv` has both outcomes at every event.
- Cash, fees, rewards, features, observations and the info dictionary of `ReplayEnv`: floating-point
  arithmetic that no decision of the ledger reads.
- The simulated environment (`env.py`): random order flow around the same dispatch; what is its own is statistical.
- Live capture (`fetch_l2_data.py` and the streaming experiments): websocket and file input and output of a
  third-party protocol.
- Features, model files, bindings, training and analysis scripts:
  numerical or I/O code without a protocol of its own.

## 6. What could follow

- `DepthFeed`: the update identifiers of snapshot, bridge and updates against a
  venue that loses and repeats, as the abstract source of `ReplayEnv`'s events.
- `PriceTimeBook`: what a book promises a client, implemented by `OrderBook`.
- A proof that the dense side, and with it the sparse one, is the `PriceQueues` it is checked to be.
