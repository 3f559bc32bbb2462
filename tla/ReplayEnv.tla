----------------------------- MODULE ReplayEnv ------------------------------
(***************************************************************************)
(* SequencedMarketEnv and its OwnOrderLedger (src/eigenbook/replay.py): an *)
(* agent's quotes against a recorded depth tape. The external book and the *)
(* agent's own orders are separate; an own order is activated some events  *)
(* after it was decided on, and filled by trades at its price once they    *)
(* have used up the quantity displayed ahead of it. The tape may end,      *)
(* break its sequence or start again from a new snapshot at any event.     *)
(*                                                                         *)
(*   session  "over" until reset, "bridging" a snapshot, "ready" for an    *)
(*            action, "stepping" through the events of one                 *)
(*   env      depth       DepthBook's bids and asks: a size for each price *)
(*            synced      feed_synchronized                                *)
(*            watermark   source_time_watermark, NoTime for None           *)
(*            active      the own order of each side, or NoOrder           *)
(*            pending     _pending, each with the events it still waits    *)
(*                        for (activation_event - feed_event_count)        *)
(*            inventory   the agent's                                      *)
(*            latency     order_entry_latency_events                       *)
(*   left     events this step may still take                              *)
(*   ended    why the step takes no more: "no", "risk" or "exhausted"      *)
(*   resume   _resume_on_reset                                             *)
(*   base, earned, peak   auxiliary: the inventory the episode began with, *)
(*            what the reported trades allow it to have grown by, and the  *)
(*            latest source time since the snapshot                        *)
(* An order also carries auxiliary fields: what was asked for, the         *)
(* quantity displayed ahead of it, and the trades seen since that count.   *)
(***************************************************************************)
EXTENDS Integers, FiniteSets, FiniteSetsExt, Filter

CONSTANTS
  Price,              (* Prices of the external book.                      *)
  OwnPrice,           (* Prices the own-order engine has a level for.      *)
  NoPrice,            (* None: a side without depth.                       *)
  Depth,              (* The external books a tape may show.               *)
  Time,               (* Source times of events.                           *)
  TradeSize, Quantity,(* Sizes of trades and of quotes.                    *)
  Distance,           (* Ticks from the best price a quote may be placed.  *)
  Latencies,          (* Values of order_entry_latency_events.             *)
  EventsPerAction,    (* events_per_action.                                *)
  InventoryLimit,     (* max_abs_inventory.                                *)
  FirstInventory,     (* Inventories an episode may start with.            *)
  NoOrder

Side == {"buy", "sell"}

(* An own order, as OwnOrderLedger keeps it, with its auxiliary fields.    *)
OwnOrder ==
  [side: Side, price: OwnPrice, qty: Nat, time: Nat, queue: Nat,
   asked: Nat, seen: Nat, ahead: Nat]

ASSUME EnvAssumption ==
  /\ Price \subseteq Nat \ {0} /\ IsFiniteSet(Price) /\ NoPrice \notin Int
  /\ OwnPrice \subseteq Nat /\ NoOrder \notin OwnOrder
  /\ Depth \subseteq [Side -> [Price -> Nat]] /\ Time \subseteq Nat \ {0}
  /\ TradeSize \subseteq Nat \ {0} /\ Quantity \subseteq Nat \ {0}
  /\ Distance \subseteq Nat /\ Latencies \subseteq Nat
  /\ EventsPerAction \in Nat \ {0} /\ InventoryLimit \in Nat
  /\ FirstInventory \subseteq Int
  /\ \A n \in FirstInventory : -InventoryLimit < n /\ n < InventoryLimit

Opposite(s) == IF s = "buy" THEN "sell" ELSE "buy"
NoTime == 0

VARIABLES session, env, left, ended, resume, base, earned, peak
vars == <<session, env, left, ended, resume, base, earned, peak>>

Max2(x, y) == IF x > y THEN x ELSE y
Min2(x, y) == IF x < y THEN x ELSE y
Abs(n) == Max2(n, -n)

(* best_bid and best_ask of a book. *)
Best(d, s) ==
  LET shown == {p \in Price : d[s][p] > 0}
  IN IF shown = {} THEN NoPrice ELSE IF s = "buy" THEN Max(shown) ELSE Min(shown)

(* What DepthBook.apply accepts after an event. *)
Uncrossed(d) ==
  NoPrice \notin {Best(d, "buy"), Best(d, "sell")} => Best(d, "buy") < Best(d, "sell")
IsSnapshot(d) == Uncrossed(d) /\ \A s \in Side : Best(d, s) # NoPrice

NoOrders == [s \in Side |-> NoOrder]

Init ==
  /\ session = "over"
  /\ \E n \in Latencies :
       env = [latency |-> n, depth |-> [s \in Side |-> [p \in Price |-> 0]], synced |-> FALSE,
              watermark |-> NoTime, active |-> NoOrders, pending |-> <<>>, inventory |-> 0]
  /\ left = 0 /\ ended = "no" /\ resume = FALSE
  /\ base = 0 /\ earned = 0 /\ peak = NoTime

-----------------------------------------------------------------------------
(* Own orders.                                                             *)

(* Mutant of IsMarketable: a price that only locks the book will do. *)
IsMarketableInside(d, o) ==
  LET best == Best(d, Opposite(o.side))
  IN best # NoPrice /\ IF o.side = "buy" THEN o.price > best ELSE o.price < best

IsMarketable(d, o) ==
  LET best == Best(d, Opposite(o.side))
  IN best # NoPrice /\ IF o.side = "buy" THEN o.price >= best ELSE o.price <= best

(* Mutant of WouldExceed: the order itself is not counted. *)
ExceedsAlready(e, o) == Abs(e.inventory) > InventoryLimit

(* _would_exceed_inventory_limit *)
WouldExceed(e, o) ==
  Abs(IF o.side = "buy" THEN e.inventory + o.qty ELSE e.inventory - o.qty) > InventoryLimit

(* The engine's post-only: the agent's own quotes do not cross. *)
WouldCrossOwn(active, o) ==
  LET other == active[Opposite(o.side)]
  IN other # NoOrder /\ IF o.side = "buy" THEN o.price >= other.price ELSE o.price <= other.price

IsRefused(e, o) ==
  \/ ~e.synced \/ e.watermark = NoTime
  \/ o.price \notin OwnPrice
  \/ IsMarketable(e.depth, o)
  \/ WouldExceed(e, o)

(* An order that starts to rest behind what is displayed at its price.     *)
Queued(e, o) ==
  [side |-> o.side, price |-> o.price, qty |-> o.qty, time |-> e.watermark,
   queue |-> IF o.price \in Price THEN e.depth[o.side][o.price] ELSE 0,
   asked |-> o.qty, seen |-> 0,
   ahead |-> IF o.price \in Price THEN e.depth[o.side][o.price] ELSE 0]

(* _activate: the side's order goes before the new one is added, and stays *)
(* away if the engine refuses that.                                        *)
Activate(e, o) ==
  LET without == [e.active EXCEPT ![o.side] = NoOrder]
  IN IF IsRefused(e, o) THEN e
     ELSE [e EXCEPT !.active = IF WouldCrossOwn(without, o) THEN without
                               ELSE [without EXCEPT ![o.side] = Queued(e, o)]]

(* _activate_due *)
ActivateDue(e) ==
  LET due == {o \in Range(e.pending) : o.wait <= 0}
  IN FoldLeft(Activate,
              [e EXCEPT !.pending = Those(@, Range(@) \ due)],
              Those(e.pending, due))

(* cancel_crossed_by_market *)
CancelCrossed(e) ==
  [e EXCEPT !.active = [s \in Side |->
     IF @[s] = NoOrder THEN NoOrder ELSE IF IsMarketable(e.depth, @[s]) THEN NoOrder ELSE @[s]]]

(* feed_event_count + 1 *)
Counted(e) ==
  LET sooner(o) == [o EXCEPT !.wait = @ - 1]
  IN [e EXCEPT !.pending = [n \in DOMAIN @ |-> sooner(@[n])]]

Later(w, t) == Max2(w, t)

-----------------------------------------------------------------------------
(* Source events.                                                          *)

ApplyUpdate(e, d, t) ==
  Counted(CancelCrossed([e EXCEPT !.depth = d, !.synced = TRUE, !.watermark = Later(@, t)]))

ApplySnapshot(e, d) ==
  Counted([e EXCEPT !.depth = d, !.synced = FALSE, !.watermark = NoTime,
                    !.active = NoOrders, !.pending = <<>>])

(* Whether a trade is at an order's price, against it. *)
Meets(o, aggressor, p) == o # NoOrder /\ o.side # aggressor /\ o.price = p

(* Mutant of IsUsable: a trade stamped at the activation counts. *)
IsUsableAtOnce(e, o, t) == t >= o.time /\ t >= e.watermark

(* Evidence counts if stamped after the activation and not behind what has *)
(* been processed (apply_trade).                                           *)
IsUsable(e, o, t) == t > o.time /\ t >= e.watermark

(* The trade eats into the queue ahead, then fills what it can.            *)
ApplyTrade(e, aggressor, p, size, t) ==
  LET s == Opposite(aggressor)
      o == e.active[s]
      fill == IF Meets(o, aggressor, p) /\ IsUsable(e, o, t)
              THEN Min2(o.qty, Max2(0, size - o.queue)) ELSE 0
      after == [o EXCEPT !.qty = @ - fill, !.queue = Max2(0, @ - size)]
  IN Counted(
       [e EXCEPT !.watermark = Later(@, t),
                 !.inventory = IF s = "buy" THEN @ + fill ELSE @ - fill,
                 !.active[s] = IF ~Meets(o, aggressor, p) THEN @
                               ELSE IF ~IsUsable(e, o, t) THEN @
                               ELSE IF fill = o.qty THEN NoOrder ELSE after])

-----------------------------------------------------------------------------
(* The environment.                                                        *)

(* Mutant of FailedClosed: what waits to be activated is kept. *)
FailedOpen(e) == [e EXCEPT !.synced = FALSE, !.active = NoOrders]

(* _fail_feed_closed *)
FailedClosed(e) == [e EXCEPT !.synced = FALSE, !.active = NoOrders, !.pending = <<>>]

(* reset from the start of a tape, at any time between two steps: its      *)
(* snapshot; the bridge follows.                                           *)
Reset(d) ==
  /\ session \in {"over", "ready"}
  /\ session' = "bridging"
  /\ env' = ApplySnapshot(env, d)
  /\ left' = 0 /\ ended' = "no" /\ resume' = FALSE /\ peak' = NoTime
  /\ UNCHANGED <<base, earned>>

(* reset after an episode that ended between events goes on from there.    *)
ResumeTape(n) ==
  /\ session = "over" /\ resume /\ env.synced
  /\ session' = "ready"
  /\ env' = [env EXCEPT !.active = NoOrders, !.pending = <<>>, !.inventory = n]
  /\ resume' = FALSE /\ ended' = "no"
  /\ base' = n /\ earned' = 0
  /\ UNCHANGED <<left, peak>>

(* The first half of step: the quote, activated at once or pending in the  *)
(* place of an older one of its side.                                      *)
Act(s, distance, q) ==
  LET best == Best(env.depth, s)
      o == [side |-> s, qty |-> q, wait |-> env.latency,
            price |-> IF s = "buy" THEN best - distance ELSE best + distance]
      others == Those(env.pending, {x \in Range(env.pending) : x.side # s})
  IN /\ session = "ready"
     /\ session' = "stepping" /\ left' = EventsPerAction
     /\ env' = IF best = NoPrice THEN env
               ELSE IF env.latency = 0 THEN Activate(env, o)
               ELSE [env EXCEPT !.pending = Append(others, o)]
     /\ UNCHANGED <<ended, resume, base, earned, peak>>

(* What follows an event in step's loop: due orders, then the risk limit.  *)
AfterEvent(e) ==
  LET f == ActivateDue(e)
  IN /\ env' = f
     /\ IF Abs(f.inventory) >= InventoryLimit THEN ended' = "risk" /\ left' = 0
        ELSE UNCHANGED ended /\ left' = left - 1

TakesEvent == session = "stepping" /\ left > 0

Update(d, t) ==
  /\ TakesEvent
  /\ AfterEvent(ApplyUpdate(env, d, t))
  /\ peak' = Max2(peak, t)
  /\ UNCHANGED <<session, resume, base, earned>>

(* What cumulated evidence allows an order to have been filled. *)
Allowed(o) == Min2(o.asked, Max2(0, o.seen - o.ahead))

(* The auxiliary count of a trade: it is evidence for the order it meets   *)
(* if it is later than everything before the activation and not earlier    *)
(* than anything processed since.                                          *)
Witnessed(o, aggressor, p, size, t) ==
  IF Meets(o, aggressor, p) /\ t > o.time /\ t >= peak
  THEN [o EXCEPT !.seen = @ + size] ELSE o

Trade(aggressor, p, size, t) ==
  LET s == Opposite(aggressor)
      o == env.active[s]
      w == Witnessed(o, aggressor, p, size, t)
      counted == [env EXCEPT !.active[s] = w]
      more == IF o = NoOrder THEN 0 ELSE Allowed(w) - Allowed(o)
  IN /\ TakesEvent
     /\ AfterEvent(ApplyTrade(counted, aggressor, p, size, t))
     /\ earned' = IF s = "buy" THEN earned + more ELSE earned - more
     /\ peak' = Max2(peak, t)
     /\ UNCHANGED <<session, resume, base>>

Resnapshot(d) ==
  /\ TakesEvent
  /\ session' = "bridging"
  /\ env' = ApplySnapshot(env, d)
  /\ peak' = NoTime
  /\ UNCHANGED <<left, ended, resume, base, earned>>

(* The update that must follow a snapshot. It completes reset, or the      *)
(* event of the step that met the snapshot.                                *)
Bridge(d, t, n) ==
  /\ session = "bridging"
  /\ peak' = t
  /\ UNCHANGED resume
  /\ IF left = 0
     THEN /\ session' = "ready"
          /\ env' = [ApplyUpdate(env, d, t) EXCEPT !.inventory = n]
          /\ base' = n /\ earned' = 0
          /\ UNCHANGED <<left, ended>>
     ELSE /\ session' = "stepping"
          /\ AfterEvent(ApplyUpdate(env, d, t))
          /\ UNCHANGED <<base, earned>>

(* A gap in the sequence, an event that is not valid, a snapshot without   *)
(* its bridge: the error leaves step or reset.                             *)
FeedFails ==
  /\ TakesEvent \/ session = "bridging"
  /\ session' = "over"
  /\ env' = FailedClosed(env)
  /\ left' = 0
  /\ UNCHANGED <<ended, resume, base, earned, peak>>

TapeEnds ==
  /\ TakesEvent
  /\ ended' = "exhausted" /\ left' = 0
  /\ UNCHANGED <<session, env, resume, base, earned, peak>>

(* _liquidate against the displayed depth, as far as it goes.              *)
Liquidated(e) ==
  LET s == IF e.inventory > 0 THEN "buy" ELSE "sell"
      shown == MapThenSumSet(LAMBDA p : e.depth[s][p], Price)
      x == Min2(Abs(e.inventory), shown)
  IN [e EXCEPT !.inventory = IF @ > 0 THEN @ - x ELSE @ + x]

(* The second half of step; the horizon may have been reached.             *)
EndStep(horizon, liquidate) ==
  /\ session = "stepping" /\ left = 0
  /\ IF ended # "no" \/ horizon
     THEN /\ session' = "over"
          /\ env' = [(IF liquidate THEN Liquidated(env) ELSE env) EXCEPT
                       !.active = NoOrders, !.pending = <<>>]
          /\ resume' = (ended # "exhausted" /\ env.synced)
          /\ base' = env'.inventory /\ earned' = 0
     ELSE session' = "ready" /\ UNCHANGED <<env, resume, base, earned>>
  /\ UNCHANGED <<left, ended, peak>>

Next ==
  \/ \E d \in Depth : IsSnapshot(d) /\ (Reset(d) \/ Resnapshot(d))
  \/ \E n \in FirstInventory : ResumeTape(n)
  \/ \E s \in Side, distance \in Distance, q \in Quantity : Act(s, distance, q)
  \/ \E d \in Depth, t \in Time : Uncrossed(d) /\ Update(d, t)
  \/ \E d \in Depth, t \in Time, n \in FirstInventory : Uncrossed(d) /\ Bridge(d, t, n)
  \/ \E s \in Side, p \in Price, size \in TradeSize, t \in Time : Trade(s, p, size, t)
  \/ FeedFails
  \/ TapeEnds
  \/ \E horizon, liquidate \in BOOLEAN : EndStep(horizon, liquidate)

Spec == Init /\ [][Next]_vars

-----------------------------------------------------------------------------
(* Properties.                                                             *)

Resting == {env.active[s] : s \in Side} \ {NoOrder}

(* The inventory moves by exactly what the reported trades account for: at *)
(* an order's price, against it, later than its activation and than all    *)
(* that was processed since, and beyond what was displayed ahead of it;    *)
(* none counts twice or for two orders.                                    *)
FillsAreEarned ==
  /\ session # "over" => env.inventory = base + earned
  /\ \A o \in Resting : o.asked - o.qty = Allowed(o)

Bid == env.active["buy"]
Ask == env.active["sell"]

(* No sequence of activations, fills and replacements takes the inventory  *)
(* past its limit, and none of the resting quotes could.                   *)
InventoryIsBounded ==
  /\ Abs(env.inventory) <= InventoryLimit
  /\ Bid # NoOrder => env.inventory + Bid.qty <= InventoryLimit
  /\ Ask # NoOrder => env.inventory - Ask.qty >= -InventoryLimit

(* While the feed is not synchronized, between a snapshot and its bridge   *)
(* or after an error, no order rests or waits, and no action is taken.     *)
NoOrderOutlivesTheFeed ==
  ~env.synced => /\ env.active = NoOrders /\ env.pending = <<>>
                 /\ session \in {"over", "bridging"}

(* Whatever the market did between decision, activation and now, no own    *)
(* quote is marketable against the external book or the other quote.       *)
QuotesArePassive ==
  LET bestBid == Best(env.depth, "buy")
      bestAsk == Best(env.depth, "sell")
  IN /\ Bid # NoOrder /\ bestAsk # NoPrice => Bid.price < bestAsk
     /\ Ask # NoOrder /\ bestBid # NoPrice => Ask.price > bestBid
     /\ Bid # NoOrder /\ Ask # NoOrder => Bid.price < Ask.price

=============================================================================
