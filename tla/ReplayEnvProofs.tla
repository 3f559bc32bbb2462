-------------------------- MODULE ReplayEnvProofs ---------------------------
(***************************************************************************)
(* The replay environment, for every tape, latency and limit: fills are    *)
(* earned, the inventory is bounded, and quotes are passive and do not     *)
(* outlive the feed.                                                       *)
(***************************************************************************)
EXTENDS ReplayEnv, QueueLemmas

(* What waits to be activated.                                             *)
Waiting == [side: Side, qty: Quantity, wait: Int, price: Int]

Environment ==
  [latency: Latencies, depth: [Side -> [Price -> Nat]], synced: BOOLEAN, watermark: Nat,
   active: [Side -> OwnOrder \cup {NoOrder}], pending: Seq(Waiting), inventory: Int]

(* An order that rests on side s has filled what its evidence allows, and  *)
(* has before it what the evidence has not used up.                        *)
IsEarned(o, s) ==
  /\ o.side = s /\ o.qty \in 1..o.asked
  /\ o.queue = Max2(0, o.ahead - o.seen)
  /\ o.asked - o.qty = Allowed(o)

Earned(e) == \A s \in Side : e.active[s] # NoOrder => IsEarned(e.active[s], s)

Bounded(e) ==
  /\ Abs(e.inventory) <= InventoryLimit
  /\ e.active["buy"] # NoOrder => e.inventory + e.active["buy"].qty <= InventoryLimit
  /\ e.active["sell"] # NoOrder => e.inventory - e.active["sell"].qty >= -InventoryLimit

(* The quotes are apart from each other, and from the market.              *)
Apart(e) ==
  e.active["buy"] # NoOrder /\ e.active["sell"] # NoOrder
    => e.active["buy"].price < e.active["sell"].price

Passive(e) ==
  \A s \in Side : e.active[s] # NoOrder => ~IsMarketable(e.depth, e.active[s])

EnvOk(e) == e \in Environment /\ Earned(e) /\ Bounded(e) /\ Apart(e) /\ Passive(e)

Quiet(e) == ~e.synced => e.active = NoOrders /\ e.pending = <<>>

(* The inductive invariant. The watermark is the latest time processed, so *)
(* the evidence the ledger uses is the evidence there is; bridging an      *)
(* environment has no watermark.                                           *)
Inv ==
  /\ EnvOk(env) /\ Quiet(env)
  /\ base \in Int /\ earned \in Int /\ env.inventory = base + earned
  /\ peak \in Nat /\ env.watermark = peak
  /\ left \in 0..EventsPerAction
  /\ session \in {"over", "bridging", "ready", "stepping"}
  /\ session \in {"ready", "stepping"} => env.synced
  /\ session = "bridging" => ~env.synced /\ peak = NoTime

-----------------------------------------------------------------------------
(* A finite set of numbers has a greatest and a least.                     *)
LEMMA HasMax ==
  ASSUME NEW S, IsFiniteSet(S), S \subseteq Int, S # {}
  PROVE  Max(S) \in S /\ Min(S) \in S
<1> DEFINE P == {T \in SUBSET S : T # {} =>
                   /\ \E x \in T : \A y \in T : x >= y
                   /\ \E x \in T : \A y \in T : x <= y}
<1>1. ASSUME NEW T \in SUBSET S, \A x \in T : T \ {x} \in P PROVE T \in P
  <2>1. SUFFICES ASSUME T # {} PROVE /\ \E x \in T : \A y \in T : x >= y
                                     /\ \E x \in T : \A y \in T : x <= y
    OBVIOUS
  <2>2. PICK z \in T : TRUE
    BY <2>1
  <2>3. CASE T = {z}
    BY <2>3
  <2>4. CASE T # {z}
    <3>1. T \ {z} # {} /\ T \ {z} \in P
      BY <2>2, <2>4, <1>1
    <3>2. PICK x \in T \ {z} : \A y \in T \ {z} : x >= y
      BY <3>1
    <3>3. PICK w \in T \ {z} : \A y \in T \ {z} : w <= y
      BY <3>1
    <3>4. x \in Int /\ w \in Int /\ z \in Int /\ \A y \in T : y \in Int
      BY <2>2
    <3>5. \E u \in T : \A y \in T : u >= y
      <4>1. CASE x >= z
        BY <3>2, <3>4, <4>1
      <4>2. CASE ~(x >= z)
        <5>1. \A y \in T : z >= y
          BY <3>2, <3>4, <4>2
        <5> QED BY <5>1, <2>2
      <4> QED BY <4>1, <4>2
    <3>6. \E u \in T : \A y \in T : u <= y
      <4>1. CASE w <= z
        BY <3>3, <3>4, <4>1
      <4>2. CASE ~(w <= z)
        <5>1. \A y \in T : z <= y
          BY <3>3, <3>4, <4>2
        <5> QED BY <5>1, <2>2
      <4> QED BY <4>1, <4>2
    <3> QED BY <3>5, <3>6
  <2> QED BY <2>3, <2>4
<1>2. P \in SUBSET SUBSET S
  OBVIOUS
<1> HIDE DEF P
<1>3. S \in P
  BY <1>1, <1>2, SubsetInduction
<1> QED
  BY <1>3 DEF P, Max, Min

(* The best price of a side is a price, if there is one.                   *)
LEMMA BestIsPrice ==
  ASSUME NEW d \in [Side -> [Price -> Nat]], NEW s \in Side
  PROVE  Best(d, s) # NoPrice => Best(d, s) \in Price
<1> DEFINE shown == {p \in Price : d[s][p] > 0}
<1>1. IsFiniteSet(shown) /\ shown \subseteq Price /\ Price \subseteq Int
  BY EnvAssumption, FS_Subset
<1>2. shown # {} => Max(shown) \in shown /\ Min(shown) \in shown
  BY <1>1, HasMax
<1> QED
  BY <1>1, <1>2 DEF Best

(* A quote that is not marketable stands off the best price against it.    *)
LEMMA NotMarketable ==
  ASSUME NEW d, NEW o, o.side \in Side, ~IsMarketable(d, o),
         Best(d, Opposite(o.side)) # NoPrice
  PROVE  /\ o.side = "buy" => ~(o.price >= Best(d, "sell"))
         /\ o.side = "sell" => ~(o.price <= Best(d, "buy"))
BY DEF IsMarketable, Opposite, Side

(* What the invariant says of the environment is what the run checks.      *)
LEMMA InvIsEnough ==
  Inv => FillsAreEarned /\ InventoryIsBounded /\ NoOrderOutlivesTheFeed /\ QuotesArePassive
<1> SUFFICES ASSUME Inv
             PROVE  FillsAreEarned /\ InventoryIsBounded /\ NoOrderOutlivesTheFeed /\ QuotesArePassive
  OBVIOUS
<1>1. FillsAreEarned
  BY DEF Inv, EnvOk, Earned, IsEarned, FillsAreEarned, Resting
<1>2. InventoryIsBounded
  BY DEF Inv, EnvOk, Bounded, InventoryIsBounded, Bid, Ask
<1>3. NoOrderOutlivesTheFeed
  BY DEF Inv, Quiet, NoOrderOutlivesTheFeed
<1>4. QuotesArePassive
  <2> DEFINE bestBid == Best(env.depth, "buy")
             bestAsk == Best(env.depth, "sell")
  <2>1. "buy" \in Side /\ "sell" \in Side /\ env.depth \in [Side -> [Price -> Nat]]
        /\ env.active \in [Side -> OwnOrder \cup {NoOrder}]
    BY DEF Side, Inv, EnvOk, Environment
  <2>2. Price \subseteq Int /\ OwnPrice \subseteq Int
    BY EnvAssumption
  <2>3. (bestBid # NoPrice => bestBid \in Int) /\ (bestAsk # NoPrice => bestAsk \in Int)
    BY <2>1, <2>2, BestIsPrice
  <2>4. ASSUME Bid # NoOrder PROVE Bid.side = "buy" /\ Bid.price \in Int /\ ~IsMarketable(env.depth, Bid)
    <3>1. Bid \in OwnOrder
      BY <2>1, <2>4 DEF Bid
    <3> QED BY <2>1, <2>2, <2>4, <3>1 DEF Inv, EnvOk, Passive, Earned, IsEarned, Bid, OwnOrder
  <2>5. ASSUME Ask # NoOrder PROVE Ask.side = "sell" /\ Ask.price \in Int /\ ~IsMarketable(env.depth, Ask)
    <3>1. Ask \in OwnOrder
      BY <2>1, <2>5 DEF Ask
    <3> QED BY <2>1, <2>2, <2>5, <3>1 DEF Inv, EnvOk, Passive, Earned, IsEarned, Ask, OwnOrder
  <2>6. Bid # NoOrder /\ bestAsk # NoPrice => Bid.price < bestAsk
    BY <2>3, <2>4 DEF IsMarketable, Opposite
  <2>7. Ask # NoOrder /\ bestBid # NoPrice => Ask.price > bestBid
    BY <2>3, <2>5 DEF IsMarketable, Opposite
  <2>8. Bid # NoOrder /\ Ask # NoOrder => Bid.price < Ask.price
    BY DEF Inv, EnvOk, Apart, Bid, Ask
  <2> QED BY <2>6, <2>7, <2>8 DEF QuotesArePassive
<1> QED
  BY <1>1, <1>2, <1>3, <1>4

-----------------------------------------------------------------------------
(* The first state has no orders and no inventory.                         *)
LEMMA InvInit == Init => Inv
<1> SUFFICES ASSUME Init PROVE Inv
  OBVIOUS
<1>1. env \in Environment
  <2>1. [s \in Side |-> [p \in Price |-> 0]] \in [Side -> [Price -> Nat]]
    OBVIOUS
  <2>2. NoOrders \in [Side -> OwnOrder \cup {NoOrder}]
    BY DEF NoOrders
  <2>3. <<>> \in Seq(Waiting)
    BY EmptySeq
  <2> QED BY <2>1, <2>2, <2>3 DEF Init, Environment, NoTime
<1>2. env.active = NoOrders /\ env.pending = <<>> /\ env.inventory = 0 /\ env.watermark = 0
  BY DEF Init, NoTime
<1>3. \A s \in Side : env.active[s] = NoOrder
  BY <1>2 DEF NoOrders
<1>4. Earned(env) /\ Apart(env) /\ Passive(env)
  BY <1>3 DEF Earned, Apart, Passive, Side
<1>5. Bounded(env)
  BY <1>2, <1>3, EnvAssumption DEF Bounded, Side, Abs, Max2
<1> QED
  BY <1>1, <1>2, <1>4, <1>5, EnvAssumption DEF Inv, EnvOk, Quiet, Init, NoTime

(* What one order may change: nothing but the orders.                      *)
Same(e, f) ==
  /\ f.latency = e.latency /\ f.depth = e.depth /\ f.synced = e.synced
  /\ f.watermark = e.watermark /\ f.inventory = e.inventory

(* An environment without orders has nothing to be wrong with them.        *)
LEMMA NoOrdersOk ==
  ASSUME NEW e \in Environment, e.active = NoOrders, Abs(e.inventory) <= InventoryLimit
  PROVE  EnvOk(e)
<1>1. \A s \in Side : e.active[s] = NoOrder
  BY DEF NoOrders
<1> QED
  BY <1>1 DEF EnvOk, Earned, Apart, Passive, Bounded, Side

(* One order less is no worse.                                             *)
LEMMA OneLess ==
  ASSUME NEW e, EnvOk(e), NEW s \in Side,
         NEW f, f = [e EXCEPT !.active = [e.active EXCEPT ![s] = NoOrder]]
  PROVE  EnvOk(f) /\ Same(e, f) /\ f.pending = e.pending
<1>1. e \in Environment /\ e.active \in [Side -> OwnOrder \cup {NoOrder}]
  BY DEF EnvOk, Environment
<1>2. f \in Environment /\ Same(e, f) /\ f.pending = e.pending
      /\ f.active = [e.active EXCEPT ![s] = NoOrder]
  BY <1>1 DEF Environment, Same
<1>3. \A x \in Side : f.active[x] = IF x = s THEN NoOrder ELSE e.active[x]
  BY <1>1, <1>2
<1>4. "buy" \in Side /\ "sell" \in Side
  BY DEF Side
<1>5. Earned(f)
  BY <1>3 DEF EnvOk, Earned
<1>6. Bounded(f)
  BY <1>2, <1>3, <1>4 DEF EnvOk, Bounded, Same
<1>7. Apart(f)
  BY <1>3, <1>4 DEF EnvOk, Apart
<1>8. Passive(f)
  BY <1>2, <1>3 DEF EnvOk, Passive, Same
<1> QED
  BY <1>2, <1>5, <1>6, <1>7, <1>8 DEF EnvOk

(* An order that is activated is well formed, ahead of nothing yet, and as *)
(* passive and bounded as _activate and the engine asked.                  *)
LEMMA ActivateOk ==
  ASSUME NEW e, EnvOk(e), NEW o \in Waiting
  PROVE  EnvOk(Activate(e, o)) /\ Same(e, Activate(e, o)) /\ Activate(e, o).pending = e.pending
<1> DEFINE without == [e.active EXCEPT ![o.side] = NoOrder]
           q == Queued(e, o)
           f == [e EXCEPT !.active = without]
           g == [e EXCEPT !.active = [without EXCEPT ![o.side] = q]]
<1>1. e \in Environment /\ o.side \in Side /\ o.qty \in Quantity /\ o.price \in Int
  BY DEF EnvOk, Waiting
<1>2. CASE IsRefused(e, o)
  BY <1>2 DEF Activate, Same
<1>3. CASE ~IsRefused(e, o) /\ WouldCrossOwn(without, o)
  <2>1. Activate(e, o) = f
    BY <1>3 DEF Activate
  <2> HIDE DEF f
  <2>2. EnvOk(f) /\ Same(e, f) /\ f.pending = e.pending
    BY <1>1, OneLess DEF f
  <2> QED BY <2>1, <2>2
<1>4. CASE ~IsRefused(e, o) /\ ~WouldCrossOwn(without, o)
  <2>1. Activate(e, o) = g
    BY <1>4 DEF Activate
  <2>2. o.price \in OwnPrice /\ ~IsMarketable(e.depth, o) /\ ~WouldExceed(e, o)
    BY <1>4 DEF IsRefused
  <2>3. /\ e.depth \in [Side -> [Price -> Nat]] /\ e.watermark \in Nat /\ e.inventory \in Int
        /\ e.active \in [Side -> OwnOrder \cup {NoOrder}]
    BY <1>1 DEF Environment
  <2>4. o.qty \in Nat \ {0}
    BY <1>1, EnvAssumption
  <2>5. (IF o.price \in Price THEN e.depth[o.side][o.price] ELSE 0) \in Nat
    BY <1>1, <2>3
  <2>6. /\ q \in OwnOrder /\ q.side = o.side /\ q.price = o.price /\ q.qty = o.qty
        /\ q.asked = o.qty /\ q.seen = 0 /\ q.queue = q.ahead
    BY <1>1, <2>2, <2>3, <2>4, <2>5 DEF Queued, OwnOrder
  <2>7. q # NoOrder /\ q.ahead \in Nat
    BY <2>6, EnvAssumption DEF OwnOrder
  <2> HIDE DEF q
  <2>8. /\ g \in Environment /\ Same(e, g) /\ g.pending = e.pending
        /\ \A x \in Side : g.active[x] = IF x = o.side THEN q ELSE e.active[x]
    <3>1. /\ without \in [Side -> OwnOrder \cup {NoOrder}]
          /\ \A x \in Side : x # o.side => without[x] = e.active[x]
      BY <1>1, <2>3
    <3> HIDE DEF without
    <3>2. [without EXCEPT ![o.side] = q] \in [Side -> OwnOrder \cup {NoOrder}]
      BY <1>1, <2>6, <3>1
    <3>3. g \in Environment /\ Same(e, g) /\ g.pending = e.pending
          /\ g.active = [without EXCEPT ![o.side] = q]
      BY <1>1, <3>2 DEF Environment, Same
    <3> QED BY <1>1, <3>1, <3>3
  <2>9. "buy" \in Side /\ "sell" \in Side /\ o.side \in {"buy", "sell"}
    BY <1>1 DEF Side
  <2>10. Earned(g)
    <3>1. IsEarned(q, o.side)
      BY <2>4, <2>6, <2>7 DEF IsEarned, Allowed, Max2, Min2
    <3> QED BY <2>8, <3>1 DEF EnvOk, Earned
  <2>11. Bounded(g)
    <3>1. g.inventory = e.inventory /\ InventoryLimit \in Nat
      BY <2>8, EnvAssumption DEF Same
    <3>2. o.side = "buy" => e.inventory + q.qty <= InventoryLimit
      BY <2>2, <2>3, <2>4, <2>6, <3>1 DEF WouldExceed, Abs, Max2
    <3>3. o.side = "sell" => e.inventory - q.qty >= -InventoryLimit
      BY <2>2, <2>3, <2>4, <2>6, <2>9, <3>1 DEF WouldExceed, Abs, Max2
    <3> QED BY <2>8, <2>9, <3>1, <3>2, <3>3 DEF EnvOk, Bounded
  <2>12. Apart(g)
    <3>1. without[Opposite(o.side)] = e.active[Opposite(o.side)]
      BY <1>1, <2>3, <2>9 DEF Opposite
    <3>2. \A x \in Side : e.active[x] # NoOrder => e.active[x].price \in Int
      <4> TAKE x \in Side
      <4>1. e.active[x] # NoOrder => e.active[x] \in OwnOrder
        BY <2>3
      <4>2. OwnPrice \subseteq Int
        BY EnvAssumption
      <4> QED BY <4>1, <4>2 DEF OwnOrder
    <3>3. o.side = "buy" /\ e.active["sell"] # NoOrder => q.price < e.active["sell"].price
      BY <1>1, <1>4, <2>6, <2>9, <3>1, <3>2 DEF WouldCrossOwn, Opposite
    <3>4. o.side = "sell" /\ e.active["buy"] # NoOrder => q.price > e.active["buy"].price
      BY <1>1, <1>4, <2>6, <2>9, <3>1, <3>2 DEF WouldCrossOwn, Opposite
    <3>5. o.side = "buy" => g.active["buy"] = q /\ g.active["sell"] = e.active["sell"]
      BY <2>8, <2>9
    <3>6. o.side = "sell" => g.active["sell"] = q /\ g.active["buy"] = e.active["buy"]
      BY <2>8, <2>9
    <3>7. q.price \in Int
      BY <1>1, <2>6
    <3>8. CASE o.side = "buy"
      BY <3>3, <3>5, <3>8 DEF Apart
    <3>9. CASE o.side = "sell"
      BY <2>9, <3>2, <3>4, <3>6, <3>7, <3>9 DEF Apart
    <3> QED BY <2>9, <3>8, <3>9
  <2>13. Passive(g)
    <3>1. ~IsMarketable(e.depth, q)
      BY <2>2, <2>6 DEF IsMarketable
    <3> QED BY <2>8, <3>1 DEF EnvOk, Passive, Same
  <2> QED BY <2>1, <2>8, <2>10, <2>11, <2>12, <2>13 DEF EnvOk
<1> QED
  BY <1>2, <1>3, <1>4

-----------------------------------------------------------------------------
(* What FoldLeft iterates in ActivateDue                                   *)
Activates(g, start, n, q) ==
  g = [T \in SUBSET (1..n) |->
         IF T = {} THEN start ELSE Activate(g[T \ {Max(T)}], q[Max(T)])]

ActivatesIn(V, n, q) == \A k \in 1..n, x \in V : Activate(x, q[k]) \in V
ActivatesSteps(F, n, q) == \A k \in 1..n : F[k] = Activate(F[k - 1], q[k])

(* It activates the orders one after another.                              *)
LEMMA ActivatesRuns ==
  ASSUME NEW n \in Nat, NEW q, NEW V, NEW start \in V,
         ActivatesIn(V, n, q)
  PROVE  \E F : /\ F \in [0..n -> V] /\ F[0] = start
               /\ ActivatesSteps(F, n, q)
               /\ F[n] = (CHOOSE g : Activates(g, start, n, q))[1..n]
<1> DEFINE step == [k \in 1..n |-> [x \in V |-> Activate(x, q[k])]]
           iter == CHOOSE g : Activates(g, start, n, q)
<1>1. IsStep(step, n, V)
  BY DEF IsStep, ActivatesIn
<1>2. \A k \in 1..n, x \in V : step[k][x] = Activate(x, q[k])
  OBVIOUS
<1> HIDE DEF step
<1>4. PICK g \in [SUBSET (1..n) -> V] : FoldsUp(g, n, V, start, step)
  BY <1>1, FoldExists, Zenon
<1>5. Activates(g, start, n, q)
  <2>1. ASSUME NEW T \in SUBSET (1..n)
        PROVE  g[T] = IF T = {} THEN start ELSE Activate(g[T \ {Max(T)}], q[Max(T)])
    <3>1. CASE T # {}
      <4>1. Max(T) \in 1..n
        BY <3>1, MaxOfPart
      <4>2. T \ {Max(T)} \in SUBSET (1..n)
        OBVIOUS
      <4>3. g[T \ {Max(T)}] \in V
        BY <4>2
      <4>4. g[T] = step[Max(T)][g[T \ {Max(T)}]]
        BY <1>4, <3>1, <4>3, Zenon DEF FoldsUp
      <4>5. step[Max(T)][g[T \ {Max(T)}]] = Activate(g[T \ {Max(T)}], q[Max(T)])
        BY <1>2, <4>1, <4>3, Zenon
      <4> QED BY <3>1, <4>4, <4>5
    <3>2. CASE T = {}
      BY <3>2, <1>4 DEF FoldsUp
    <3> QED BY <3>1, <3>2
  <2> QED BY <2>1 DEF Activates
<1>6. Activates(iter, start, n, q)
  BY <1>5, Zenon
<1>7. \A T \in SUBSET (1..n) :
        iter[T] = IF T = {} THEN start ELSE Activate(iter[T \ {Max(T)}], q[Max(T)])
  <2> HIDE DEF iter
  <2> QED BY <1>6 DEF Activates
<1> HIDE DEF iter
<1>8. FoldsUp(iter, n, V, start, step)
  <2>1. \A T \in SUBSET (1..n) : T # {} => Max(T) \in 1..n
    BY MaxOfPart
  <2>2. \A T \in SUBSET (1..n) :
          T # {} /\ iter[T \ {Max(T)}] \in V
            => iter[T] = step[Max(T)][iter[T \ {Max(T)}]]
    <3> TAKE T \in SUBSET (1..n)
    <3> HAVE T # {} /\ iter[T \ {Max(T)}] \in V
    <3>1. iter[T] = Activate(iter[T \ {Max(T)}], q[Max(T)])
      BY <1>7
    <3>2. Max(T) \in 1..n
      BY <2>1
    <3>3. step[Max(T)][iter[T \ {Max(T)}]] = Activate(iter[T \ {Max(T)}], q[Max(T)])
      BY <1>2, <3>2, Zenon
    <3> QED BY <3>1, <3>3
  <2>3. iter[{}] = start
    BY <1>7
  <2> QED BY <2>2, <2>3 DEF FoldsUp
<1>9. PICK F : Steps(F, n, V, start, step) /\ iter[1..n] = F[n]
  BY <1>1, <1>8, FoldPrefixes
<1>10. F \in [0..n -> V] /\ F[0] = start /\ \A k \in 1..n : F[k] = step[k][F[k - 1]]
  BY <1>9 DEF Steps
<1>11. \A k \in 1..n : F[k] = Activate(F[k - 1], q[k])
  <2> TAKE k \in 1..n
  <2>1. k - 1 \in 0..n
    OBVIOUS
  <2>2. F[k - 1] \in V
    BY <1>10, <2>1
  <2>3. step[k][F[k - 1]] = Activate(F[k - 1], q[k])
    BY <1>2, <2>2, Zenon
  <2> QED BY <2>3, <1>10
<1> QED
  BY <1>9, <1>10, <1>11 DEF iter, ActivatesSteps

(* Counting an event, waiting longer or no more, changes no order.         *)
LEMMA WaitingOk ==
  ASSUME NEW e, EnvOk(e), NEW q \in Seq(Waiting), NEW f, f = [e EXCEPT !.pending = q]
  PROVE  EnvOk(f) /\ Same(e, f) /\ f.pending = q /\ f.active = e.active
<1>1. e \in Environment
  BY DEF EnvOk
<1>2. f \in Environment /\ Same(e, f) /\ f.pending = q /\ f.active = e.active
  BY <1>1 DEF Environment, Same
<1>3. Earned(f) /\ Bounded(f) /\ Apart(f) /\ Passive(f)
  BY <1>2 DEF EnvOk, Earned, Bounded, Apart, Passive, Same
<1> QED
  BY <1>2, <1>3 DEF EnvOk

(* The orders that are due are activated, and nothing else changes.        *)
LEMMA ActivateDueOk ==
  ASSUME NEW e, EnvOk(e)
  PROVE  EnvOk(ActivateDue(e)) /\ Same(e, ActivateDue(e))
<1> DEFINE due == {o \in Range(e.pending) : o.wait <= 0}
           q == Those(e.pending, due)
           rest == Those(e.pending, Range(e.pending) \ due)
           f == [e EXCEPT !.pending = rest]
           n == Len(q)
           V == {g \in Environment : EnvOk(g) /\ Same(e, g)}
<1>1. e.pending \in Seq(Waiting)
  BY DEF EnvOk, Environment
<1>2. q \in Seq(Waiting) /\ rest \in Seq(Waiting)
  <2>1. \A K : Those(e.pending, K) \in Seq(Waiting \cap K) /\ Waiting \cap K \subseteq Waiting
    BY <1>1, ThoseTyped
  <2> QED BY <2>1, SeqMonotonic
<1> HIDE DEF due, q, rest
<1>3. n \in Nat /\ DOMAIN q = 1..n /\ \A k \in 1..n : q[k] \in Waiting
  BY <1>2, LenProperties, ElementOfSeq
<1>4. f \in V
  <2>1. f \in Environment /\ EnvOk(f) /\ Same(e, f)
    BY <1>2, WaitingOk DEF EnvOk
  <2> QED BY <2>1
<1>5. ActivatesIn(V, n, q)
  <2>1. ASSUME NEW k \in 1..n, NEW x \in V PROVE Activate(x, q[k]) \in V
    <3>1. EnvOk(x) /\ Same(e, x) /\ q[k] \in Waiting
      BY <1>3
    <3>2. EnvOk(Activate(x, q[k])) /\ Same(x, Activate(x, q[k]))
      BY <3>1, ActivateOk
    <3> QED BY <3>1, <3>2 DEF Same, EnvOk
  <2> QED BY <2>1 DEF ActivatesIn
<1>6. ActivateDue(e) = (CHOOSE g : Activates(g, f, n, q))[1..n]
  BY <1>3 DEF ActivateDue, FoldLeft, MapThenFoldSet, Activates, due, q, rest
<1> HIDE DEF V, f, n
<1>7. PICK F : F \in [0..n -> V] /\ F[n] = (CHOOSE g : Activates(g, f, n, q))[1..n]
  BY <1>3, <1>4, <1>5, ActivatesRuns
<1>8. F[n] \in V
  BY <1>3, <1>7
<1> QED
  BY <1>6, <1>7, <1>8 DEF V

-----------------------------------------------------------------------------
(* What cancel_crossed_by_market leaves is passive again.                  *)
LEMMA CancelCrossedOk ==
  ASSUME NEW e \in Environment, Earned(e), Bounded(e), Apart(e)
  PROVE  /\ EnvOk(CancelCrossed(e)) /\ Same(e, CancelCrossed(e))
         /\ CancelCrossed(e).pending = e.pending
<1> DEFINE f == CancelCrossed(e)
<1>1. \A s \in Side : e.active[s] \in OwnOrder \cup {NoOrder}
  BY DEF Environment
<1>2. /\ f \in Environment /\ Same(e, f) /\ f.pending = e.pending
      /\ \A s \in Side : /\ f.active[s] \in {NoOrder, e.active[s]}
                         /\ f.active[s] # NoOrder => ~IsMarketable(e.depth, f.active[s])
  <2> DEFINE a == [s \in Side |-> IF e.active[s] = NoOrder THEN NoOrder
                                  ELSE IF IsMarketable(e.depth, e.active[s]) THEN NoOrder
                                  ELSE e.active[s]]
  <2>1. /\ a \in [Side -> OwnOrder \cup {NoOrder}]
        /\ \A s \in Side : /\ a[s] \in {NoOrder, e.active[s]}
                           /\ a[s] # NoOrder => ~IsMarketable(e.depth, a[s])
    BY <1>1
  <2>2. f = [e EXCEPT !.active = a]
    BY DEF CancelCrossed
  <2> HIDE DEF a, f
  <2>3. f \in Environment /\ Same(e, f) /\ f.pending = e.pending /\ f.active = a
    BY <2>1, <2>2 DEF Environment, Same
  <2> QED BY <2>1, <2>3
<1> HIDE DEF f
<1>3. \A s \in Side : f.active[s] # NoOrder => f.active[s] = e.active[s] /\ e.active[s] # NoOrder
  BY <1>2
<1>4. "buy" \in Side /\ "sell" \in Side
  BY DEF Side
<1>5. Earned(f)
  BY <1>3 DEF Earned
<1>6. Bounded(f)
  BY <1>2, <1>3, <1>4 DEF Bounded, Same
<1>7. Apart(f)
  BY <1>3, <1>4 DEF Apart
<1>8. Passive(f)
  BY <1>2 DEF Passive, Same
<1>9. EnvOk(f)
  BY <1>2, <1>5, <1>6, <1>7, <1>8 DEF EnvOk
<1> QED
  BY <1>2, <1>9 DEF f

(* An event more is counted for every order that waits.                    *)
LEMMA CountedOk ==
  ASSUME NEW e, EnvOk(e)
  PROVE  /\ EnvOk(Counted(e)) /\ Same(e, Counted(e)) /\ Counted(e).active = e.active
         /\ e.pending = <<>> => Counted(e).pending = <<>>
<1> DEFINE q == [n \in DOMAIN e.pending |-> [e.pending[n] EXCEPT !.wait = @ - 1]]
<1>1. e.pending \in Seq(Waiting)
  BY DEF EnvOk, Environment
<1>2. /\ Len(e.pending) \in Nat /\ DOMAIN e.pending = 1..Len(e.pending)
      /\ \A n \in 1..Len(e.pending) : e.pending[n] \in Waiting
  BY <1>1, LenProperties, ElementOfSeq
<1>3. q \in [1..Len(e.pending) -> Waiting]
  <2>1. \A o \in Waiting : [o EXCEPT !.wait = @ - 1] \in Waiting
    BY DEF Waiting
  <2> QED BY <1>2, <2>1
<1>4. q \in Seq(Waiting) /\ Len(q) = Len(e.pending)
  <2> HIDE DEF q
  <2> QED BY <1>2, <1>3
<1>5. e.pending = <<>> => q = <<>>
  <2> HIDE DEF q
  <2> QED BY <1>4, EmptySeq
<1>6. Counted(e) = [e EXCEPT !.pending = q]
  BY DEF Counted
<1> HIDE DEF q
<1> QED
  BY <1>4, <1>5, <1>6, WaitingOk

(* An update that is accepted leaves passive orders, and the feed in step. *)
LEMMA UpdateOk ==
  ASSUME NEW e, EnvOk(e), NEW d \in Depth, NEW t \in Time
  PROVE  LET f == ApplyUpdate(e, d, t)
         IN /\ EnvOk(f) /\ f.synced /\ f.inventory = e.inventory
            /\ f.watermark = Max2(e.watermark, t)
            /\ f.active = NoOrders \/ e.active # NoOrders
            /\ e.pending = <<>> => f.pending = <<>>
<1> DEFINE g == [e EXCEPT !.depth = d, !.synced = TRUE, !.watermark = Later(@, t)]
<1>1. e \in Environment /\ d \in [Side -> [Price -> Nat]] /\ t \in Nat /\ e.watermark \in Nat
  BY EnvAssumption DEF EnvOk, Environment
<1>2. Later(e.watermark, t) \in Nat /\ Later(e.watermark, t) = Max2(e.watermark, t)
  BY <1>1 DEF Later, Max2
<1>3. /\ g \in Environment /\ g.synced = TRUE /\ g.inventory = e.inventory
      /\ g.watermark = Max2(e.watermark, t) /\ g.active = e.active /\ g.pending = e.pending
  BY <1>1, <1>2 DEF Environment
<1> HIDE DEF g
<1>4. Earned(g) /\ Bounded(g) /\ Apart(g)
  BY <1>3 DEF EnvOk, Earned, Bounded, Apart
<1> DEFINE c == CancelCrossed(g)
<1>5. EnvOk(c) /\ Same(g, c) /\ c.pending = g.pending
  BY <1>3, <1>4, CancelCrossedOk
<1>6. g.active = NoOrders => c.active = NoOrders
  BY DEF CancelCrossed, NoOrders
<1> HIDE DEF c
<1>7. /\ EnvOk(Counted(c)) /\ Same(c, Counted(c)) /\ Counted(c).active = c.active
      /\ c.pending = <<>> => Counted(c).pending = <<>>
  BY <1>5, CountedOk
<1>8. ApplyUpdate(e, d, t) = Counted(c)
  BY DEF ApplyUpdate, c, g
<1> QED
  BY <1>3, <1>5, <1>6, <1>7, <1>8 DEF Same

-----------------------------------------------------------------------------
(* The steps of the environment.                                           *)

(* A feed that is not in step has no orders, and any inventory in bounds.  *)
LEMMA QuietOk ==
  ASSUME NEW e \in Environment, Abs(e.inventory) <= InventoryLimit,
         e.active = NoOrders, e.pending = <<>>
  PROVE  EnvOk(e) /\ Quiet(e)
BY NoOrdersOk DEF Quiet

(* A snapshot begins a bridge, in reset or in a step.                      *)
LEMMA SnapshotKept ==
  ASSUME Inv, NEW d \in Depth, Reset(d) \/ Resnapshot(d)
  PROVE  Inv'
<1>1. /\ env' = ApplySnapshot(env, d) /\ session' = "bridging" /\ peak' = 0
      /\ base' = base /\ earned' = earned /\ left' \in {0, left}
  BY DEF Reset, Resnapshot, NoTime
<1>2. d \in [Side -> [Price -> Nat]] /\ 0 \in Nat /\ 0 \in 0..EventsPerAction
  BY EnvAssumption
<1>3. EnvOk(env)
  BY DEF Inv
<1> DEFINE f == [env EXCEPT !.depth = d, !.synced = FALSE, !.watermark = 0,
                            !.active = NoOrders, !.pending = <<>>]
<1>4. env' = Counted(f)
  BY <1>1, Zenon DEF ApplySnapshot, NoTime
<1>5. /\ EnvOk(f) /\ Quiet(f) /\ ~f.synced
      /\ f.inventory = env.inventory /\ f.watermark = 0
  <2>1. env \in Environment /\ Abs(env.inventory) <= InventoryLimit
    BY <1>3 DEF EnvOk, Bounded
  <2>2. NoOrders \in [Side -> OwnOrder \cup {NoOrder}] /\ <<>> \in Seq(Waiting)
    BY EmptySeq DEF NoOrders
  <2>3. /\ f \in Environment /\ f.synced = FALSE /\ f.active = NoOrders /\ f.pending = <<>>
        /\ f.inventory = env.inventory /\ f.watermark = 0
    BY <1>2, <2>1, <2>2 DEF Environment
  <2> HIDE DEF f
  <2> QED BY <2>1, <2>3, QuietOk
<1> HIDE DEF f
<1>6. /\ EnvOk(Counted(f)) /\ Same(f, Counted(f)) /\ Counted(f).active = f.active
      /\ f.pending = <<>> => Counted(f).pending = <<>>
  BY <1>5, CountedOk
<1>7. /\ EnvOk(env') /\ Quiet(env') /\ ~env'.synced
      /\ env'.inventory = env.inventory /\ env'.watermark = 0
  BY <1>4, <1>5, <1>6 DEF Quiet, Same
<1> QED
  BY <1>1, <1>2, <1>7 DEF Inv, NoTime

(* An error leaves no orders either.                                       *)
LEMMA FeedFailsKept == ASSUME Inv, FeedFails PROVE Inv'
<1>1. /\ env' = FailedClosed(env) /\ session' = "over" /\ left' = 0
      /\ base' = base /\ earned' = earned /\ peak' = peak
  BY DEF FeedFails
<1>2. EnvOk(env) /\ env \in Environment /\ 0 \in 0..EventsPerAction
  BY EnvAssumption DEF Inv, EnvOk
<1>3. env.depth \in [Side -> [Price -> Nat]] /\ env.watermark \in Nat
  BY <1>2 DEF Environment
<1> DEFINE f == [env EXCEPT !.depth = env.depth, !.synced = FALSE, !.watermark = env.watermark,
                            !.active = NoOrders, !.pending = <<>>]
<1>4. env' = f
  BY <1>1, <1>2 DEF FailedClosed, Environment
<1>5. /\ EnvOk(f) /\ Quiet(f) /\ ~f.synced
      /\ f.inventory = env.inventory /\ f.watermark = env.watermark
  <2>1. env \in Environment /\ Abs(env.inventory) <= InventoryLimit
    BY <1>2 DEF EnvOk, Bounded
  <2>2. NoOrders \in [Side -> OwnOrder \cup {NoOrder}] /\ <<>> \in Seq(Waiting)
    BY EmptySeq DEF NoOrders
  <2>3. /\ f \in Environment /\ f.synced = FALSE /\ f.active = NoOrders /\ f.pending = <<>>
        /\ f.inventory = env.inventory /\ f.watermark = env.watermark
    BY <1>2, <1>3, <2>1, <2>2 DEF Environment
  <2> HIDE DEF f
  <2> QED BY <2>1, <2>3, QuietOk
<1> HIDE DEF f
<1> QED
  BY <1>1, <1>2, <1>4, <1>5 DEF Inv

(* An episode that goes on starts with its inventory and no orders.        *)
LEMMA ResumeKept ==
  ASSUME Inv, NEW n \in FirstInventory, ResumeTape(n)
  PROVE  Inv'
<1>1. /\ env' = [env EXCEPT !.active = NoOrders, !.pending = <<>>, !.inventory = n]
      /\ session' = "ready" /\ base' = n /\ earned' = 0 /\ left' = left /\ peak' = peak
      /\ env.synced
  BY DEF ResumeTape
<1>2. env \in Environment /\ n \in Int /\ Abs(n) <= InventoryLimit
  BY EnvAssumption DEF Inv, EnvOk, Abs, Max2
<1>3. NoOrders \in [Side -> OwnOrder \cup {NoOrder}] /\ <<>> \in Seq(Waiting)
  BY EmptySeq DEF NoOrders
<1>4. /\ env' \in Environment /\ env'.active = NoOrders /\ env'.pending = <<>>
      /\ env'.inventory = n /\ env'.watermark = env.watermark /\ env'.synced = env.synced
  BY <1>1, <1>2, <1>3 DEF Environment
<1>5. EnvOk(env') /\ Quiet(env')
  BY <1>2, <1>4, QuietOk
<1> QED
  BY <1>1, <1>2, <1>4, <1>5 DEF Inv

(* An action activates its quote or lets it wait.                          *)
LEMMA ActKept ==
  ASSUME Inv, NEW s \in Side, NEW distance \in Distance, NEW q \in Quantity,
         Act(s, distance, q)
  PROVE  Inv'
<1> DEFINE best == Best(env.depth, s)
           o == [side |-> s, qty |-> q, wait |-> env.latency,
                 price |-> IF s = "buy" THEN best - distance ELSE best + distance]
           others == Those(env.pending, {x \in Range(env.pending) : x.side # s})
<1>1. /\ session = "ready" /\ session' = "stepping" /\ left' = EventsPerAction
      /\ env' = IF best = NoPrice THEN env
                ELSE IF env.latency = 0 THEN Activate(env, o)
                ELSE [env EXCEPT !.pending = Append(others, o)]
      /\ base' = base /\ earned' = earned /\ peak' = peak
  BY DEF Act
<1>2. /\ EnvOk(env) /\ env \in Environment /\ env.synced /\ env.latency \in Int
      /\ env.depth \in [Side -> [Price -> Nat]] /\ env.pending \in Seq(Waiting)
      /\ EventsPerAction \in 0..EventsPerAction
  BY <1>1, EnvAssumption DEF Inv, EnvOk, Environment
<1>3. ASSUME best # NoPrice PROVE o \in Waiting
  <2>1. best \in Price /\ Price \subseteq Int /\ distance \in Int
    BY <1>2, <1>3, BestIsPrice, EnvAssumption
  <2>a. best \in Int
    BY <2>1
  <2> HIDE DEF best
  <2>2. best - distance \in Int /\ best + distance \in Int
    BY <2>1, <2>a
  <2>3. o.price \in Int
    BY <2>2
  <2> QED BY <1>2, <2>3 DEF Waiting
<1>4. others \in Seq(Waiting)
  <2>1. \A K : Those(env.pending, K) \in Seq(Waiting \cap K) /\ Waiting \cap K \subseteq Waiting
    BY <1>2, ThoseTyped
  <2> QED BY <2>1, SeqMonotonic
<1> HIDE DEF best, o, others
<1>5. EnvOk(env') /\ Same(env, env')
  <2>1. CASE best = NoPrice
    BY <1>1, <1>2, <2>1 DEF Same
  <2>2. CASE best # NoPrice /\ env.latency = 0
    <3>1. env' = Activate(env, o) /\ o \in Waiting
      BY <1>1, <1>3, <2>2
    <3> QED BY <1>2, <3>1, ActivateOk
  <2>3. CASE best # NoPrice /\ env.latency # 0
    <3>1. env' = [env EXCEPT !.pending = Append(others, o)] /\ o \in Waiting
      BY <1>1, <1>3, <2>3
    <3>2. Append(others, o) \in Seq(Waiting)
      BY <1>4, <3>1, AppendProperties
    <3> QED BY <1>2, <3>1, <3>2, WaitingOk
  <2> QED BY <2>1, <2>2, <2>3
<1> QED
  BY <1>1, <1>2, <1>5 DEF Inv, Same, Quiet

(* What follows an event keeps an environment that is in step.             *)
LEMMA AfterEventKept ==
  ASSUME NEW e, EnvOk(e), e.synced, AfterEvent(e), left \in 0..EventsPerAction, left > 0
  PROVE  /\ EnvOk(env') /\ Quiet(env') /\ env'.synced /\ left' \in 0..EventsPerAction
         /\ env'.inventory = e.inventory /\ env'.watermark = e.watermark
<1>1. env' = ActivateDue(e) /\ left' \in {0, left - 1}
  BY DEF AfterEvent
<1>2. EnvOk(env') /\ Same(e, env')
  BY <1>1, ActivateDueOk
<1>3. left' \in 0..EventsPerAction
  BY <1>1, EnvAssumption
<1> QED
  BY <1>2, <1>3 DEF Same, Quiet

(* An update, in a step or after a snapshot.                               *)
LEMMA UpdateKept ==
  ASSUME Inv, NEW d \in Depth, NEW t \in Time, Update(d, t)
  PROVE  Inv'
<1>1. /\ session = "stepping" /\ left > 0 /\ session' = session
      /\ AfterEvent(ApplyUpdate(env, d, t)) /\ peak' = Max2(peak, t)
      /\ base' = base /\ earned' = earned
  BY DEF Update, TakesEvent
<1> DEFINE f == ApplyUpdate(env, d, t)
<1>2. EnvOk(f) /\ f.synced /\ f.inventory = env.inventory /\ f.watermark = Max2(env.watermark, t)
  BY UpdateOk DEF Inv
<1> HIDE DEF f
<1>3. AfterEvent(f) /\ left \in 0..EventsPerAction
  BY <1>1 DEF f, Inv
<1>4. /\ EnvOk(env') /\ Quiet(env') /\ env'.synced /\ left' \in 0..EventsPerAction
      /\ env'.inventory = f.inventory /\ env'.watermark = f.watermark
  BY <1>1, <1>2, <1>3, AfterEventKept
<1>5. peak' \in Nat
  BY <1>1, EnvAssumption DEF Inv, Max2
<1> QED
  BY <1>1, <1>2, <1>4, <1>5 DEF Inv

(* The bridge after a snapshot is the first event with a time.             *)
LEMMA BridgeKept ==
  ASSUME Inv, NEW d \in Depth, NEW t \in Time, NEW n \in FirstInventory, Bridge(d, t, n)
  PROVE  Inv'
<1> DEFINE f == ApplyUpdate(env, d, t)
<1>1. session = "bridging" /\ peak' = t /\ ~env.synced /\ peak = 0 /\ env.watermark = 0
  BY DEF Bridge, Inv, NoTime
<1>2. env.active = NoOrders /\ env.pending = <<>> /\ EnvOk(env) /\ t \in Nat /\ t > 0
  BY <1>1, EnvAssumption DEF Inv, Quiet
<1>3. /\ EnvOk(f) /\ f.synced /\ f.inventory = env.inventory /\ f.watermark = t
      /\ f.active = NoOrders /\ f.pending = <<>>
  <2>1. Max2(0, t) = t
    BY <1>2 DEF Max2
  <2> QED BY <1>1, <1>2, <2>1, UpdateOk
<1>4. left \in 0..EventsPerAction
  BY DEF Inv
<1>5. CASE left = 0
  <2>1. /\ session' = "ready" /\ env' = [f EXCEPT !.inventory = n]
        /\ base' = n /\ earned' = 0 /\ left' = left
    BY <1>5 DEF Bridge
  <2> HIDE DEF f
  <2>2. f \in Environment /\ n \in Int /\ Abs(n) <= InventoryLimit
    BY <1>3, EnvAssumption DEF EnvOk, Abs, Max2
  <2>3. /\ env' \in Environment /\ env'.inventory = n /\ env'.active = NoOrders
        /\ env'.pending = <<>> /\ env'.synced = f.synced /\ env'.watermark = t
    BY <1>3, <2>1, <2>2 DEF Environment
  <2>4. EnvOk(env') /\ Quiet(env')
    BY <2>2, <2>3, QuietOk
  <2> QED BY <1>1, <1>2, <1>3, <1>4, <2>1, <2>2, <2>3, <2>4 DEF Inv
<1>6. CASE left # 0
  <2>1. session' = "stepping" /\ AfterEvent(f) /\ base' = base /\ earned' = earned
    BY <1>6 DEF Bridge
  <2>2. left > 0
    BY <1>4, <1>6
  <2> HIDE DEF f
  <2>3. /\ EnvOk(env') /\ Quiet(env') /\ env'.synced /\ left' \in 0..EventsPerAction
        /\ env'.inventory = f.inventory /\ env'.watermark = f.watermark
    BY <1>3, <1>4, <2>1, <2>2, AfterEventKept
  <2> QED BY <1>1, <1>2, <1>3, <2>1, <2>3 DEF Inv
<1> QED
  BY <1>5, <1>6

(* The tape's end only ends the step.                                      *)
LEMMA TapeEndsKept == ASSUME Inv, TapeEnds PROVE Inv'
<1>1. 0 \in 0..EventsPerAction
  BY EnvAssumption
<1> QED
  BY <1>1 DEF Inv, TapeEnds

(* Liquidating brings an inventory towards zero, never past it.            *)
LEMMA LiquidatedOk ==
  ASSUME NEW e \in Environment, Abs(e.inventory) <= InventoryLimit
  PROVE  /\ Liquidated(e) \in Environment
         /\ Abs(Liquidated(e).inventory) <= InventoryLimit
         /\ Liquidated(e).watermark = e.watermark /\ Liquidated(e).synced = e.synced
<1> DEFINE s == IF e.inventory > 0 THEN "buy" ELSE "sell"
           shown == MapThenSumSet(LAMBDA p : e.depth[s][p], Price)
           x == Min2(Abs(e.inventory), shown)
           i == IF e.inventory > 0 THEN e.inventory - x ELSE e.inventory + x
<1>1. s \in Side /\ e.depth \in [Side -> [Price -> Nat]] /\ e.inventory \in Int
  BY DEF Environment, Side
<1>2. shown \in Nat
  <2> DEFINE g == e.depth[s]
  <2>1. g \in [Price -> Nat] /\ IsFiniteSet(Price)
    BY <1>1, EnvAssumption
  <2>2. shown = SetSum(g, Price)
    BY DEF SetSum
  <2> HIDE DEF g
  <2> QED BY <2>1, <2>2, SetSumMember
<1> HIDE DEF shown
<1>3. i \in Int /\ Abs(i) <= InventoryLimit
  BY <1>1, <1>2, EnvAssumption DEF Abs, Max2, Min2
<1>4. Liquidated(e) = [e EXCEPT !.inventory = i]
  BY DEF Liquidated, shown
<1> HIDE DEF i
<1> QED
  BY <1>3, <1>4 DEF Environment

(* The end of a step may end the episode.                                  *)
LEMMA EndStepKept ==
  ASSUME Inv, NEW horizon \in BOOLEAN, NEW liquidate \in BOOLEAN, EndStep(horizon, liquidate)
  PROVE  Inv'
<1>1. session = "stepping" /\ left' = left /\ peak' = peak /\ env.synced
  BY DEF EndStep, Inv
<1>2. CASE ended # "no" \/ horizon
  <2> DEFINE e == IF liquidate THEN Liquidated(env) ELSE env
  <2>1. /\ session' = "over" /\ env' = [e EXCEPT !.active = NoOrders, !.pending = <<>>]
        /\ base' = env'.inventory /\ earned' = 0
    BY <1>2 DEF EndStep
  <2>2. env \in Environment /\ Abs(env.inventory) <= InventoryLimit
    BY DEF Inv, EnvOk, Bounded
  <2>3. /\ e \in Environment /\ Abs(e.inventory) <= InventoryLimit
        /\ e.watermark = env.watermark /\ e.synced = env.synced
    BY <2>2, LiquidatedOk
  <2> HIDE DEF e
  <2>4. NoOrders \in [Side -> OwnOrder \cup {NoOrder}] /\ <<>> \in Seq(Waiting)
    BY EmptySeq DEF NoOrders
  <2>5. /\ env' \in Environment /\ env'.active = NoOrders /\ env'.pending = <<>>
        /\ env'.inventory = e.inventory /\ env'.watermark = e.watermark
        /\ env'.inventory \in Int
    BY <2>1, <2>3, <2>4 DEF Environment
  <2>6. EnvOk(env') /\ Quiet(env')
    BY <2>3, <2>5, QuietOk
  <2> QED BY <1>1, <2>1, <2>3, <2>5, <2>6 DEF Inv
<1>3. CASE ~(ended # "no" \/ horizon)
  BY <1>1, <1>3 DEF EndStep, Inv
<1> QED
  BY <1>2, <1>3

(* What a trade fills is what the evidence allows beyond what it allowed   *)
(* before, and the queue ahead is what the evidence has left of it.        *)
LEMMA FillIsAllowed ==
  ASSUME NEW asked \in Nat, NEW qty \in 1..asked, NEW ahead \in Nat, NEW seen \in Nat,
         NEW queue \in Nat, NEW size \in Nat,
         queue = Max2(0, ahead - seen),
         asked - qty = Min2(asked, Max2(0, seen - ahead)),
         NEW fill, fill = Min2(qty, Max2(0, size - queue))
  PROVE  /\ fill \in 0..qty
         /\ fill = Min2(asked, Max2(0, (seen + size) - ahead)) - Min2(asked, Max2(0, seen - ahead))
         /\ Max2(0, queue - size) = Max2(0, ahead - (seen + size)) /\ Max2(0, queue - size) \in Nat
         /\ asked - (qty - fill) = Min2(asked, Max2(0, (seen + size) - ahead))
BY DEF Max2, Min2

(* A trade at time t that fills y of the order on side s and leaves r.     *)
Traded(e, t, s, y, r) ==
  [e EXCEPT !.watermark = Later(@, t),
            !.inventory = IF s = "buy" THEN @ + y ELSE @ - y,
            !.active[s] = r]

(* What a trade fills of an order, and what is left of the order.          *)
TradeFill(e, o, aggressor, p, size, t) ==
  IF Meets(o, aggressor, p) /\ IsUsable(e, o, t) THEN Min2(o.qty, Max2(0, size - o.queue)) ELSE 0
TradeLeft(e, o, aggressor, p, size, t) ==
  LET y == TradeFill(e, o, aggressor, p, size, t)
  IN IF ~Meets(o, aggressor, p) THEN o
     ELSE IF ~IsUsable(e, o, t) THEN o
     ELSE IF y = o.qty THEN NoOrder
     ELSE [o EXCEPT !.qty = @ - y, !.queue = Max2(0, @ - size)]

(* ApplyTrade of an environment whose order against the aggressor is o.    *)
LEMMA TradeShape ==
  ASSUME NEW e, NEW aggressor, NEW p, NEW size, NEW t
  PROVE  LET o == e.active[Opposite(aggressor)]
         IN ApplyTrade(e, aggressor, p, size, t)
              = Counted(Traded(e, t, Opposite(aggressor), TradeFill(e, o, aggressor, p, size, t),
                               TradeLeft(e, o, aggressor, p, size, t)))
BY DEF ApplyTrade, Traded, TradeFill, TradeLeft

(* A trade reduces the order it meets by what is earned with it.           *)
LEMMA TradeOk ==
  ASSUME Inv, NEW aggressor \in Side, NEW p \in Price, NEW size \in TradeSize, NEW t \in Time,
         NEW s, s = Opposite(aggressor), NEW o, o = env.active[s],
         NEW w, w = Witnessed(o, aggressor, p, size, t),
         NEW f, f = ApplyTrade([env EXCEPT !.active[s] = w], aggressor, p, size, t),
         NEW more, more = IF o = NoOrder THEN 0 ELSE Allowed(w) - Allowed(o)
  PROVE  /\ EnvOk(f) /\ f.synced = env.synced /\ f.watermark = Max2(env.watermark, t)
         /\ more \in Int
         /\ f.inventory = IF s = "buy" THEN env.inventory + more ELSE env.inventory - more
<1> DEFINE e == [env EXCEPT !.active[s] = w]
           met == Meets(o, aggressor, p) /\ t > o.time /\ t >= peak
           fill == Min2(o.qty, Max2(0, size - o.queue))
           after == [w EXCEPT !.qty = @ - fill, !.queue = Max2(0, @ - size)]
           x == IF met THEN fill ELSE 0
           rests == IF met THEN IF fill = o.qty THEN NoOrder ELSE after ELSE o
           g == [env EXCEPT !.watermark = Later(@, t),
                            !.inventory = IF s = "buy" THEN @ + x ELSE @ - x,
                            !.active[s] = rests]
<1>1. /\ s \in Side /\ env \in Environment /\ EnvOk(env) /\ env.watermark = peak
      /\ t \in Nat /\ size \in Nat /\ peak \in Nat
  BY EnvAssumption DEF Opposite, Side, Inv, EnvOk
<1>2. /\ env.active \in [Side -> OwnOrder \cup {NoOrder}] /\ env.inventory \in Int
      /\ o \in OwnOrder \cup {NoOrder}
      /\ o # NoOrder => IsEarned(o, s)
  BY <1>1 DEF Environment, EnvOk, Earned
<1>3. /\ e.active[s] = w /\ e.watermark = env.watermark /\ e.inventory = env.inventory
      /\ e.active \in [Side -> {w} \cup OwnOrder \cup {NoOrder}]
  BY <1>1, <1>2 DEF Environment
<1>4. w = IF met THEN [o EXCEPT !.seen = @ + size] ELSE o
  BY DEF Witnessed
<1>5. met => o # NoOrder /\ o \in OwnOrder
  <2>1. met => o # NoOrder
    BY Zenon DEF Meets
  <2> QED BY <1>2, <2>1
<1>6. o # NoOrder => /\ o.asked \in Nat /\ o.qty \in 1..o.asked /\ o.ahead \in Nat
                     /\ o.seen \in Nat /\ o.queue \in Nat /\ o.time \in Nat /\ o.price \in OwnPrice
  <2>1. o # NoOrder => o \in OwnOrder /\ o.qty \in 1..o.asked
    BY <1>2 DEF IsEarned
  <2>2. \A r \in OwnOrder : /\ r.asked \in Nat /\ r.ahead \in Nat /\ r.seen \in Nat
                            /\ r.queue \in Nat /\ r.time \in Nat /\ r.price \in OwnPrice
    BY DEF OwnOrder
  <2> QED BY <2>1, <2>2
<1>7. met => /\ w \in OwnOrder /\ w.side = o.side /\ w.price = o.price /\ w.qty = o.qty
             /\ w.time = o.time /\ w.queue = o.queue /\ w.asked = o.asked
             /\ w.seen = o.seen + size /\ w.ahead = o.ahead /\ w # NoOrder
  <2>1. SUFFICES ASSUME met PROVE /\ w \in OwnOrder /\ w.side = o.side /\ w.price = o.price /\ w.qty = o.qty
             /\ w.time = o.time /\ w.queue = o.queue /\ w.asked = o.asked
             /\ w.seen = o.seen + size /\ w.ahead = o.ahead /\ w # NoOrder
    OBVIOUS
  <2>2. o \in OwnOrder /\ w = [o EXCEPT !.seen = @ + size] /\ o.seen + size \in Nat
    BY <1>1, <1>4, <1>5, <1>6, <2>1
  <2> HIDE DEF met
  <2>3. w \in OwnOrder /\ w.side = o.side /\ w.price = o.price /\ w.qty = o.qty
        /\ w.time = o.time /\ w.queue = o.queue /\ w.asked = o.asked
        /\ w.seen = o.seen + size /\ w.ahead = o.ahead
    BY <2>2 DEF OwnOrder
  <2> QED BY <2>3, EnvAssumption
<1>8. met => /\ Meets(w, aggressor, p) /\ IsUsable(e, w, t)
             /\ fill = Min2(w.qty, Max2(0, size - w.queue))
  BY <1>1, <1>3, <1>7 DEF Meets, IsUsable
<1>9. ~met => w = o /\ ~(Meets(w, aggressor, p) /\ IsUsable(e, w, t))
  BY <1>1, <1>3, <1>4 DEF IsUsable
<1>10. f = Counted(g)
  <2> DEFINE y == IF Meets(w, aggressor, p) /\ IsUsable(e, w, t)
                  THEN Min2(w.qty, Max2(0, size - w.queue)) ELSE 0
             left1 == IF ~Meets(w, aggressor, p) THEN w
                      ELSE IF ~IsUsable(e, w, t) THEN w
                      ELSE IF y = w.qty THEN NoOrder
                      ELSE [w EXCEPT !.qty = @ - y, !.queue = Max2(0, @ - size)]
             h == [e EXCEPT !.watermark = Later(@, t),
                            !.inventory = IF s = "buy" THEN @ + y ELSE @ - y,
                            !.active[s] = left1]
  <2>1. f = Counted(h)
    <3>1. e.active[s] = w /\ s = Opposite(aggressor)
      BY <1>3
    <3>2. f = ApplyTrade(e, aggressor, p, size, t)
      OBVIOUS
    <3> HIDE DEF e, met
    <3>3. y = TradeFill(e, w, aggressor, p, size, t) /\ left1 = TradeLeft(e, w, aggressor, p, size, t)
      BY DEF TradeFill, TradeLeft
    <3> HIDE DEF y, left1
    <3>4. ApplyTrade(e, aggressor, p, size, t)
            = Counted(Traded(e, t, s, TradeFill(e, w, aggressor, p, size, t),
                             TradeLeft(e, w, aggressor, p, size, t)))
      BY <3>1, TradeShape
    <3>5. ApplyTrade(e, aggressor, p, size, t) = Counted(Traded(e, t, s, y, left1))
      BY <3>3, <3>4
    <3>6. h = Traded(e, t, s, y, left1)
      BY DEF Traded
    <3> QED BY <3>2, <3>5, <3>6
  <2>2. y = x
    BY <1>8, <1>9
  <2>3. left1 = rests
    <3>1. CASE met
      BY <3>1, <1>7, <1>8
    <3>2. CASE ~met
      BY <3>2, <1>9
    <3> QED BY <3>1, <3>2
  <2>4. h = g
    <3> HIDE DEF y, left1, x, rests, met
    <3> QED BY <1>1, <1>2, <2>2, <2>3 DEF Environment
  <2> QED BY <2>1, <2>4
<1> HIDE DEF e
<1>11. met => /\ fill \in 0..o.qty
              /\ fill = Allowed(w) - Allowed(o)
              /\ fill # o.qty => after \in OwnOrder /\ IsEarned(after, s) /\ after.price = o.price
                                 /\ after.qty = o.qty - fill /\ after.side = s
  <2>1. SUFFICES ASSUME met
                 PROVE  /\ fill \in 0..o.qty
                        /\ fill = Allowed(w) - Allowed(o)
                        /\ fill # o.qty => /\ after \in OwnOrder /\ IsEarned(after, s)
                                           /\ after.price = o.price
                                           /\ after.qty = o.qty - fill /\ after.side = s
    OBVIOUS
  <2>2. /\ o \in OwnOrder /\ o # NoOrder /\ o.side = s /\ o.queue = Max2(0, o.ahead - o.seen)
        /\ o.asked - o.qty = Min2(o.asked, Max2(0, o.seen - o.ahead))
    BY <1>2, <1>5, <2>1 DEF IsEarned, Allowed
  <2>3. /\ w \in OwnOrder /\ w.side = s /\ w.price = o.price /\ w.qty = o.qty
        /\ w.queue = o.queue /\ w.asked = o.asked
        /\ w.seen = o.seen + size /\ w.ahead = o.ahead
    BY <1>7, <2>1, <2>2
  <2> HIDE DEF met
  <2>4. /\ fill \in 0..o.qty
        /\ fill = Min2(o.asked, Max2(0, (o.seen + size) - o.ahead)) - Min2(o.asked, Max2(0, o.seen - o.ahead))
        /\ Max2(0, o.queue - size) = Max2(0, o.ahead - (o.seen + size)) /\ Max2(0, o.queue - size) \in Nat
        /\ o.asked - (o.qty - fill) = Min2(o.asked, Max2(0, (o.seen + size) - o.ahead))
    BY <1>1, <1>6, <2>2, FillIsAllowed
  <2>5. fill = Allowed(w) - Allowed(o)
    BY <2>3, <2>4 DEF Allowed
  <2> HIDE DEF fill
  <2>6. ASSUME fill # o.qty
        PROVE  /\ after \in OwnOrder /\ IsEarned(after, s) /\ after.price = o.price
               /\ after.qty = o.qty - fill /\ after.side = s
    <3>1. o.qty - fill \in 1..o.asked /\ o.qty - fill \in Nat
      BY <1>6, <2>2, <2>4, <2>6
    <3>2. /\ after \in OwnOrder /\ after.side = s /\ after.price = o.price
          /\ after.qty = o.qty - fill /\ after.queue = Max2(0, o.queue - size)
          /\ after.asked = o.asked /\ after.seen = o.seen + size /\ after.ahead = o.ahead
      <4> DEFINE a == o.qty - fill
                 b == Max2(0, o.queue - size)
      <4>1. after = [w EXCEPT !.qty = a, !.queue = b] /\ a \in Nat /\ b \in Nat
        BY <2>3, <2>4, <3>1
      <4> HIDE DEF a, b, after
      <4>2. /\ after \in OwnOrder /\ after.side = w.side /\ after.price = w.price
            /\ after.qty = a /\ after.queue = b
            /\ after.asked = w.asked /\ after.seen = w.seen /\ after.ahead = w.ahead
        BY <2>3, <4>1 DEF OwnOrder
      <4> QED BY <2>3, <4>2 DEF a, b
    <3> HIDE DEF after
    <3>3. IsEarned(after, s)
      BY <2>4, <3>1, <3>2 DEF IsEarned, Allowed
    <3> QED BY <3>2, <3>3
  <2> QED BY <2>4, <2>5, <2>6
<1>12. more = x /\ x \in Nat
  <2>1. CASE met
    BY <1>5, <1>6, <1>11, <2>1
  <2>2. CASE ~met
    <3>1. w = o
      BY <1>9, <2>2
    <3>2. o # NoOrder => Allowed(o) \in Int
      BY <1>6 DEF Allowed, Min2, Max2
    <3> QED BY <2>2, <3>1, <3>2
  <2> QED BY <2>1, <2>2
<1>13. /\ rests \in OwnOrder \cup {NoOrder}
       /\ rests # NoOrder => /\ o # NoOrder /\ IsEarned(rests, s) /\ rests.price = o.price
                             /\ rests.qty = o.qty - x /\ rests.side = s
       /\ o = NoOrder => x = 0
       /\ o # NoOrder => x <= o.qty
  <2>1. CASE met
    <3>1. o # NoOrder /\ x = fill
      BY <1>5, <2>1
    <3>2. fill = o.qty \/ fill # o.qty => rests \in {NoOrder, after}
      BY <2>1
    <3>3. fill <= o.qty
      BY <1>6, <1>11, <2>1
    <3>4. CASE fill = o.qty
      BY <2>1, <3>1, <3>3, <3>4
    <3>5. CASE fill # o.qty
      <4>1. rests = after
        BY <2>1, <3>5
      <4>2. after \in OwnOrder /\ IsEarned(after, s) /\ after.price = o.price
            /\ after.qty = o.qty - fill /\ after.side = s
        BY <1>11, <2>1, <3>5
      <4> HIDE DEF after, fill, rests, x, met
      <4> QED BY <3>1, <3>3, <4>1, <4>2
    <3> QED BY <3>4, <3>5
  <2>2. CASE ~met
    <3>1. rests = o /\ x = 0
      BY <2>2
    <3> HIDE DEF rests, x, met
    <3>2. o # NoOrder => o.side = s
      BY <1>2 DEF IsEarned
    <3>3. o # NoOrder => o.qty \in Nat /\ o.qty - 0 = o.qty /\ 0 <= o.qty
      BY <1>6
    <3> QED BY <1>2, <3>1, <3>2, <3>3
  <2> QED BY <2>1, <2>2
<1> HIDE DEF rests, x, met, fill, after
<1> DEFINE inventory == IF s = "buy" THEN env.inventory + x ELSE env.inventory - x
<1>14. /\ g \in Environment /\ g.inventory = inventory /\ g.depth = env.depth
       /\ g.watermark = Max2(env.watermark, t) /\ g.synced = env.synced
       /\ \A y \in Side : g.active[y] = IF y = s THEN rests ELSE env.active[y]
  <2>1. Later(env.watermark, t) \in Nat /\ Later(env.watermark, t) = Max2(env.watermark, t)
    BY <1>1 DEF Later, Max2
  <2>2. inventory \in Int
    BY <1>2, <1>12
  <2>3. /\ [env.active EXCEPT ![s] = rests] \in [Side -> OwnOrder \cup {NoOrder}]
        /\ \A y \in Side : [env.active EXCEPT ![s] = rests][y] = IF y = s THEN rests ELSE env.active[y]
    BY <1>1, <1>2, <1>13
  <2>4. g = [env EXCEPT !.watermark = Later(env.watermark, t), !.inventory = inventory,
                        !.active = [env.active EXCEPT ![s] = rests]]
    BY <1>1 DEF Environment
  <2> HIDE DEF g, inventory
  <2> DEFINE a == [env.active EXCEPT ![s] = rests]
  <2>5. a \in [Side -> OwnOrder \cup {NoOrder}]
        /\ g = [env EXCEPT !.watermark = Later(env.watermark, t), !.inventory = inventory, !.active = a]
    BY <2>3, <2>4
  <2> HIDE DEF a
  <2>6. g \in Environment /\ g.inventory = inventory /\ g.depth = env.depth
        /\ g.watermark = Later(env.watermark, t) /\ g.synced = env.synced /\ g.active = a
    BY <1>1, <2>1, <2>2, <2>5 DEF Environment
  <2> QED BY <2>1, <2>3, <2>6 DEF a
<1> HIDE DEF g
<1>15. s \in {"buy", "sell"} /\ "buy" \in Side /\ "sell" \in Side
  BY <1>1 DEF Side
<1>16. Earned(g)
  BY <1>13, <1>14, <1>1 DEF EnvOk, Earned
<1>17. Bounded(g)
  <2>1. /\ Abs(env.inventory) <= InventoryLimit /\ InventoryLimit \in Nat
        /\ env.active["buy"] # NoOrder => env.inventory + env.active["buy"].qty <= InventoryLimit
        /\ env.active["sell"] # NoOrder => env.inventory - env.active["sell"].qty >= -InventoryLimit
    BY <1>1, EnvAssumption DEF EnvOk, Bounded
  <2>2. \A y \in Side : env.active[y] # NoOrder => env.active[y].qty \in Nat
    BY <1>2 DEF OwnOrder
  <2>3. CASE s = "buy"
    <3>1. /\ g.active["buy"] = rests /\ g.active["sell"] = env.active["sell"]
          /\ env.active["buy"] = o /\ g.inventory = env.inventory + x
      BY <1>14, <1>15, <2>3
    <3>2. Abs(g.inventory) <= InventoryLimit
      BY <1>2, <1>6, <1>12, <1>13, <2>1, <3>1 DEF Abs, Max2
    <3>3. rests # NoOrder => g.inventory + rests.qty <= InventoryLimit
      BY <1>2, <1>6, <1>12, <1>13, <2>1, <3>1
    <3>4. env.active["sell"] # NoOrder => g.inventory - env.active["sell"].qty >= -InventoryLimit
      BY <1>2, <1>12, <1>15, <2>1, <2>2, <3>1
    <3> QED BY <3>1, <3>2, <3>3, <3>4 DEF Bounded
  <2>4. CASE s = "sell"
    <3>1. /\ g.active["sell"] = rests /\ g.active["buy"] = env.active["buy"]
          /\ env.active["sell"] = o /\ g.inventory = env.inventory - x
      BY <1>14, <1>15, <2>4
    <3>2. Abs(g.inventory) <= InventoryLimit
      BY <1>2, <1>6, <1>12, <1>13, <2>1, <3>1 DEF Abs, Max2
    <3>3. rests # NoOrder => g.inventory - rests.qty >= -InventoryLimit
      BY <1>2, <1>6, <1>12, <1>13, <2>1, <3>1
    <3>4. env.active["buy"] # NoOrder => g.inventory + env.active["buy"].qty <= InventoryLimit
      BY <1>2, <1>12, <1>15, <2>1, <2>2, <3>1
    <3> QED BY <3>1, <3>2, <3>3, <3>4 DEF Bounded
  <2> QED BY <1>15, <2>3, <2>4
<1>18. \A y \in Side : g.active[y] # NoOrder =>
         /\ env.active[y] # NoOrder /\ g.active[y].price = env.active[y].price
         /\ g.active[y].side = env.active[y].side
  BY <1>2, <1>13, <1>14 DEF IsEarned
<1>19. Apart(g)
  BY <1>1, <1>15, <1>18 DEF EnvOk, Apart
<1>20. Passive(g)
  BY <1>1, <1>14, <1>18 DEF EnvOk, Passive, IsMarketable
<1>21. EnvOk(g)
  BY <1>14, <1>16, <1>17, <1>19, <1>20 DEF EnvOk
<1>22. EnvOk(f) /\ Same(g, f)
  BY <1>10, <1>21, CountedOk
<1> QED
  BY <1>12, <1>14, <1>22 DEF Same

(* A trade, with the count of what it earns.                               *)
LEMMA TradeKept ==
  ASSUME Inv, NEW aggressor \in Side, NEW p \in Price, NEW size \in TradeSize, NEW t \in Time,
         Trade(aggressor, p, size, t)
  PROVE  Inv'
<1> DEFINE s == Opposite(aggressor)
           o == env.active[s]
           w == Witnessed(o, aggressor, p, size, t)
           f == ApplyTrade([env EXCEPT !.active[s] = w], aggressor, p, size, t)
           more == IF o = NoOrder THEN 0 ELSE Allowed(w) - Allowed(o)
<1>1. /\ session = "stepping" /\ left > 0 /\ session' = session
      /\ AfterEvent(f) /\ peak' = Max2(peak, t) /\ base' = base
      /\ earned' = IF s = "buy" THEN earned + more ELSE earned - more
  BY DEF Trade, TakesEvent
<1>2. /\ EnvOk(f) /\ f.synced = env.synced /\ f.watermark = Max2(env.watermark, t)
      /\ more \in Int
      /\ f.inventory = IF s = "buy" THEN env.inventory + more ELSE env.inventory - more
  BY TradeOk
<1> HIDE DEF s, f, more
<1>3. env.synced /\ left \in 0..EventsPerAction
  BY <1>1 DEF Inv
<1>4. /\ EnvOk(env') /\ Quiet(env') /\ env'.synced /\ left' \in 0..EventsPerAction
      /\ env'.inventory = f.inventory /\ env'.watermark = f.watermark
  BY <1>1, <1>2, <1>3, AfterEventKept
<1>5. peak' \in Nat /\ peak' = Max2(env.watermark, t)
  BY <1>1, EnvAssumption DEF Inv, Max2
<1>6. earned' \in Int /\ env'.inventory = base' + earned'
  BY <1>1, <1>2, <1>4 DEF Inv
<1> QED
  BY <1>1, <1>2, <1>4, <1>5, <1>6 DEF Inv

(* Every step keeps the invariant.                                         *)
LEMMA InvNext == Inv /\ [Next]_vars => Inv'
<1> SUFFICES ASSUME Inv, [Next]_vars PROVE Inv'
  OBVIOUS
<1>1. CASE \E d \in Depth : IsSnapshot(d) /\ (Reset(d) \/ Resnapshot(d))
  BY <1>1, SnapshotKept
<1>2. CASE \E n \in FirstInventory : ResumeTape(n)
  BY <1>2, ResumeKept
<1>3. CASE \E s \in Side, distance \in Distance, q \in Quantity : Act(s, distance, q)
  BY <1>3, ActKept
<1>4. CASE \E d \in Depth, t \in Time : Uncrossed(d) /\ Update(d, t)
  BY <1>4, UpdateKept
<1>5. CASE \E d \in Depth, t \in Time, n \in FirstInventory : Uncrossed(d) /\ Bridge(d, t, n)
  BY <1>5, BridgeKept
<1>6. CASE \E s \in Side, p \in Price, size \in TradeSize, t \in Time : Trade(s, p, size, t)
  BY <1>6, TradeKept
<1>7. CASE FeedFails
  BY <1>7, FeedFailsKept
<1>8. CASE TapeEnds
  BY <1>8, TapeEndsKept
<1>9. CASE \E horizon, liquidate \in BOOLEAN : EndStep(horizon, liquidate)
  BY <1>9, EndStepKept
<1>10. CASE UNCHANGED vars
  BY <1>10 DEF vars, Inv
<1> QED
  BY <1>1, <1>2, <1>3, <1>4, <1>5, <1>6, <1>7, <1>8, <1>9, <1>10 DEF Next

(* The invariant holds of every behaviour.                                 *)
LEMMA InvHolds == Spec => []Inv
BY InvInit, InvNext, PTL DEF Spec

(* The inventory is what the evidence of the trades accounts for, and an   *)
(* order has filled what that evidence allows: OwnOrderLedger.apply_trade  *)
(* counts no trade twice, early or for an order it does not meet.          *)
THEOREM FillsAreAlwaysEarned == Spec => []FillsAreEarned
<1>1. Inv => FillsAreEarned
  BY InvIsEnough
<1> QED BY <1>1, InvHolds, PTL

(* No sequence of quotes, replacements, fills, snapshots and liquidations  *)
(* takes the inventory past the limit, or leaves a quote that could.       *)
THEOREM InventoryIsAlwaysBounded == Spec => []InventoryIsBounded
<1>1. Inv => InventoryIsBounded
  BY InvIsEnough
<1> QED BY <1>1, InvHolds, PTL

(* _fail_feed_closed and a new snapshot leave no order to rest or to be    *)
(* activated later, and no action is taken until a bridge is accepted.     *)
THEOREM NoOrderEverOutlivesTheFeed == Spec => []NoOrderOutlivesTheFeed
<1>1. Inv => NoOrderOutlivesTheFeed
  BY InvIsEnough
<1> QED BY <1>1, InvHolds, PTL

(* An own quote that rests never locks or crosses the external book or the *)
(* other quote, whatever happened since it was decided on.                 *)
THEOREM QuotesAreAlwaysPassive == Spec => []QuotesArePassive
<1>1. Inv => QuotesArePassive
  BY InvIsEnough
<1> QED BY <1>1, InvHolds, PTL

=============================================================================
