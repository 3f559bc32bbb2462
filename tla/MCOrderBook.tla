---------------------------- MODULE MCOrderBook -----------------------------
(* Small instances of OrderBook for TLC. *)
EXTENDS OrderBook

CONSTANTS o1, o2, o3, p1, anon

TwoIds == {o1, o2}
ThreeIds == {o1, o2, o3}
Symmetry3 == Permutations(ThreeIds)
Owners == {anon, p1}

Base == [maxOrders |-> 3, idCapacity |-> 4, sparse |-> FALSE, policy |-> "Disabled",
         lot |-> 1, eventCapacity |-> 8, marketCapacity |-> 0]

(* Every self-trade prevention policy, with three orders resting and no    *)
(* limit that binds.                                                       *)
PolicyConfigs == {[Base EXCEPT !.policy = pol] : pol \in Policy}

(* In each configuration another limit binds: the pool, the sparse levels, *)
(* the lots, the event log (no room for a sweep of two), the market-data   *)
(* log and its sequence numbers, and with a third order the id index.      *)
Small == [Base EXCEPT !.maxOrders = 2]

LimitConfigs ==
  {[Small EXCEPT !.maxOrders = 1, !.sparse = TRUE, !.policy = "CancelAggressor"],
   [Base EXCEPT !.idCapacity = 2],
   [Small EXCEPT !.lot = 2, !.eventCapacity = 3],
   [Small EXCEPT !.sparse = TRUE, !.marketCapacity = 7, !.policy = "CancelBoth"],
   [Small EXCEPT !.marketCapacity = 5, !.policy = "CancelResting"]}

(* Self-trade prevention with market data. *)
StpConfigs == {[Small EXCEPT !.marketCapacity = 8, !.policy = "CancelBoth"]}

(* The policies whose loop goes on past an own order, and no policy.       *)
LiveConfigs ==
  {[Small EXCEPT !.policy = pol] : pol \in {"Disabled", "CancelResting", "CancelBoth"}}

=============================================================================
