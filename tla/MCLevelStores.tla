--------------------------- MODULE MCLevelStores ---------------------------
(* A small instance of LevelStores. *)
EXTENDS LevelStores

MCOwner == {"own", "other"}
MCEntry == {[qty |-> 1, owner |-> "other"], [qty |-> 2, owner |-> "own"]}
MCTaker ==
  [qty: {2}, limit: {NoPrice}, owner: {"own"}, policy: {"CancelResting", "CancelBoth"}]
    \cup [qty: {1, 2}, limit: {2}, owner: {"own"}, policy: {"Disabled", "CancelAggressor"}]

(* The first two prices to the last cell, the third to the one after it:   *)
(* searches wrap around, insertions displace.                              *)
MCHash == {[p \in Price |-> IF p < 4 THEN 7 ELSE 0]}
MCTriedPrice == Price \cup {-2, 1, MaxPrice + TickSize}
=============================================================================
