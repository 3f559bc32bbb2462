---------------------------- MODULE MCReplayEnv -----------------------------
(* A small instance of ReplayEnv: the spread moves up and down by a tick,   *)
(* and one side empties.                                                    *)
EXTENDS ReplayEnv

Show(bids, asks) ==
  [s \in Side |-> [p \in Price |-> IF p \in (IF s = "buy" THEN bids ELSE asks) THEN 1 ELSE 0]]

Books == {Show({1}, {2}), Show({2}, {3}), Show({1}, {})}

=============================================================================
