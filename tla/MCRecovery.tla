----------------------------- MODULE MCRecovery -----------------------------
(* A small instance of Recovery for TLC: two instruments, and commands that *)
(* rest, trade in part and whole, jump the queue, are refused with and      *)
(* without a numbered event, and name no configured instrument.             *)
EXTENDS Recovery

CONSTANTS o1, o2, anon

Ids == {o1, o2}
Owners == {anon}
Order21 == <<2, 1>>
ListsOfTwo == {<<2, 1>>, <<1, 2>>, <<1, 1>>}
SameCell == [i \in {1, 2, 3} |-> 1]
Pools == [i \in {1, 2, 3} |-> IF i = 1 THEN 2 ELSE 1]
Keys == [s \in {"Buy", "Sell"} |-> [p \in {1, 2} |-> IF s = "Buy" THEN p - 1 ELSE p + 1]]

Bits == <<1, 2, 4>>

Send(i, op, id, s, p, q) ==
  [instrument |-> i, op |-> op, id |-> id, side |-> s, price |-> p, qty |-> q]

First == Send(1, "add", o1, "Buy", 1, 2)
Second == Send(1, "add", o2, "Buy", 1, 1)
Elsewhere == Send(2, "add", o2, "Sell", 2, 1)
Unknown == Send(3, "cancel", o1, "Buy", 1, 1)

Commands ==
  <<{First, Elsewhere},
    {First, Second, Elsewhere, Unknown,
     Send(1, "add", o2, "Sell", 1, 1), Send(1, "add", o2, "Buy", 1, 2),
     Send(1, "replace", o1, "Buy", 1, 3), Send(1, "modify", o1, "Buy", 1, 1),
     Send(1, "cancel", o1, "Buy", 1, 1)},
    {Second, Send(1, "replace", o1, "Buy", 2, 2),
     Send(1, "market", o2, "Sell", 1, 1)}>>

=============================================================================
