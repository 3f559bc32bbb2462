------------------------------ MODULE IdIndex -------------------------------
(***************************************************************************)
(* What OrderIdMap (include/OrderIdMap.hpp) promises a book: a bounded set *)
(* of order ids with exact lookups, and erase tokens that expire with the  *)
(* next change of the set. Each call is one step and leaves its answer in  *)
(* "answer".                                                               *)
(*                                                                         *)
(* An id and the Order pointer filed under it travel together in one Entry *)
(* and are one thing here. mutation_revision_ is 64 bits wide and never    *)
(* comes back to a value a token holds, so comparing it with the token's   *)
(* asks one thing: has the set changed since? That is token.fresh.         *)
(***************************************************************************)
EXTENDS Integers, FiniteSets

CONSTANTS
  Id,        (* Valid order ids.                                           *)
  NoId,      (* kInvalidOrderId; also the id of a token that holds none.   *)
  Capacity   (* Number of slots.                                           *)

VARIABLES ids, token, answer
vars == <<ids, token, answer>>

Answer == {"none", "Accepted", "DuplicateOrderId", "OrderIdMapFull", "found",
           "missing", "erased", "refused"}
NoToken == [id |-> NoId, fresh |-> FALSE]

Init == ids = {} /\ token = NoToken /\ answer = "none"

(* The set becomes s, which no token survives. *)
Change(s) == ids' = s /\ token' = [token EXCEPT !.fresh = FALSE]

Insert(id) ==
  \/ id \in ids /\ answer' = "DuplicateOrderId" /\ UNCHANGED <<ids, token>>
  \/ /\ id \notin ids /\ Cardinality(ids) = Capacity
     /\ answer' = "OrderIdMapFull"
     /\ UNCHANGED <<ids, token>>
  \/ /\ id \notin ids /\ Cardinality(ids) < Capacity
     /\ answer' = "Accepted"
     /\ Change(ids \cup {id})

Find(id) ==
  /\ answer' = IF id \in ids THEN "found" ELSE "missing"
  /\ UNCHANGED <<ids, token>>

FindForErase(id) ==
  /\ answer' = IF id \in ids THEN "found" ELSE "missing"
  /\ token' = IF id \in ids THEN [id |-> id, fresh |-> TRUE] ELSE NoToken
  /\ UNCHANGED ids

Erase(id) ==
  \/ id \notin ids /\ answer' = "refused" /\ UNCHANGED <<ids, token>>
  \/ id \in ids /\ answer' = "erased" /\ Change(ids \ {id})

EraseToken ==
  \/ ~token.fresh /\ answer' = "refused" /\ UNCHANGED <<ids, token>>
  \/ token.fresh /\ answer' = "erased" /\ Change(ids \ {token.id})

Clear == answer' = "none" /\ Change({})

Next ==
  \/ \E id \in Id : Insert(id) \/ Find(id) \/ FindForErase(id) \/ Erase(id)
  \/ EraseToken
  \/ Clear

Spec == Init /\ [][Next]_vars

=============================================================================
