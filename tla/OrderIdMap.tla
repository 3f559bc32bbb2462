----------------------------- MODULE OrderIdMap -----------------------------
(***************************************************************************)
(* OrderIdMap (include/OrderIdMap.hpp): a Robin Hood hash table with       *)
(* backward-shift deletion. Calls do not interleave, so each is one step.  *)
(*                                                                         *)
(*   hash     where the (fixed) hash function sends each id; any function  *)
(*   entries  id and probe_distance of each slot                           *)
(*   token    the EraseToken the caller holds: id_, index_ and whether     *)
(*            mutation_revision_ is still the one it was issued with       *)
(*   answer   what the last call returned                                  *)
(*                                                                         *)
(* Order pointers travel with their ids; the probe statistics are left out.*)
(***************************************************************************)
EXTENDS Integers, FiniteSets, FiniteSetsExt, SequencesExt

CONSTANTS
  Id,        (* Valid order ids.                                           *)
  NoId,      (* kInvalidOrderId: the id of an empty slot.                  *)
  Capacity   (* Number of slots.                                           *)

ASSUME IdAssumption == NoId \notin Id

(* capacity_for: a power of two, which makes "& mask_" a remainder.        *)
ASSUME CapacityAssumption == \E k \in 1..31 : Capacity = 2^k

VARIABLES hash, entries, size, token, answer
vars == <<hash, entries, size, token, answer>>

Slot == 0..(Capacity - 1)
NoSlot == Capacity
Empty == [id |-> NoId, dist |-> 0]
NoToken == [id |-> NoId, index |-> NoSlot, fresh |-> FALSE]

Init ==
  /\ hash \in [Id -> Slot]
  /\ entries = [i \in Slot |-> Empty]
  /\ size = 0
  /\ token = NoToken
  /\ answer = "none"

Occupied == {i \in Slot : entries[i] # Empty}
Plus(i, n) == (i + n) % Capacity

(* Mutant of FindIndex: the search gives up on an equal distance, too. *)
FindIndexEager(id) ==
  LET at(s) == entries[Plus(hash[id], s)]
      stops == {s \in Slot : at(s).dist <= s \/ at(s).id = id}
      s == Min(stops)
  IN IF stops # {} /\ at(s).id = id THEN Plus(hash[id], s) ELSE NoSlot

(* find_index: probe from the id's home until an empty slot, an entry      *)
(* closer to its own home than the search is to id's, or the id itself.    *)
FindIndex(id) ==
  LET at(s) == entries[Plus(hash[id], s)]
      stops == {s \in Slot : at(s) = Empty \/ at(s).dist < s \/ at(s).id = id}
      s == Min(stops)
  IN IF stops # {} /\ at(s).id = id /\ at(s).dist >= s
     THEN Plus(hash[id], s) ELSE NoSlot

(* Mutant of Placed: the richer entry keeps its slot. *)
PlacedWithoutSwap(id) ==
  LET step == Min({s \in Slot : entries[Plus(hash[id], s)] = Empty})
  IN [entries EXCEPT ![Plus(hash[id], step)] = [id |-> id, dist |-> step]]

(* One round of insert's loop: the incoming entry takes the first empty    *)
(* slot, and the slot of any entry that is closer to its home, which then  *)
(* travels on.                                                             *)
Probe(home, acc, step) ==
  LET slot == Plus(home, step)
      here == acc.table[slot]
      moved == [acc.incoming EXCEPT !.dist = @ + 1]
  IN CASE acc.placed -> acc
       [] ~acc.placed /\ here = Empty ->
            [acc EXCEPT !.table[slot] = acc.incoming, !.placed = TRUE]
       [] ~acc.placed /\ here # Empty /\ here.dist < acc.incoming.dist ->
            [acc EXCEPT !.table[slot] = acc.incoming,
                        !.incoming = [here EXCEPT !.dist = @ + 1]]
       [] OTHER -> [acc EXCEPT !.incoming = moved]

(* insert's loop, from the id's home on. *)
Placed(id) ==
  FoldLeft(LAMBDA acc, step : Probe(hash[id], acc, step),
           [table |-> entries, incoming |-> [id |-> id, dist |-> 0],
            placed |-> FALSE],
           [n \in 1..Capacity |-> n - 1]).table

(* The distances from slot i at which erase_index stops moving entries:    *)
(* the next one is absent or at home. Having come round to slot i it finds *)
(* the entry it moved there first, one slot closer to its home.            *)
Stops(i) ==
  {n \in 1..(Capacity - 1) : \/ entries[Plus(i, n)] = Empty
                             \/ entries[Plus(i, n)].dist = 0}
  \cup {n \in {Capacity} : entries[Plus(i, 1)].dist = 1}

(* Mutant of Shifted: a moved entry keeps its old distance. *)
ShiftedAsIs(i) ==
  LET last == Min(Stops(i) \cup {Capacity}) - 1
  IN [j \in Slot |->
        LET n == (j - i) % Capacity
        IN IF n < last THEN entries[Plus(j, 1)]
           ELSE IF n = last THEN Empty ELSE entries[j]]

(* erase_index: the entries behind slot i move one slot closer to home.    *)
Shifted(i) ==
  LET last == Min(Stops(i) \cup {Capacity}) - 1
  IN [j \in Slot |->
        LET n == (j - i) % Capacity
        IN IF n < last THEN [entries[Plus(j, 1)] EXCEPT !.dist = @ - 1]
           ELSE IF n = last THEN Empty ELSE entries[j]]

(* ++mutation_revision_. *)
Revise == token' = [token EXCEPT !.fresh = FALSE]

Reply(text) == answer' = text /\ UNCHANGED <<hash, entries, size, token>>

Insert(id) ==
  \/ FindIndex(id) # NoSlot /\ Reply("DuplicateOrderId")
  \/ FindIndex(id) = NoSlot /\ size = Capacity /\ Reply("OrderIdMapFull")
  \/ /\ FindIndex(id) = NoSlot /\ size # Capacity
     /\ entries' = Placed(id)
     /\ size' = size + 1
     /\ answer' = "Accepted"
     /\ Revise
     /\ UNCHANGED hash

Found(id) == IF FindIndex(id) = NoSlot THEN "missing" ELSE "found"

Find(id) == Reply(Found(id))

FindForErase(id) ==
  /\ token' = IF FindIndex(id) = NoSlot THEN NoToken
              ELSE [id |-> id, index |-> FindIndex(id), fresh |-> TRUE]
  /\ answer' = Found(id)
  /\ UNCHANGED <<hash, entries, size>>

EraseIndex(i) ==
  /\ entries' = Shifted(i)
  /\ size' = size - 1
  /\ answer' = "erased"
  /\ Revise
  /\ UNCHANGED hash

Erase(id) ==
  \/ FindIndex(id) = NoSlot /\ Reply("refused")
  \/ FindIndex(id) # NoSlot /\ EraseIndex(FindIndex(id))

(* erase(token) trusts the slot of a token that is still good. *)
EraseToken ==
  LET good == token.fresh /\ entries[token.index].id = token.id
  IN \/ ~good /\ Reply("refused")
     \/ good /\ EraseIndex(token.index)

Clear ==
  /\ entries' = [i \in Slot |-> Empty]
  /\ size' = 0
  /\ answer' = "none"
  /\ Revise
  /\ UNCHANGED hash

Next ==
  \/ \E id \in Id : Insert(id) \/ Find(id) \/ FindForErase(id) \/ Erase(id)
  \/ EraseToken
  \/ Clear

Spec == Init /\ [][Next]_vars

-----------------------------------------------------------------------------

(* The table is in Robin Hood order after any insertions and compactions:  *)
(* every entry knows its distance from home, no entry is more than one     *)
(* slot further from home than its predecessor, and size_ counts entries.  *)
TableIsSound ==
  /\ entries \in [Slot -> [id: Id \cup {NoId}, dist: Slot]]
  /\ size = Cardinality(Occupied)
  /\ \A i \in Occupied :
       /\ i = Plus(hash[entries[i].id], entries[i].dist)
       /\ LET before == Plus(i, Capacity - 1)
          IN entries[i].dist > 0 =>
               before \in Occupied /\ entries[i].dist <= entries[before].dist + 1

(* erase_index's loop has no bound of its own: wherever it starts, even in *)
(* a full table, it meets an absent entry or one at home.                  *)
CompactionEnds == \A i \in Occupied : Stops(i) # {}

(* The table answers every call as a set of ids would: no search that      *)
(* gives up early misses an id, insertion is refused only when every slot  *)
(* is taken, and a token erases its own id or nothing.                     *)
Index == INSTANCE IdIndex WITH
  ids <- {entries[i].id : i \in Occupied},
  token <- [id |-> token.id, fresh |-> token.fresh]

ImplementsIdIndex == Index!Spec

=============================================================================
