------------------------------ MODULE Recovery ------------------------------
(***************************************************************************)
(* The command journal (include/Journal.hpp) and recovery from a crash as  *)
(* docs/market-data-and-recovery.md lays it out: a restored snapshot and   *)
(* the replay of the journal's tail, or of the whole journal. Storage is   *)
(* the caller's: it writes each record before it sends the next command,   *)
(* takes snapshots when it likes, and after a crash may restore and replay *)
(* in any order, again after a failure, and records out of their turn.     *)
(*                                                                         *)
(*   mode      "live", or "recovering" after a crash                       *)
(*   engine    the engine in memory                                        *)
(*   next      the journal sequence of the caller's next command           *)
(*   journal   the records that are durable                                *)
(*   pending   the record dispatched but not yet durable, if any           *)
(*   saved     the last snapshot and the sequence it precedes              *)
(*   cursor    JournalReplayCursor::next_journal_sequence                  *)
(*   call, accepted  the last call of a recovery, and whether it returned  *)
(*             Accepted                                                    *)
(*   past      auxiliary: the live engine before each journal sequence     *)
(*   intact    auxiliary: the recovery began empty or from saved unchanged *)
(*   vouched   auxiliary: a record was accepted since the restore          *)
(*   crashes   how often the engine was lost                               *)
(***************************************************************************)
EXTENDS Snapshot

CONSTANTS
  Script,       (* The commands the caller may send, by journal sequence.  *)
  Configured,   (* The instruments of the live engine, in order.           *)
  Lists,        (* The lists a target engine may be constructed with.      *)
  NoRecord,     (* No pending record.                                      *)
  MaxEvents,    (* Bound on event numbers, for commands replayed in vain.  *)
  MaxCrashes    (* Bound on crashes.                                       *)

(* The caller's commands are encodable ones. The live engine's instruments *)
(* are a valid list, for which lookup_capacity_for leaves a cell free.     *)
Command ==
  [instrument: Instrument, op: {"add", "market", "cancel", "modify", "replace"},
   id: OrderId, side: Side, price: Price, qty: 1..MaxQuantity]

ASSUME CallerAssumption ==
  /\ Script \in Seq(SUBSET Command)
  /\ Configured \in Seq(Instrument) /\ Lists \subseteq Seq(Instrument)
  /\ IsConfiguration(Configured, Len(Configured))
  /\ Len(Configured) < LookupCapacity

VARIABLES mode, engine, next, journal, pending, saved, cursor,
          call, accepted, past, intact, vouched, crashes

memory == <<mode, engine, next, past>>
storage == <<journal, pending, saved>>
replay == <<cursor, call, accepted, intact, vouched>>
vars == <<memory, storage, replay, crashes>>

FreshEngine == Constructed(Configured, Len(Configured), Len(Configured))

Init ==
  /\ mode = "live" /\ engine = FreshEngine /\ next = 1 /\ past = <<FreshEngine>>
  /\ journal = {} /\ pending = NoRecord
  /\ saved = [image |-> Image(FreshEngine), at |-> 1]
  /\ cursor = 1 /\ call = "none" /\ accepted = TRUE
  /\ intact = TRUE /\ vouched = FALSE
  /\ crashes = 0

-----------------------------------------------------------------------------
(* Before the crash.                                                       *)

(* The record of command c, which had result r. *)
RecordOf(e, c, n, r) ==
  [sequence |-> n, command |-> c,
   before |-> Checksum(e), feedBefore |-> MarketDataSequence(e, c.instrument),
   status |-> r.status, trades |-> r.trades, first |-> r.first,
   events |-> r.events, quotes |-> r.quotes,
   after |-> Checksum(r.engine),
   feedAfter |-> MarketDataSequence(r.engine, c.instrument)]

(* dispatch_and_record *)
Record(e, c, n) == RecordOf(e, c, n, Dispatch(e, c))

DispatchAndRecord(c) ==
  /\ mode = "live" /\ pending = NoRecord
  /\ next \in DOMAIN Script /\ c \in Script[next]
  /\ engine' = Dispatch(engine, c).engine
  /\ pending' = Record(engine, c, next)
  /\ next' = next + 1
  /\ past' = Append(past, engine')
  /\ UNCHANGED <<mode, journal, saved, replay, crashes>>

Persist ==
  /\ mode = "live" /\ pending # NoRecord
  /\ journal' = journal \cup {pending}
  /\ pending' = NoRecord
  /\ UNCHANGED <<memory, saved, replay, crashes>>

(* serialize of the engine, kept with the sequence of the next record.     *)
TakeSnapshot ==
  /\ mode = "live"
  /\ saved' = [image |-> Image(engine), at |-> next]
  /\ UNCHANGED <<memory, journal, pending, replay, crashes>>

(* The cursor, flags and engine of a recovery that starts over with the    *)
(* instruments of a list and memory for some of them.                      *)
StartOver(ids, lasts) ==
  /\ mode' = "recovering"
  /\ engine' = Constructed(ids, Len(Configured), lasts)
  /\ cursor' = 1 /\ call' = "construct" /\ accepted' = engine'.valid
  /\ intact' = TRUE /\ vouched' = FALSE
  /\ UNCHANGED <<next, past, journal, saved>>

(* Memory is lost, and with it the record that was not written whole.      *)
Crash(ids, lasts) ==
  /\ crashes < MaxCrashes
  /\ crashes' = crashes + 1
  /\ pending' = NoRecord
  /\ StartOver(ids, lasts)

-----------------------------------------------------------------------------
(* Recovery.                                                               *)

(* The caller gives this engine up and constructs another. *)
Construct(ids, lasts) ==
  /\ mode = "recovering"
  /\ StartOver(ids, lasts)
  /\ UNCHANGED <<pending, crashes>>

(* What a restore may be given: the snapshot as saved, or changed in one   *)
(* place, or in two that agree with each other.                            *)
ChangedOrders(o) ==
  {[o EXCEPT !.id = x] : x \in OrderId \cup {InvalidId}}
    \cup {[o EXCEPT !.side = x] : x \in Side}
    \cup {[o EXCEPT !.price = x] : x \in Price \cup {NoPrice}}
    \cup {[o EXCEPT !.qty = x] : x \in 0..MaxQuantity}
    \cup {[o EXCEPT !.seq = x] : x \in 0..MaxSequence}
    \cup {[o EXCEPT !.initial = x] : x \in 0..MaxQuantity}
    \cup {[o EXCEPT !.partly = ~@]}

ChangedLevels(l) ==
  {[l EXCEPT !.qty = x] : x \in 0..MaxQuantity}
    \cup {[l EXCEPT !.price = x] : x \in Price}
    \cup {[l EXCEPT !.count = @ + 1]}

ChangedBooks(b) ==
  {[b EXCEPT !.maxOrders = @ + 1], [b EXCEPT !.instrument = @ + 1], [b EXCEPT !.events = @ + 1], [b EXCEPT !.feed = @ + 1]}
    \cup {[b EXCEPT !.next = x] : x \in 0..MaxSequence}
    \cup (UNION {{[b EXCEPT !.orders[n] = o] : o \in ChangedOrders(b.orders[n])} : n \in DOMAIN b.orders})
    \cup {[b EXCEPT !.orders = RemoveAt(@, n)] : n \in DOMAIN b.orders}
    \cup {[b EXCEPT !.orders = Reverse(@)]}
    \cup (UNION {{[b EXCEPT !.levels[n] = l] : l \in ChangedLevels(b.levels[n])} : n \in DOMAIN b.levels})
    \cup {[b EXCEPT !.levels = RemoveAt(@, n)] : n \in DOMAIN b.levels}
    \cup {[b EXCEPT !.orders[1].qty = 1, !.levels[1].qty = 1] : n \in DOMAIN b.orders \cap {1}}

Changed(im) ==
  {[im EXCEPT !.readable = FALSE]}
    \cup UNION {{[im EXCEPT !.books[n] = b] : b \in ChangedBooks(im.books[n])} : n \in DOMAIN im.books}

RestoreSaved(im) ==
  LET r == Restore(engine, im)
  IN /\ mode = "recovering"
     /\ engine' = r.engine
     /\ call' = "restore" /\ accepted' = (r.status = "Accepted")
     /\ IF accepted'
        THEN cursor' = saved.at /\ intact' = (im = saved.image) /\ vouched' = FALSE
        ELSE UNCHANGED <<cursor, intact, vouched>>
     /\ UNCHANGED <<mode, next, past, storage, crashes>>

(* The record is the one the cursor and the engine are waiting for. *)
IsDue(r) ==
  /\ r.sequence = cursor
  /\ r.before = Checksum(engine)
  /\ r.feedBefore = MarketDataSequence(engine, r.command.instrument)

(* The dispatch of its command had the recorded result and effect. *)
Agrees(r, again) == again = [r EXCEPT !.before = again.before, !.feedBefore = again.feedBefore]
IsReproduced(r) == Agrees(r, Record(engine, r.command, r.sequence))

(* replay_journal_record of a whole record. *)
ReplayRecord(r) ==
  /\ mode = "recovering"
  /\ call' = "replay"
  /\ \/ /\ ~IsDue(r)
        /\ accepted' = FALSE        \* ReplayDiverged
        /\ UNCHANGED <<engine, cursor, vouched>>
     \/ /\ IsDue(r) /\ ~IsReproduced(r)
        /\ engine' = Dispatch(engine, r.command).engine
        /\ \A n \in DOMAIN engine.ids : engine'.held[n].events <= MaxEvents
        /\ accepted' = FALSE        \* ReplayDiverged, after the fact
        /\ UNCHANGED <<cursor, vouched>>
     \/ /\ IsDue(r) /\ IsReproduced(r)
        /\ engine' = Dispatch(engine, r.command).engine
        /\ cursor' = cursor + 1
        /\ accepted' = TRUE
        /\ vouched' = TRUE
  /\ UNCHANGED <<mode, next, past, storage, intact, crashes>>

(* A record that decode_journal_record refuses: the torn end of a journal  *)
(* is too short, or its CRC does not match.                                *)
ReplayTorn ==
  /\ mode = "recovering"
  /\ call' = "replay" /\ accepted' = FALSE
  /\ UNCHANGED <<memory, storage, cursor, intact, vouched, crashes>>

(* The caller goes on once no record or snapshot is ahead of the cursor,   *)
(* from a recovery that did not rest on a changed snapshot.                *)
Resume ==
  /\ mode = "recovering" /\ accepted /\ intact /\ engine.ids = Configured
  /\ saved.at <= cursor /\ \A r \in journal : r.sequence < cursor
  /\ mode' = "live" /\ next' = cursor /\ past' = SubSeq(past, 1, cursor)
  /\ call' = "none"
  /\ UNCHANGED <<engine, storage, cursor, accepted, intact, vouched, crashes>>

Next ==
  \/ \E c \in UNION Range(Script) : DispatchAndRecord(c)
  \/ Persist
  \/ TakeSnapshot
  \/ \E ids \in Lists : \E lasts \in 0..Len(ids) : Crash(ids, lasts) \/ Construct(ids, lasts)
  \/ \E im \in {saved.image} \cup Changed(saved.image) : RestoreSaved(im)
  \/ \E r \in journal : ReplayRecord(r)
  \/ ReplayTorn
  \/ Resume

Spec == Init /\ [][Next]_vars

-----------------------------------------------------------------------------
(* Properties.                                                             *)

(* Whatever restore accepts, even a changed snapshot, is a book: exact     *)
(* index, pool, totals and best prices, uncrossed, queues in sequence; and *)
(* every command keeps it one (validate_book_snapshot asks for enough).    *)
BooksStayBooks == \A n \in DOMAIN engine.ids : IsBook(engine.ids[n], engine.held[n])

(* An engine finds every instrument it was constructed with at an index of *)
(* its own and no other; one whose construction failed finds none.         *)
RoutesAreExact ==
  /\ \A i \in Instrument :
       LET n == LookupIndex(engine, i)
       IN IF i \in Range(engine.ids) THEN n \in DOMAIN engine.ids /\ engine.ids[n] = i
          ELSE n = 0
  /\ ~engine.valid => engine.ids = <<>>

Recovered == mode = "recovering" /\ accepted

(* The books of an engine, whatever the order of its instruments. *)
BooksOf(e) == {<<e.ids[n], e.held[n]>> : n \in DOMAIN e.ids}

(* A recovery from nothing or from the snapshot as saved that has not just *)
(* been refused holds the books that were lost, to the last counter, at    *)
(* the cursor: through lost and torn records, refused snapshots, records   *)
(* out of turn or twice, failed constructions, and a recovery begun anew   *)
(* in the middle of another; on an engine with the instruments in another  *)
(* order too.                                                              *)
RecoveryIsExact ==
  Recovered /\ intact /\ Range(engine.ids) = Range(Configured)
    => BooksOf(engine) = BooksOf(past[cursor])

Unnumbered(e) == {<<e.ids[n], [e.held[n] EXCEPT !.events = 0]>> : n \in DOMAIN e.ids}

(* Once a record has been accepted, the engine is the one that was lost    *)
(* but for event numbers, even if the snapshot had been changed or the     *)
(* instruments were others: the checksum leaves out nothing else.          *)
ReplayVouches ==
  Recovered /\ vouched => Unnumbered(engine) = Unnumbered(past[cursor])

(* A restore that is refused leaves every book of the engine as it was;    *)
(* no book is restored before another one is refused.                      *)
RestoreIsAllOrNothing ==
  [][call' = "restore" /\ ~accepted' => engine' = engine]_vars

=============================================================================
