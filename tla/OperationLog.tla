---------------------------- MODULE OperationLog ----------------------------
(***************************************************************************)
(* The two ring logs of a book, EventLog (include/EventLog.hpp) and        *)
(* MarketDataLog (include/MarketData.hpp), as an OrderBook drives them:    *)
(* each operation reserves, appends at most what it reserved, and leaves a *)
(* contiguous span for the caller to read until the next operation.        *)
(*                                                                         *)
(*   kind      which log                                                   *)
(*   capacity  capacity_, 0 for a disabled market-data log                 *)
(*   slots     events_, of which only the sequence number is kept          *)
(*   write     write_index_                                                *)
(*   begin     last_begin_                                                 *)
(*   span      last_count_                                                 *)
(*   sequence  next_sequence_ of the event log, current_sequence_ of the   *)
(*             market-data log: the last one drawn                         *)
(*   reserved  what the operation may still append                         *)
(*   emitted   the sequence numbers of the events it meant to append       *)
(*                                                                         *)
(* last_overflowed_ is set exactly when an append is dropped, which        *)
(* SpanIsOperation excludes, and is left out.                              *)
(***************************************************************************)
EXTENDS Integers, Sequences

CONSTANTS
  Capacities,   (* Capacities a log may be built with.                     *)
  MaxSequence   (* Largest SequenceNumber.                                 *)

ASSUME LogAssumption == Capacities \subseteq Nat /\ MaxSequence \in Nat \ {0}

VARIABLES kind, capacity, slots, write, begin, span, sequence, reserved, emitted
logVars == <<kind, capacity, slots, write, begin, span, sequence, reserved, emitted>>

Kind == {"events", "market"}

(* Sequence number of an event outside the sequenced stream. *)
Unsequenced == 0

LogIndex == 0..(capacity - 1)

LogInit ==
  /\ kind \in Kind
  /\ capacity \in Capacities
  /\ capacity = 0 => kind = "market"
  /\ slots = [i \in LogIndex |-> Unsequenced]
  /\ write = 0 /\ begin = 0 /\ span = 0
  /\ sequence = 0
  /\ reserved = 0
  /\ emitted = <<>>

(* Mutant of CanRecord: only the span is checked. *)
FitsSpan(n) == n <= capacity

(* can_record: an operation with n events fits. The sequence of market     *)
(* data must not run out; that of events saturates.                        *)
CanRecord(n) ==
  IF kind = "events" THEN n <= capacity
  ELSE \/ capacity = 0 \/ n = 0
       \/ n <= capacity /\ n <= MaxSequence - sequence

(* Mutant of Start: the span starts wherever the last one ended. *)
StartInPlace(n) ==
  /\ reserved' = IF CanRecord(n) THEN n ELSE 0
  /\ write' = write
  /\ begin' = write
  /\ span' = 0
  /\ emitted' = <<>>
  /\ UNCHANGED <<kind, capacity, slots, sequence>>

(* start_operation: begin_operation(n), which moves to the start of the    *)
(* ring if what is left of it is too short, or begin_operation(0) if n     *)
(* events do not fit at all.                                               *)
Start(n) ==
  /\ reserved' = IF CanRecord(n) THEN n ELSE 0
  /\ write' = IF CanRecord(n) /\ capacity # 0 /\ n > capacity - write THEN 0 ELSE write
  /\ begin' = write'
  /\ span' = 0
  /\ emitted' = <<>>
  /\ UNCHANGED <<kind, capacity, slots, sequence>>

(* Whether append keeps an event: the span is not full and, for market     *)
(* data, the sequence not exhausted.                                       *)
Keeps ==
  /\ capacity # 0
  /\ span # capacity
  /\ kind = "market" => sequence # MaxSequence

(* Mutant of Store: the write index does not wrap. *)
StorePastEnd(n) ==
  /\ reserved > 0
  /\ reserved' = reserved - 1
  /\ emitted' = Append(emitted, n)
  /\ IF Keeps
     THEN /\ slots' = [slots EXCEPT ![write] = n]
          /\ write' = write + 1
          /\ span' = span + 1
     ELSE UNCHANGED <<slots, write, span>>
  /\ UNCHANGED <<kind, capacity, begin>>

(* The event numbered n is stored behind the last one of the span.         *)
Store(n) ==
  /\ reserved > 0
  /\ reserved' = reserved - 1
  /\ emitted' = Append(emitted, n)
  /\ IF Keeps
     THEN /\ slots' = [slots EXCEPT ![write] = n]
          /\ write' = IF write + 1 = capacity THEN 0 ELSE write + 1
          /\ span' = span + 1
     ELSE UNCHANGED <<slots, write, span>>
  /\ UNCHANGED <<kind, capacity, begin>>

(* append_order, append_trade, append_level and append_best. Only a kept   *)
(* market-data event uses up a sequence number; an event always does.      *)
AppendSequenced ==
  /\ sequence' = IF sequence = MaxSequence \/ (kind = "market" /\ ~Keeps)
                 THEN sequence ELSE sequence + 1
  /\ Store(sequence')

(* Mutant of AppendUnsequenced: the diagnostic uses up a sequence number.  *)
AppendDiagnostic ==
  /\ kind = "events"
  /\ sequence < MaxSequence
  /\ sequence' = sequence + 1
  /\ Store(Unsequenced)

(* append_unsequenced_order. *)
AppendUnsequenced ==
  /\ kind = "events"
  /\ Store(Unsequenced)
  /\ UNCHANGED sequence

(* reset to the sequence number n of a restored snapshot. *)
Reset(n) ==
  /\ write' = 0 /\ begin' = 0 /\ span' = 0
  /\ sequence' = n
  /\ reserved' = 0
  /\ emitted' = <<>>
  /\ UNCHANGED <<kind, capacity, slots>>

(* What an operation may need: nothing of a disabled log, of the others up *)
(* to one event more than fits.                                            *)
Needs == IF capacity = 0 THEN {0} ELSE 0..(capacity + 1)

LogNext ==
  \/ \E n \in Needs : Start(n)
  \/ AppendSequenced
  \/ AppendUnsequenced
  \/ \E n \in 0..MaxSequence : Reset(n)

LogSpec == LogInit /\ [][LogNext]_logVars

-----------------------------------------------------------------------------

LogTypeOK ==
  /\ kind \in Kind
  /\ capacity \in Capacities
  /\ slots \in [LogIndex -> 0..MaxSequence]
  /\ write \in Nat /\ (capacity # 0 => write < capacity)
  /\ begin \in Nat
  /\ span \in Nat
  /\ sequence \in 0..MaxSequence
  /\ reserved \in Nat
  /\ emitted \in Seq(0..MaxSequence)

(* last_events() is one contiguous piece of the ring and holds exactly the *)
(* events of the operation, in order: none is dropped, none overwritten by *)
(* a wrap in the middle of an operation.                                   *)
SpanIsOperation ==
  /\ begin + span <= capacity
  /\ Len(emitted) = span
  /\ \A i \in 1..span : slots[begin + i - 1] = emitted[i]

(* What an operation may still append fits between its last event and the  *)
(* end of the ring and, for market data, below the largest sequence.       *)
ReservationFits ==
  /\ begin + span + reserved <= capacity
  /\ reserved > 0 => write = begin + span
  /\ kind = "market" => reserved <= MaxSequence - sequence

(* The sequenced events of an operation are numbered without a gap up to   *)
(* the log's current sequence, so the next operation continues where they  *)
(* end; only the event log repeats its last number once it has run out.    *)
NumbersAreConsecutive ==
  \A i \in DOMAIN emitted :
    emitted[i] # Unsequenced =>
      LET later == {j \in DOMAIN emitted : j > i /\ emitted[j] # Unsequenced}
      IN \/ kind = "events" /\ emitted[i] = MaxSequence
         \/ later = {} /\ emitted[i] = sequence
         \/ \E j \in later : emitted[j] = emitted[i] + 1 /\ \A k \in later : j <= k

=============================================================================
