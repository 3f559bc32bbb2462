----------------------------- MODULE MarketFeed -----------------------------
(***************************************************************************)
(* A consumer that follows the market data of one book with a              *)
(* SequenceGapDetector (include/MarketData.hpp) across a transport that is *)
(* not part of the library: it may lose, repeat and reorder events, and it *)
(* carries the streams of other instruments too. The consumer starts from  *)
(* a snapshot of the book and may take another one at any time; it applies *)
(* what the detector reports as First or Contiguous.                       *)
(*                                                                         *)
(*   current   MarketDataLog::current_sequence_ of the book                *)
(*   detector  last_sequence_ and initialized_                             *)
(*   base      the sequence of the snapshot the consumer started from      *)
(*   applied   how often it applied each event since, counted up to two    *)
(*   report    what the detector said last                                 *)
(*   missed    whether it reported a Gap since the snapshot                *)
(***************************************************************************)
EXTENDS Integers, FiniteSetsExt

CONSTANTS
  MaxNumber,  (* Largest SequenceNumber. *)
  Starts        (* Market-data sequences of the first snapshot. *)

ASSUME FeedAssumption == MaxNumber \in Nat \ {0} /\ Starts \subseteq 0..MaxNumber

VARIABLES current, detector, base, applied, report, missed
feedVars == <<current, detector, base, applied, report, missed>>

Check == {"First", "Contiguous", "Gap", "DuplicateOrOld", "WrongInstrument"}

(* The constructor and reset: sequence 0 is "no snapshot". *)
Detector(n) == [last |-> n, initialized |-> n # 0]

NoneApplied == [n \in 1..MaxNumber |-> 0]

FeedInit ==
  /\ current \in Starts
  /\ base = current
  /\ detector = Detector(base)
  /\ applied = NoneApplied /\ report = "none" /\ missed = FALSE

(* MarketDataLog::append, which stops when the sequence is exhausted. *)
Publish ==
  /\ current < MaxNumber
  /\ current' = current + 1
  /\ UNCHANGED <<detector, base, applied, report, missed>>

(* Mutant of NextExpected: the event after the next one is expected too. *)
NextButOne(d) == d.last + 2

(* next_expected: it saturates. *)
NextExpected(d) == IF d.last = MaxNumber THEN d.last ELSE d.last + 1

(* The status observe gives to event n of the detector's own stream. *)
Status(d, n) ==
  IF ~d.initialized THEN "First"
  ELSE IF n = NextExpected(d) THEN "Contiguous"
  ELSE IF n <= d.last THEN "DuplicateOrOld"
  ELSE "Gap"

(* Mutant of Observed: a repeated event moves the detector back. *)
ObservedLatest(d, n) == [last |-> n, initialized |-> TRUE]

(* The detector after observe. *)
Observed(d, n) ==
  [last |-> IF d.initialized /\ n <= d.last THEN d.last ELSE n, initialized |-> TRUE]

(* One of the book's events arrives, at any time after it was appended.    *)
Deliver(n) ==
  /\ n <= current
  /\ report' = Status(detector, n)
  /\ detector' = Observed(detector, n)
  /\ applied' = IF report' \in {"First", "Contiguous"}
                THEN [applied EXCEPT ![n] = IF @ = 0 THEN 1 ELSE 2]
                ELSE applied
  /\ missed' = (missed \/ report' = "Gap")
  /\ UNCHANGED <<current, base>>

(* An event of another instrument arrives. *)
DeliverForeign ==
  /\ report' = "WrongInstrument"
  /\ UNCHANGED <<current, detector, base, applied, missed>>

(* The consumer takes a snapshot and resets its detector. *)
Resume ==
  /\ base' = current
  /\ detector' = Detector(current)
  /\ applied' = NoneApplied /\ report' = "none" /\ missed' = FALSE
  /\ UNCHANGED current

FeedNext ==
  \/ Publish
  \/ \E n \in 1..MaxNumber : Deliver(n)
  \/ DeliverForeign
  \/ Resume

FeedSpec == FeedInit /\ [][FeedNext]_feedVars

-----------------------------------------------------------------------------

(* Every variable has its type: the sequence stops at its largest value.   *)
FeedTypeOK ==
  /\ current \in 0..MaxNumber
  /\ detector \in [last: 0..MaxNumber, initialized: BOOLEAN]
  /\ base \in 0..MaxNumber
  /\ applied \in [1..MaxNumber -> 0..2]
  /\ report \in Check \cup {"none"}
  /\ missed \in BOOLEAN

Applied == {n \in 1..MaxNumber : applied[n] > 0}

(* What a consumer that was told of no Gap applied has no hole, reaches up *)
(* to the detector's last event and, unless its snapshot had sequence 0,   *)
(* begins right after the snapshot: observe calls nothing else First or    *)
(* Contiguous, in whatever order the events arrive. (After a snapshot with *)
(* the largest sequence number, that event itself is still Contiguous.)    *)
AppliedHasNoHole ==
  ~missed /\ Applied # {} =>
    /\ Applied = Min(Applied)..detector.last
    /\ base \notin {0, MaxNumber} => Min(Applied) = base + 1

(* However often and late an event is repeated it is applied once, except  *)
(* the one with the largest sequence number: next_expected saturates       *)
(* there, and observe calls each repetition Contiguous.                    *)
NoneAppliedTwice == \A n \in 1..MaxNumber : applied[n] = 2 => n = MaxNumber

(* "Initialize it with the sequence carried by a snapshot, then require    *)
(* SequenceCheck::Contiguous; Gap, DuplicateOrOld, and WrongInstrument are *)
(* explicit outcomes" (docs/market-data-and-recovery.md): whoever starts   *)
(* from a snapshot and was told of no Gap holds every event after it. A    *)
(* snapshot with sequence 0 leaves the detector uninitialized, so observe  *)
(* calls whatever comes first First.                                       *)
LossIsReported == ~missed => Applied = (base + 1)..detector.last

=============================================================================
