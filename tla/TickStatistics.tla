--------------------------- MODULE TickStatistics ---------------------------
(***************************************************************************)
(* What the jitter and data mover programs make of their time stamps, once *)
(* a test has run (data_mover_app; max_jitter and max_irq_jitter_app have  *)
(* the same code): the ticks between two readings of a timer that comes    *)
(* round, and the few largest and the few smallest of all that have been   *)
(* measured.                                                               *)
(*                                                                         *)
(* perf_stat_max_processing_0 to _4 and their three siblings are functions *)
(* of the rank, from 1 on.  The index that is kept with each of them moves *)
(* with it and is left out, and so is the average, a float.                *)
(***************************************************************************)
EXTENDS Integers, Sequences

CONSTANTS
  Kept,       \* how many of them are kept: 5
  Modulus     \* of the timer: 2^32

ASSUME StatisticsAssumption == Kept \in Nat \ {0} /\ Modulus \in Nat \ {0}

Tick == 0..(Modulus - 1)
Rank == 1..Kept

(* The ticks from one reading to the next, in unsigned arithmetic. *)
Ticks(from, to) ==
  IF to > from THEN to - from
               ELSE ((Modulus - 1 - from) + 1 + to) % Modulus

NoLargest == [k \in Rank |-> 0]
NoSmallest == [k \in Rank |-> Modulus - 1]

(* The chain of tests: x takes the first place whose value it exceeds, and *)
(* what follows moves down.                                                *)
WithLargest(largest, x) ==
  [k \in Rank |->
    IF \E j \in 1..(k - 1) : largest[j] < x THEN largest[k - 1]
    ELSE IF largest[k] < x THEN x ELSE largest[k]]

WithSmallest(smallest, x) ==
  [k \in Rank |->
    IF \E j \in 1..(k - 1) : smallest[j] > x THEN smallest[k - 1]
    ELSE IF smallest[k] > x THEN x ELSE smallest[k]]

NoStatistics == [largest |-> NoLargest, smallest |-> NoSmallest]

Evaluated(statistics, x) ==
  [largest |-> WithLargest(statistics.largest, x),
   smallest |-> WithSmallest(statistics.smallest, x)]

(* The times of one record of 2 * PERF_LOOP_COUNT stamps of each file:     *)
(* from a buffer being ready to its processing being done, and from there  *)
(* to the next buffer.  The last processing time has no buffer after it    *)
(* and is not looked at.                                                   *)
ProcessingTicks(buffer_ready, processing_done) ==
  [i \in 1..(Len(buffer_ready) - 1) |->
    Ticks(buffer_ready[i], processing_done[i])]

ReadyTicks(buffer_ready, processing_done) ==
  [i \in 1..(Len(buffer_ready) - 1) |->
    Ticks(processing_done[i], buffer_ready[i + 1])]
=============================================================================
