----------------------------- MODULE GlobalTimer -----------------------------
(***************************************************************************)
(* Reading the 64 bit global timer of the Cortex-A9 through two 32 bit     *)
(* registers: high, low, high again, until the two high words agree.  The  *)
(* interrupt handler and the misc device of irq_module and the application *)
(* max_irq_jitter_app all read it in this way while it counts.             *)
(*                                                                         *)
(* The timer itself is hardware: it only goes up.  It would take 2900      *)
(* years to come round.  The specification's names begin with Timer, so    *)
(* that a module may extend this one beside another specification.         *)
(***************************************************************************)
EXTENDS Integers

CONSTANTS
  WordMod,      \* number of values of one register
  MaxCount      \* bound on the counter

ASSUME TimerAssumption == WordMod \in Nat \ {0} /\ MaxCount \in Nat

VARIABLES
  counter,      \* the timer
  pc,           \* the reader: idle, or the register it reads next
  hi_GT, lo_GT, \* what it has read
  value,        \* what the last read has returned
  started,      \* history: the counter when this read started
  lo_read       \* history: the counter when the low word was read

timer_vars == <<counter, pc, hi_GT, lo_GT, value, started, lo_read>>

TimerTypeOK ==
  /\ counter \in Nat /\ value \in Nat
  /\ started \in Nat /\ lo_read \in Nat
  /\ pc \in {"idle", "hi", "lo", "hi_2", "done"}
  /\ hi_GT \in Nat /\ lo_GT \in Nat

TimerInit == /\ counter \in 0..MaxCount
             /\ pc = "idle"
             /\ hi_GT = 0 /\ lo_GT = 0 /\ value = 0
             /\ started = counter /\ lo_read = counter

Hi == counter \div WordMod
Lo == counter % WordMod

Advance == /\ counter' \in (counter + 1)..MaxCount
           /\ UNCHANGED <<pc, hi_GT, lo_GT, value, started, lo_read>>

Start == /\ pc \in {"idle", "done"}
         /\ pc' = "hi"
         /\ started' = counter
         /\ UNCHANGED <<counter, hi_GT, lo_GT, value, lo_read>>

ReadHi == /\ pc = "hi"
          /\ hi_GT' = Hi
          /\ pc' = "lo"
          /\ UNCHANGED <<counter, lo_GT, value, started, lo_read>>

ReadLo == /\ pc = "lo"
          /\ lo_GT' = Lo
          /\ lo_read' = counter
          /\ pc' = "hi_2"
          /\ UNCHANGED <<counter, hi_GT, value, started>>

(* A plausible mistake: the high word is not read again. *)
ReadHiOnce == /\ pc = "hi_2"
              /\ value' = hi_GT * WordMod + lo_GT
              /\ pc' = "done"
              /\ UNCHANGED <<counter, hi_GT, lo_GT, started, lo_read>>

(* hi_GT_2 is compared with hi_GT: either the two words are combined or    *)
(* all three registers are read again.                                     *)
ReadHiAgain ==
  /\ pc = "hi_2"
  /\ IF Hi = hi_GT
       THEN pc' = "done" /\ value' = hi_GT * WordMod + lo_GT
       ELSE pc' = "hi" /\ UNCHANGED value
  /\ UNCHANGED <<counter, hi_GT, lo_GT, started, lo_read>>

TimerRead == ReadHi \/ ReadLo \/ ReadHiAgain

TimerNext == Advance \/ Start \/ TimerRead

TimerSpec == TimerInit /\ [][TimerNext]_timer_vars

-----------------------------------------------------------------------------
(* The value that is returned is one that the counter had during the read. *)
ValueWasShown == pc = "done" => started <= value /\ value <= counter

(* What the words already read say, for the proof.                         *)
TimerInv ==
  /\ TimerTypeOK
  /\ started <= counter
  /\ pc \in {"lo", "hi_2"} => hi_GT <= Hi
  /\ pc = "hi_2" => /\ started <= lo_read /\ lo_read <= counter
                    /\ lo_GT = lo_read % WordMod
                    /\ hi_GT <= lo_read \div WordMod
  /\ ValueWasShown
=============================================================================
