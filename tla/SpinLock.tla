------------------------------ MODULE SpinLock ------------------------------
(***************************************************************************)
(* The spin lock of amp_sim_data_copy: spin_lock() is a load-exclusive /   *)
(* store-exclusive loop, spin_unlock() a barrier and a plain store.        *)
(*                                                                         *)
(* The exclusive monitor is the CPU's, not the program's: it is modelled   *)
(* from the ARM rules the loop relies on (a store-exclusive succeeds only  *)
(* if nothing was stored to the address since the load-exclusive, and may  *)
(* fail for no visible reason).  Barriers are not modelled: memory is      *)
(* sequentially consistent here, which is what the dmb's give the users.   *)
(*                                                                         *)
(* The specification's names begin with Spin, so that a module may extend  *)
(* this one beside the protocol that uses the lock.                        *)
(***************************************************************************)
EXTENDS Integers

CONSTANTS
  Cpu,      \* the CPUs that may contend for the lock
  NoCpu     \* "nobody holds the lock", for the abstract lock

ASSUME SpinAssumption == NoCpu \notin Cpu

VARIABLES
  word,     \* *lock: 0 free, 1 taken
  monitor,  \* monitor[c]: the exclusive monitor of c is still set
  pc        \* where c is: outside, at the ldrex, at the strex, holding

spin_vars == <<word, monitor, pc>>

SpinTypeOK == /\ word \in 0..1
              /\ monitor \in [Cpu -> BOOLEAN]
              /\ pc \in [Cpu -> {"idle", "ldrex", "strex", "held"}]

SpinInit == /\ word = 0
            /\ monitor = [c \in Cpu |-> FALSE]
            /\ pc = [c \in Cpu |-> "idle"]

-----------------------------------------------------------------------------
(* Plausible mistakes in the loop, for the runs that show that the        *)
(* properties notice them; no action of SpinNext uses them.                *)

\* the cmp/beq after the ldrex is missing: a taken lock is not waited for
LdrexUntested(c) == /\ pc[c] = "ldrex"
                    /\ monitor' = [monitor EXCEPT ![c] = TRUE]
                    /\ pc' = [pc EXCEPT ![c] = "strex"]
                    /\ UNCHANGED word

\* the cmp/beq after the strex is missing: a failed store counts as success
StrexUntested(c) == /\ pc[c] = "strex"
                    /\ ~monitor[c]
                    /\ pc' = [pc EXCEPT ![c] = "held"]
                    /\ UNCHANGED <<word, monitor>>

\* the second beq goes back to the strex and not to label 1
StrexWithoutLdrex(c) == /\ pc[c] = "strex"
                        /\ ~monitor[c]
                        /\ UNCHANGED spin_vars

-----------------------------------------------------------------------------
(* A CPU calls spin_lock(). *)
Call(c) == /\ pc[c] = "idle"
           /\ pc' = [pc EXCEPT ![c] = "ldrex"]
           /\ UNCHANGED <<word, monitor>>

(* 1: ldrex %0, [%2]; cmp %0, %1; beq 1b *)
Ldrex(c) == /\ pc[c] = "ldrex"
            /\ monitor' = [monitor EXCEPT ![c] = TRUE]
            /\ pc' = [pc EXCEPT ![c] = IF word = 1 THEN "ldrex" ELSE "strex"]
            /\ UNCHANGED word

(* strex %0, %1, [%2] stores 1 and answers 0: the lock is taken.  The      *)
(* store ends every reservation of the address.                            *)
StrexStores(c) == /\ pc[c] = "strex"
                  /\ monitor[c]
                  /\ word' = 1
                  /\ monitor' = [d \in Cpu |-> FALSE]
                  /\ pc' = [pc EXCEPT ![c] = "held"]

(* strex answers 1 (cmp %0, #1; beq 1b): the reservation is gone. *)
StrexRetries(c) == /\ pc[c] = "strex"
                   /\ ~monitor[c]
                   /\ pc' = [pc EXCEPT ![c] = "ldrex"]
                   /\ UNCHANGED <<word, monitor>>

(* spin_unlock(): str %0, [%1] with %0 = 0. *)
Unlock(c) == /\ pc[c] = "held"
             /\ word' = 0
             /\ monitor' = [d \in Cpu |-> FALSE]
             /\ pc' = [pc EXCEPT ![c] = "idle"]

(* A context switch or a cache effect clears a reservation at any time.   *)
LoseReservation(c) == /\ monitor[c]
                      /\ monitor' = [monitor EXCEPT ![c] = FALSE]
                      /\ UNCHANGED <<word, pc>>

SpinNext == \E c \in Cpu : \/ Call(c) \/ Ldrex(c) \/ StrexStores(c)
                           \/ StrexRetries(c) \/ Unlock(c) \/ LoseReservation(c)

(* A CPU that is in spin_lock() keeps executing, a store-exclusive that is *)
(* tried again and again is not defeated by LoseReservation for ever, and  *)
(* a holder gives the lock back.  Nobody is obliged to call spin_lock().   *)
SpinFairness ==
  \A c \in Cpu : /\ WF_spin_vars(Ldrex(c)) /\ WF_spin_vars(StrexRetries(c))
                 /\ SF_spin_vars(StrexStores(c)) /\ WF_spin_vars(Unlock(c))

SpinSpec == SpinInit /\ [][SpinNext]_spin_vars

SpinFairSpec == SpinSpec /\ SpinFairness

-----------------------------------------------------------------------------
(* The lock word says whether some CPU is past its store-exclusive. *)
WordMeansHeld == word = 1 <=> \E c \in Cpu : pc[c] = "held"

(* While the lock is taken no CPU at its store-exclusive still has a       *)
(* reservation: a second strex cannot store.                               *)
NoStaleReservation ==
  word = 1 => \A c \in Cpu : pc[c] = "strex" => ~monitor[c]

(* Mutual exclusion: the loop of spin_lock() never lets two CPUs through.  *)
MutualExclusion ==
  \A c, d \in Cpu : pc[c] = "held" /\ pc[d] = "held" => c = d

(* The inductive invariant of the proof. *)
SpinInv == SpinTypeOK /\ WordMeansHeld /\ NoStaleReservation /\ MutualExclusion

(* The lock implements the atomic lock its callers reason with. *)
holder == IF \E c \in Cpu : pc[c] = "held"
            THEN CHOOSE c \in Cpu : pc[c] = "held"
            ELSE NoCpu

Atomic == INSTANCE AtomicLock

ImplementsAtomicLock == Atomic!Spec

(* The loop makes progress: while some CPU is in spin_lock(), again and    *)
(* again some CPU gets the lock, whatever reservations are lost.           *)
SomeoneGetsIn ==
  (\E c \in Cpu : pc[c] \in {"ldrex", "strex"})
    ~> (\E c \in Cpu : pc[c] = "held")

=============================================================================
