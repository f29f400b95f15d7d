----------------------------- MODULE AtomicLock -----------------------------
(***************************************************************************)
(* What the users of a spin lock are promised: at any time at most one CPU *)
(* holds the lock, it is taken in one indivisible step while nobody holds  *)
(* it, and only its holder gives it back.  DataCopy uses its locks in this *)
(* abstract form; SpinLock shows that the ldrex/strex loop implements it.  *)
(***************************************************************************)
CONSTANTS
  Cpu,      \* the CPUs that may contend for the lock
  NoCpu     \* "nobody holds the lock", not a member of Cpu

VARIABLE holder

Init == holder = NoCpu

Acquire(c) == /\ holder = NoCpu
              /\ holder' = c

Release(c) == /\ holder = c
              /\ holder' = NoCpu

Next == \E c \in Cpu : Acquire(c) \/ Release(c)

Spec == Init /\ [][Next]_holder

=============================================================================
