----------------------------- MODULE MCSpinLock -----------------------------
(* SpinLock for TLC: three CPUs, one more than the two cores of the SoC,   *)
(* so that a CPU can be overtaken while two others pass the lock on.       *)
EXTENDS SpinLock
=============================================================================
