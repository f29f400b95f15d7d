----------------------------- MODULE MCIrqModule -----------------------------
(* IrqModule with two readers that compete for the interrupts, or with one  *)
(* reader, and with resets at any time.                                     *)
EXTENDS IrqModule
=============================================================================
