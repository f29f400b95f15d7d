--------------------------- MODULE MCDriverModule ---------------------------
(* DriverModule with two processes and two loads, so that a load comes     *)
(* after one that has failed.                                              *)
EXTENDS DriverModule
=============================================================================
