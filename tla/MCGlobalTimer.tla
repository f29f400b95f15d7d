---------------------------- MODULE MCGlobalTimer ----------------------------
(* GlobalTimer with registers of two bits and a counter that crosses their  *)
(* boundary several times.                                                 *)
EXTENDS GlobalTimer
=============================================================================
