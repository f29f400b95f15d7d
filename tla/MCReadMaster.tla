---------------------------- MODULE MCReadMaster ----------------------------
(***************************************************************************)
(* The read master with a FIFO of four bursts of two words: transfers that *)
(* fill it, that end within a word and that start within a burst.          *)
(***************************************************************************)
EXTENDS ReadMaster
=============================================================================
