------------------------- MODULE MCSgdmaDispatcher -------------------------
(* SgdmaDispatcher for TLC: a write master alone with a response port and  *)
(* the whole control register, and a read and a write master without.      *)
EXTENDS SgdmaDispatcher
=============================================================================
