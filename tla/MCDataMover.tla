---------------------------- MODULE MCDataMover ----------------------------
(* DataMover with transfers of two words and a registered multiplexer, for *)
(* TLC.                                                                    *)
EXTENDS DataMover
=============================================================================
