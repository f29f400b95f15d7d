----------------------------- MODULE MCSgdmaApp -----------------------------
(* SgdmaApp with more buffers than descriptors fit into the dispatcher, and *)
(* three tests.                                                              *)
EXTENDS SgdmaApp
=============================================================================
