----------------------------- MODULE MCDataCopy -----------------------------
(* DataCopy for TLC.  MaxWords = 4 gives the request sizes 0, 1, 2 and 4:   *)
(* an empty request, two partial buffers and a full one.                   *)
EXTENDS DataCopy
=============================================================================
