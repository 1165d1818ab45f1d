----------------------------- MODULE MCSeqGen3 ------------------------------
(* Two services: the first is released by the handler, the second only by   *)
(* the shutdown, as S4 and S1 are in the code.                              *)
EXTENDS SeqGen3
MCRate == <<2, 1>>
=============================================================================
