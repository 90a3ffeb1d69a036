------------------------------ MODULE MCBoard --------------------------------
(***************************************************************************)
(* A small board for TLC: one stage without a gate, one that requires all  *)
(* fields, and the won stage.                                              *)
(***************************************************************************)
EXTENDS Board, TLC

CONSTANTS d1, d2

MCRequired == [s \in Stages |-> IF s = "gated" THEN Fields ELSE {}]
=============================================================================
