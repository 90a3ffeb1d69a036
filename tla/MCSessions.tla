----------------------------- MODULE MCSessions ------------------------------
(***************************************************************************)
(* Small instances of Sessions for TLC: one tab with two calls, so that    *)
(* they share a refresh, and one with a single call.                       *)
(***************************************************************************)
EXTENDS Sessions, TLC

CONSTANTS t1, t2, c1, c2, c3

MCTabOf == [c \in Calls |-> IF c = c3 THEN t2 ELSE t1]
=============================================================================
