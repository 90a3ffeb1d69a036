------------------------------- MODULE MCDeals -------------------------------
(***************************************************************************)
(* Small instances of Deals for TLC.  One pipeline of three stages, whose  *)
(* middle stage requires one field and whose won-stage requires another.   *)
(***************************************************************************)
EXTENDS Deals, TLC

CONSTANTS lead, visit, won, course, payment

MCRequired == (lead :> {}) @@ (visit :> {course} \cap Keys) @@ (won :> {payment} \cap Keys)

\* Connections are interchangeable, and so are deal and cycle ids: no definition names one.
Symmetry == Permutations(Workers) \cup Permutations(Deals) \cup Permutations(Cycles)
=============================================================================
