------------------------------ MODULE MCOutbox ------------------------------
(***************************************************************************)
(* A small instance of Outbox: two interchangeable workers.                *)
(***************************************************************************)
EXTENDS Outbox, TLC

Symmetry == Permutations(Workers)
=============================================================================
