------------------------------ MODULE MCOutbox ------------------------------
(***************************************************************************)
(* Outbox for TLC.  Dispatchers and slots are interchangeable; events are  *)
(* not, their numbers give the order in which a batch is published.        *)
(***************************************************************************)
EXTENDS Outbox, TLC

Symmetry == Permutations(Dispatchers) \cup Permutations(Workers)
=============================================================================
