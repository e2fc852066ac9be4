------------------------------- MODULE MCOutbox -------------------------------
(* Instances of RefundOutbox for TLC.                                       *)
EXTENDS RefundOutbox, TLC

Symmetry == Permutations(Purchase) \cup Permutations(Worker)
=============================================================================
