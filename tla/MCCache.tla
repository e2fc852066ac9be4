------------------------------- MODULE MCCache -------------------------------
(* Instances of SeatCache for TLC.                                          *)
EXTENDS SeatCache, TLC
=============================================================================
