--------------------------------- MODULE MCWeb ---------------------------------
(* An instance of WebClient for TLC.                                         *)
EXTENDS WebClient, TLC
=============================================================================
