------------------------------- MODULE MCServer -------------------------------
(* Instances of BookingServer for TLC.  A tick is a fifth of the grace      *)
(* period; the word sizes are scaled so that both conversions can overflow. *)
EXTENDS BookingServer, TLC

Defaults == [ttl |-> 3, pool |-> 2, timeout |-> 2, batch |-> 1, retries |-> 1]

Unset == [ttl |-> {}, pool |-> {}, timeout |-> {}, batch |-> {}, retries |-> {}]

\* All defaults; a pool of one (by overflow) with many retries; a deadline as
\* long as the grace period; a value Validate refuses.
Environments == {Unset,
                 [Unset EXCEPT !.pool = {17}, !.retries = {3}],
                 [Unset EXCEPT !.timeout = {3}, !.retries = {0}],
                 [Unset EXCEPT !.pool = {8}]}
=============================================================================
