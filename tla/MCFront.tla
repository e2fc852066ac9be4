-------------------------------- MODULE MCFront --------------------------------
(* Instances of HttpFront for TLC.                                           *)
EXTENDS HttpFront, TLC

Part == [coding : {"gzip", "*", "br"}, q : 0..1]

\* No header, and every header of one or two parts.
Headers == {<< >>} \cup {<<p>> : p \in Part} \cup {<<p, q>> : p, q \in Part}

\* A client without a copy, with one of a version, or that has any.
Tag == [weak : BOOLEAN, of : Version \cup {"*"}]
Validators == {<< >>} \cup {<<t>> : t \in Tag}

Symmetry == Permutations(Req) \cup Permutations(Limiter) \cup Permutations(Writer)
=============================================================================
