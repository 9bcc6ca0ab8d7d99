------------------------- MODULE MCSessionAggregate -------------------------
(* SessionAggregate with the small values TLC explores. *)
EXTENDS SessionAggregate, TLC

CONSTANTS c1, c2, c3

MCRequests == {c1, c2, c3}
MCSteps == {"goals"}
\* empty, ordinary, the longest allowed, one too long
MCContentLengths == {0, 1, 8000, 8001}

Symmetric == Permutations(MCRequests)
=============================================================================
