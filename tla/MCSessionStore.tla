--------------------------- MODULE MCSessionStore ---------------------------
(* SessionStore with the small values TLC explores. *)
EXTENDS SessionStore, TLC

CONSTANTS r1, r2, r3, r4

Three == {r1, r2, r3}
Four == {r1, r2, r3, r4}
NoSteps == {}

AllOperations == Operation
Conversing == {"start", "get", "message"}
AllFaults == FaultKind
NoFaults == {}
Evictions == {"evict", "corrupt"}
AllButRedis == FaultKind \ {"redis"}
AllButLostCommit == FaultKind \ {"commit", "crash"}
RedisOnly == {"redis"}
CommitOnly == {"commit"}

Ordinary == {1}
ShortAndLongest == {1, 8000}
Boundary == {1, 7979, 7980, 8000}
Detour == {"abandoned", "awaiting_confirmation"}
ToTheEnd == {"awaiting_confirmation", "submitted", "failed"}

SymmetricFour == Permutations(Four)
=============================================================================
