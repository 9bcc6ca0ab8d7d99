---------------------------- MODULE MCApplication ----------------------------
(* Application with the small values TLC explores. *)
EXTENDS Application

CONSTANTS r1, r2, r3

Three == {r1, r2, r3}
=============================================================================
