------------------------------ MODULE MCLikes ------------------------------
(* Likes on small instances; see the .cfg files. *)
EXTENDS Likes, TLC

CONSTANTS r1, r2, r3, r4, alice, bob

RequestSymmetry == Permutations(Requests)

AllFaults == FaultKinds
NoFaults == {}
=============================================================================
