------------------------ MODULE MCDirectMessages ------------------------
(* DirectMessages on small instances; see the .cfg files. *)
EXTENDS DirectMessages, TLC

CONSTANTS r1, r2, r3, r4, alice, bob

Symmetry == Permutations(Requests) \cup Permutations(Participants)

Everything == AllKinds
Sending == {"create", "send", "deleteConv"}
=============================================================================
