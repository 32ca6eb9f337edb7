----------------------------- MODULE MCDelivery -----------------------------
(* Delivery on a small instance; see delivery.cfg. *)
EXTENDS Delivery, TLC

CONSTANTS r1, r2, r3, alice, bob, ann, ben, c1, c2, j1

Everything == AllKinds
AllFanoutFaults == FanoutFaultKinds
AllIndexFaults == IndexFaultKinds

\* The two participants are also the two saves of the search scene.
Symmetry ==
  Permutations(Requests) \cup Permutations(Participants) \cup Permutations(Consumers)
=============================================================================
