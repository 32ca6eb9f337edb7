----------------------------- MODULE MCCounters -----------------------------
(* Counters on a small instance; see counters.cfg. *)
EXTENDS Counters, TLC

CONSTANTS r1, r2, r3, alice, bob, n1, n2, d1, d2, f1, f2, s1, s2

AllInboxFaults == InboxFaultKinds

\* The requests of Likes are also the calls of Follows.
Symmetry ==
  Permutations(Requests) \cup Permutations(Notifications) \cup Permutations(Devices)

\* In Inbox: requests and handlers under way, and rows that have lapsed.
ThreeAtOnce ==
  Cardinality({k \in Callers : ~On(k, "idle")}) + Cardinality(arriving) + Cardinality(lapsed) <= 3
=============================================================================
