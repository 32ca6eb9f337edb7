---------------------------- MODULE MCComments ----------------------------
(* Comments on small instances; see the .cfg files. *)
EXTENDS Comments, TLC

CONSTANTS r1, r2, r3, ann

Symmetry == Permutations(Requests)

\* A scroll reads no counter and a counter no list: a behaviour has a scroll or has
\* faults of the counters.
ScrollOrCounterFaults ==
  \/ reader.at = "idle"
  \/ \A p \in Posts : counts[p] = 0 /\ redis[p] = Cardinality({r \in Requests :
       kind[r] = "comment" /\ post[r] = p /\ pc[r] = "done"})
=============================================================================
