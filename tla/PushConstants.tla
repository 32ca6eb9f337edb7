---------------------------- MODULE PushConstants ----------------------------
(***************************************************************************)
(* What the push topics are given, alone (PushDelivery) or with the        *)
(* persister before them (Pipeline).                                       *)
(***************************************************************************)
EXTENDS Naturals

CONSTANTS
  Tokens,           \* the user's devices
  PushConsumers,    \* the API processes, as readers of the push topics
  MaxRetries,       \* 3 in the code
  PushDisruptions,  \* bound on crashes and rebalances, of both topics
  MaxLog,           \* bound on a topic for a batch to be written twice
  PushFaults        \* the faults of the environment, a subset of PushFaultKinds

PushFaultKinds == {"dup", "lose", "redis", "expire", "fcm", "crash", "rebalance", "commit"}

ASSUME PushAssumption ==
  /\ Tokens # {} /\ PushConsumers # {}
  /\ MaxRetries \in Nat /\ PushDisruptions \in Nat /\ MaxLog \in Nat
  /\ PushFaults \subseteq PushFaultKinds
=============================================================================
