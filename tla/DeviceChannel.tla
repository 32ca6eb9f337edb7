---------------------------- MODULE DeviceChannel ----------------------------
(***************************************************************************)
(* What the two push topics and their handlers promise together: a channel *)
(* to each device that may lose and delay, but delivers only what was      *)
(* produced, and that once.  A delivery is a send that the push service    *)
(* acknowledges.  PushDelivery implements it (PushDelivery!OnceToDevice).  *)
(***************************************************************************)
EXTENDS Naturals

CONSTANTS Events, Tokens

VARIABLES
  produced,   \* events the persister has produced a job for
  delivered,  \* how many sends were acknowledged, by <<event, token>>
  waived      \* <<event, token>> nothing is promised of: its lock was lost

channelVars == <<produced, delivered, waived>>

Init ==
  /\ produced = {} /\ waived = {}
  /\ delivered = [p \in Events \X Tokens |-> 0]

Produce(e) ==
  /\ produced' = produced \cup {e}
  /\ UNCHANGED <<delivered, waived>>

Deliver(e, t) ==
  /\ e \in produced /\ <<e, t>> \notin waived /\ delivered[<<e, t>>] = 0
  /\ delivered' = [delivered EXCEPT ![<<e, t>>] = 1]
  /\ UNCHANGED <<produced, waived>>

\* The deliveries waived are no longer counted.
Waive(e, t) ==
  /\ waived' = waived \cup {<<e, t>>}
  /\ delivered' = [delivered EXCEPT ![<<e, t>>] = 0]
  /\ UNCHANGED produced

Next ==
  \/ \E e \in Events : Produce(e)
  \/ \E e \in Events, t \in Tokens : Deliver(e, t) \/ Waive(e, t)

Spec == Init /\ [][Next]_channelVars
=============================================================================
