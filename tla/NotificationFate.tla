-------------------------- MODULE NotificationFate --------------------------
(***************************************************************************)
(* What the persister promises of a notification event, however often its  *)
(* message is delivered and to how many processes: it is suppressed by a   *)
(* block or saved, and not both; what was saved is published to the open   *)
(* streams at most once, and then handed to the push dispatcher at most    *)
(* once.  Persister implements it (Persister!OneFate).                     *)
(***************************************************************************)
EXTENDS Naturals

CONSTANT Events

VARIABLES
  suppressed,  \* events that a block has kept out
  rows,        \* per event: rows in the inbox
  live,        \* per event: messages to the open streams
  pushJobs,    \* per event: jobs of the push dispatcher
  waived       \* events nothing is promised of any more: their claim was lost

fateVars == <<suppressed, rows, live, pushJobs, waived>>

Init ==
  /\ suppressed = {} /\ waived = {}
  /\ rows = [e \in Events |-> 0]
  /\ live = [e \in Events |-> 0]
  /\ pushJobs = [e \in Events |-> 0]

Open(e) == e \notin waived \cup suppressed /\ rows[e] = 0

Suppress(e) ==
  /\ Open(e)
  /\ suppressed' = suppressed \cup {e}
  /\ UNCHANGED <<rows, live, pushJobs, waived>>

Save(e) ==
  /\ Open(e)
  /\ rows' = [rows EXCEPT ![e] = 1]
  /\ UNCHANGED <<suppressed, live, pushJobs, waived>>

\* A live message comes before the push, or not at all.
Publish(e) ==
  /\ e \notin waived /\ rows[e] = 1 /\ live[e] = 0 /\ pushJobs[e] = 0
  /\ live' = [live EXCEPT ![e] = 1]
  /\ UNCHANGED <<suppressed, rows, pushJobs, waived>>

QueuePush(e) ==
  /\ e \notin waived /\ rows[e] = 1 /\ pushJobs[e] = 0
  /\ pushJobs' = [pushJobs EXCEPT ![e] = 1]
  /\ UNCHANGED <<suppressed, rows, live, waived>>

\* The events waived are no longer counted.
Waive(e) ==
  /\ waived' = waived \cup {e}
  /\ suppressed' = suppressed \ {e}
  /\ rows' = [rows EXCEPT ![e] = 0]
  /\ live' = [live EXCEPT ![e] = 0]
  /\ pushJobs' = [pushJobs EXCEPT ![e] = 0]

Next ==
  \E e \in Events : Suppress(e) \/ Save(e) \/ Publish(e) \/ QueuePush(e) \/ Waive(e)

Spec == Init /\ [][Next]_fateVars
=============================================================================
