------------------------------ MODULE Delivery ------------------------------
(***************************************************************************)
(* Three parts that bring a change to somebody else: direct messages, the  *)
(* fan-out of a post and the search index.                                 *)
(*                                                                         *)
(* They share no state (the last two are handlers of different topics, in  *)
(* the same loop), so one of them moves in each behaviour (scene), and the *)
(* others stay where they began.                                           *)
(***************************************************************************)
EXTENDS DirectMessages, NearbyFanout, SearchIndex

VARIABLE scene

\* What is chosen in the initial states of a part is chosen in its scene alone.
SideBySideInit ==
  /\ scene \in {"messages", "fanout", "search"}
  /\ Init /\ FanoutInit /\ IndexInit
  /\ scene # "messages" =>
       /\ user = [r \in Requests |-> CHOOSE p \in Participants : TRUE]
       /\ kind = [r \in Requests |-> "send"]
  /\ scene # "fanout" => subscribed = {}
  /\ scene # "search" => ~isPost

fanoutOnly == <<subscribed, moves, jobLog, posted, handling, told, handled, lost,
                promised>>
indexOnly == <<entity, topic, copies, works, backfill, searching, lapses>>
allVars == <<scene, vars, groupVars, fanoutOnly, indexOnly>>

SideBySideNext ==
  /\ UNCHANGED scene
  /\ \/ /\ scene = "messages" /\ Next
        /\ UNCHANGED <<groupVars, fanoutOnly, indexOnly>>
     \/ /\ scene = "fanout" /\ FanoutNext
        /\ UNCHANGED <<vars, indexOnly>>
     \/ /\ scene = "search" /\ IndexNext
        /\ UNCHANGED <<vars, fanoutOnly>>

SideBySide == SideBySideInit /\ [][SideBySideNext]_allVars

\* The type invariant of each of the three, where its scene is on: a handler that is
\* idle in one has the message of the other.
AllTypesOK ==
  /\ TypeOK
  /\ scene = "fanout" => FanoutTypeOK
  /\ scene = "search" => IndexTypeOK
=============================================================================
