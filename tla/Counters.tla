------------------------------ MODULE Counters ------------------------------
(***************************************************************************)
(* The four parts that keep a count or a flag beside the rows it is about, *)
(* side by side: likes, the unread badge, follows and presence.  They      *)
(* share no state, so one of them moves in each behaviour (scene) while    *)
(* the others stay where they began.                                       *)
(***************************************************************************)
EXTENDS Likes, Inbox, Follows, Presence

VARIABLE scene

Scenes == {"likes", "inbox", "follows", "presence"}
allVars == <<scene, vars, inboxVars, followVars, presenceVars>>

\* The workload of Likes is chosen in its initial states: once is enough elsewhere.
SideBySideInit ==
  /\ scene \in Scenes
  /\ Init /\ InboxInit /\ FollowsInit /\ PresenceInit
  /\ scene # "likes" =>
       /\ user = [r \in Requests |-> CHOOSE u \in Users : TRUE]
       /\ body = [r \in Requests |-> "like"]

SideBySideNext ==
  /\ UNCHANGED scene
  /\ \/ /\ scene = "likes" /\ Next
        /\ UNCHANGED <<inboxVars, followVars, presenceVars>>
     \/ /\ scene = "inbox" /\ InboxNext
        /\ UNCHANGED <<vars, followVars, presenceVars>>
     \/ /\ scene = "follows" /\ FollowsNext
        /\ UNCHANGED <<vars, inboxVars, presenceVars>>
     \/ /\ scene = "presence" /\ PresenceNext
        /\ UNCHANGED <<vars, inboxVars, followVars>>

SideBySide == SideBySideInit /\ [][SideBySideNext]_allVars

\* The type invariant of each of the four modules.
AllTypesOK == TypeOK /\ InboxTypeOK /\ FollowsTypeOK /\ PresenceTypeOK
=============================================================================
