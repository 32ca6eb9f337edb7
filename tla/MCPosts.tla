------------------------------ MODULE MCPosts ------------------------------
(* Posts on a small instance; see posts.cfg. *)
EXTENDS Posts, TLC

CONSTANTS p1, p2, r1, r2, alice, bob, north, south

TwoCells == <<north, south>>
ThreePlaces == {<<north, TRUE>>, <<north, FALSE>>, <<south, TRUE>>}

\* Requests that change nothing the viewer's lists read are not followed beside a
\* scroll: those about oneself, the mutes of others, and the undoing of what nobody
\* has asked for.
ReadByNobody ==
  {r \in Requests : \/ author[r] = target[r]
                    \/ kind[r] \in {"mute", "unmute"} /\ author[r] # Viewer
                    \/ kind[r] = "unblock" /\ ~Asked("block", author[r], target[r])
                    \/ kind[r] = "unmute" /\ ~Asked("mute", author[r], target[r])}

\* A scroll through the posts of an author reads neither places nor blocks and mutes.
ReadByUserList ==
  /\ \A p, q \in Ids : place[p] = place[q]
  /\ \A r \in Requests : kind[r] \in {None, "create", "delete"}

\* Nor is anything followed when a scroll has come to its end.
ScrollOrOthers ==
  \/ reader.at = "idle"
  \/ reader.at # "end" /\ ReadByNobody = {} /\ (reader.of = None \/ ReadByUserList)

Alike == Permutations(Old) \cup Permutations(Requests)
=============================================================================
