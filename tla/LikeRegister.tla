---------------------------- MODULE LikeRegister ----------------------------
(***************************************************************************)
(* What internal/data/like_repo.go promises of ToggleLike: each request    *)
(* takes effect at one instant, and its answer says whether it changed     *)
(* anything.  Likes implements it (Likes!Linearizable).                    *)
(***************************************************************************)
CONSTANTS Users, Requests

VARIABLES
  liked,   \* the people who like the target
  answer,  \* per request: "unknown" until it has taken effect
  owner,   \* per request: who sent it
  wanted   \* per request: the state asked for, settled before the effect

regVars == <<liked, answer, owner, wanted>>

Init ==
  /\ liked = {}
  /\ answer = [r \in Requests |-> "unknown"]
  /\ owner \in [Requests -> Users]
  /\ wanted = [r \in Requests |-> FALSE]

\* A request makes up its mind (an omitted "like" flips what it reads).
Want(r, w) ==
  /\ answer[r] = "unknown"
  /\ wanted' = [wanted EXCEPT ![r] = w]
  /\ UNCHANGED <<liked, answer, owner>>

\* The request takes effect, and is answered "yes" iff that changed anything.
Apply(r) ==
  /\ answer[r] = "unknown"
  /\ liked' = IF wanted[r] THEN liked \cup {owner[r]} ELSE liked \ {owner[r]}
  /\ answer' = [answer EXCEPT ![r] = IF liked' = liked THEN "no" ELSE "yes"]
  /\ UNCHANGED <<owner, wanted>>

Next == \E r \in Requests : Apply(r) \/ \E w \in BOOLEAN : Want(r, w)

Spec == Init /\ [][Next]_regVars
=============================================================================
