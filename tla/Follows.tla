------------------------------ MODULE Follows ------------------------------
(***************************************************************************)
(* Who follows one person: internal/data/follow_repo.go and                *)
(* internal/handlers/follow.go.                                            *)
(*                                                                         *)
(* A follow is a row in follows (key: the fan) and one in followers (key:  *)
(* the time of the follow, then the fan), written by one logged batch,     *)
(* whose parts arrive one by one, and two counters, moved by a second      *)
(* batch.  Following twice is not refused, and what an Unfollow removes it *)
(* has read before.                                                        *)
(***************************************************************************)
EXTENDS Integers, FiniteSets

CONSTANTS
  Fans,           \* those who may follow the person
  FollowCalls,    \* each is one HTTP request; a bound on the workload
  Nobody,         \* the absence of a row
  FollowFailures  \* TRUE: calls may fail and handlers may be cut short

ASSUME FollowsAssumption ==
  /\ IsFiniteSet(Fans) /\ Fans # {} /\ IsFiniteSet(FollowCalls)
  /\ Nobody \notin FollowCalls
  /\ FollowFailures \in BOOLEAN

VARIABLES
  follows,    \* a fan's row: the follow it is of (its created_at), or Nobody
  written,    \* the write time of that row or of its removal
  followers,  \* the follows with a row in followers
  buried,     \* the follows with a tombstone there
  onTheWay,   \* parts <<call, table>> of batches that have not arrived
  writeTime,  \* the write time of a request's batch, 0 before
  following,  \* following_count of each fan
  fanCount,   \* followers_count of the person
  stage,      \* where a request is
  fan,        \* who has sent it
  removes,    \* the follow an Unfollow has read, Nobody for a Follow
  follower,   \* history: fans whose last batch was a Follow
  repeated    \* history: fans who followed twice, or unfollowed twice, or whose
              \* counters failed

relation == <<follows, written, followers, buried>>
tallies == <<following, fanCount>>
followVars == <<relation, onTheWay, writeTime, tallies, stage, fan, removes,
                follower, repeated>>

BothTables == {"follows", "followers"}

FollowsTypeOK ==
  /\ follows \in [Fans -> FollowCalls \cup {Nobody}]
  /\ written \in [Fans -> Nat] /\ writeTime \in [FollowCalls -> Nat]
  /\ followers \subseteq FollowCalls /\ buried \subseteq FollowCalls
  /\ onTheWay \subseteq FollowCalls \X BothTables
  /\ following \in [Fans -> Int] /\ fanCount \in Int
  /\ stage \in [FollowCalls -> {"new", "remove", "raise", "lower", "done"}]
  /\ fan \in [FollowCalls -> Fans]
  /\ removes \in [FollowCalls -> FollowCalls \cup {Nobody}]
  /\ follower \subseteq Fans /\ repeated \subseteq Fans

FollowsInit ==
  /\ follows = [f \in Fans |-> Nobody] /\ written = [f \in Fans |-> 0]
  /\ followers = {} /\ buried = {} /\ onTheWay = {}
  /\ writeTime = [c \in FollowCalls |-> 0]
  /\ following = [f \in Fans |-> 0] /\ fanCount = 0
  /\ stage = [c \in FollowCalls |-> "new"]
  /\ fan = [c \in FollowCalls |-> CHOOSE f \in Fans : TRUE]
  /\ removes = [c \in FollowCalls |-> Nobody]
  /\ follower = {} /\ repeated = {}

-----------------------------------------------------------------------------

Advance(c, next) == stage' = [stage EXCEPT ![c] = next]

\* ExecuteBatch of a logged batch: it is in the batch log, its parts follow.
SendBatch(c) ==
  /\ writeTime' =
       [writeTime EXCEPT ![c] = 1 + Cardinality({d \in FollowCalls : writeTime[d] > 0})]
  /\ onTheWay' = onTheWay \cup ({c} \X BothTables)

\* The batch does, for the fan, what the last one did: the counters will be off.
Repeats(f, again) == repeated' = IF again THEN repeated \cup {f} ELSE repeated

\* Follow: the batch at once, whether or not the relationship exists.
Follow(c, f) ==
  /\ stage[c] = "new"
  /\ fan' = [fan EXCEPT ![c] = f]
  /\ SendBatch(c)
  /\ follower' = follower \cup {f}
  /\ Repeats(f, f \in follower)
  /\ Advance(c, "raise")
  /\ UNCHANGED <<relation, tallies, removes>>

\* Unfollow: SELECT created_at, the key of the row in followers.
FindFollow(c, f) ==
  /\ stage[c] = "new"
  /\ fan' = [fan EXCEPT ![c] = f]
  /\ removes' = [removes EXCEPT ![c] = follows[f]]
  /\ Advance(c, IF follows[f] = Nobody THEN "done" ELSE "remove")
  /\ UNCHANGED <<relation, onTheWay, writeTime, tallies, follower, repeated>>

RemoveFollow(c) ==
  /\ stage[c] = "remove"
  /\ SendBatch(c)
  /\ follower' = follower \ {fan[c]}
  /\ Repeats(fan[c], fan[c] \notin follower)
  /\ Advance(c, "lower")
  /\ UNCHANGED <<relation, tallies, fan, removes>>

\* Mutant of ArriveFollows: the part that removes the row does not look at times.
ArriveFollowsUnordered(c) ==
  /\ <<c, "follows">> \in onTheWay
  /\ onTheWay' = onTheWay \ {<<c, "follows">>}
  /\ follows' = [follows EXCEPT ![fan[c]] = IF removes[c] = Nobody THEN c ELSE Nobody]
  /\ written' = [written EXCEPT ![fan[c]] = writeTime[c]]
  /\ UNCHANGED <<followers, buried, writeTime, tallies, stage, fan, removes,
                 follower, repeated>>

\* The part for follows: one row per fan, the latest write stands.
ArriveFollows(c) ==
  /\ <<c, "follows">> \in onTheWay
  /\ onTheWay' = onTheWay \ {<<c, "follows">>}
  /\ IF writeTime[c] < written[fan[c]] THEN UNCHANGED <<follows, written>>
     ELSE /\ follows' =
               [follows EXCEPT ![fan[c]] = IF removes[c] = Nobody THEN c ELSE Nobody]
          /\ written' = [written EXCEPT ![fan[c]] = writeTime[c]]
  /\ UNCHANGED <<followers, buried, writeTime, tallies, stage, fan, removes,
                 follower, repeated>>

\* The part for followers: each follow has a row of its own, and the tombstone of
\* a row is later than the row, whichever arrives first.
ArriveFollowers(c) ==
  /\ <<c, "followers">> \in onTheWay
  /\ onTheWay' = onTheWay \ {<<c, "followers">>}
  /\ IF removes[c] = Nobody
       THEN followers' = followers \cup ({c} \ buried) /\ UNCHANGED buried
       ELSE /\ followers' = followers \ {removes[c]}
            /\ buried' = buried \cup {removes[c]}
  /\ UNCHANGED <<follows, written, writeTime, tallies, stage, fan, removes,
                 follower, repeated>>

Moved(c) == CASE stage[c] = "raise" -> 1 [] stage[c] = "lower" -> -1

\* The counter batch.
MoveCounts(c) ==
  /\ stage[c] \in {"raise", "lower"}
  /\ following' = [following EXCEPT ![fan[c]] = @ + Moved(c)]
  /\ fanCount' = fanCount + Moved(c)
  /\ Advance(c, "done")
  /\ UNCHANGED <<relation, onTheWay, writeTime, fan, removes, follower, repeated>>

\* Its error is printed and dropped; either counter may have been moved.
MoveCountsFails(c) ==
  /\ FollowFailures
  /\ stage[c] \in {"raise", "lower"}
  /\ following' \in {following, [following EXCEPT ![fan[c]] = @ + Moved(c)]}
  /\ fanCount' \in {fanCount, fanCount + Moved(c)}
  /\ repeated' = repeated \cup {fan[c]}
  /\ Advance(c, "done")
  /\ UNCHANGED <<relation, onTheWay, writeTime, fan, removes, follower>>

\* ExecuteBatch returns an error, or the handler ends with it: the batch is logged
\* all the same, or not at all, and the counters are not moved.
BatchFails(c, f) ==
  /\ FollowFailures
  /\ \/ stage[c] = "new" /\ fan' = [fan EXCEPT ![c] = f]
        /\ follower' = follower \cup {f}
     \/ stage[c] = "remove" /\ f = fan[c] /\ UNCHANGED fan
        /\ follower' = follower \ {f}
  /\ SendBatch(c) \/ UNCHANGED <<writeTime, onTheWay>>
  /\ Repeats(f, TRUE)
  /\ Advance(c, "done")
  /\ UNCHANGED <<relation, tallies, removes>>

FollowsNext ==
  \E c \in FollowCalls :
    \/ \E f \in Fans : Follow(c, f) \/ FindFollow(c, f) \/ BatchFails(c, f)
    \/ RemoveFollow(c) \/ ArriveFollows(c) \/ ArriveFollowers(c)
    \/ MoveCounts(c) \/ MoveCountsFails(c)

FollowsSpec == FollowsInit /\ [][FollowsNext]_followVars

-----------------------------------------------------------------------------
(* Properties.                                                             *)

\* IsFollowing.
IsFollowing(f) == follows[f] # Nobody
Settled == onTheWay = {} /\ \A c \in FollowCalls : stage[c] \in {"new", "done"}

\* Once the batches have arrived, whoever follows is listed among the followers,
\* under the time that Unfollow will ask for: however follows and unfollows of one
\* fan overlap, and whatever has failed, the later batch decides in both tables.
\* (The converse fails: a follow that is repeated leaves a row in followers that
\* no Unfollow finds.)
FollowersListed ==
  onTheWay = {} => \A f \in Fans : IsFollowing(f) => follows[f] \in followers

\* GetFollowCounts: with nothing under way, the counts of a fan who follows and
\* unfollows in turn are exact, and so is the person's when all fans are such.
\* Repetitions count again, and failures are not made up for.
FollowCountsExact ==
  Settled =>
    /\ \A f \in Fans \ repeated : following[f] = IF IsFollowing(f) THEN 1 ELSE 0
    /\ repeated = {} => fanCount = Cardinality({f \in Fans : IsFollowing(f)})

FollowTablesAgree == FollowersListed /\ FollowCountsExact
=============================================================================
