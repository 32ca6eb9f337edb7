------------------------------- MODULE Likes -------------------------------
(***************************************************************************)
(* The likes of one target (a post or a comment):                          *)
(* internal/data/like_repo.go, internal/cache/like_counter.go and the      *)
(* handlers of internal/handlers/like.go.                                  *)
(*                                                                         *)
(* A request is a handler goroutine.  It decides against like_state, a     *)
(* Cassandra table it changes with lightweight transactions, then moves    *)
(* the Redis counter, then starts goroutines that mirror the change into   *)
(* likes and likes_by_user.  Nothing ties the three stores together, and   *)
(* any of the calls may fail, time out or be cut short by a crash.         *)
(*                                                                         *)
(* Targets do not interact (every key and partition holds one target), so  *)
(* the module follows a single one.                                        *)
(***************************************************************************)
EXTENDS Integers, FiniteSets

CONSTANTS
  Users,      \* people who send requests
  Owner,      \* the author of the target: liking one's own post is silent
  Requests,   \* each is one HTTP request; a bound on the workload
  Faults,     \* the faults of the environment, a subset of FaultKinds
  Serial,     \* TRUE: a user waits for an answer before the next request
  HasRedis    \* FALSE: the server started without Redis (likeCounter = nil)

FaultKinds == {"redis", "flush", "cassandra", "stale", "crash"}

ASSUME LikesAssumption ==
  /\ IsFiniteSet(Users) /\ IsFiniteSet(Requests)
  /\ Faults \subseteq FaultKinds
  /\ Serial \in BOOLEAN /\ HasRedis \in BOOLEAN

VARIABLES
  likeState,  \* users with a row in like_state
  replica,    \* the rows a lagging replica would answer with at level ONE
  counter,    \* the Redis counter; a missing key reads as 0 everywhere
  likes,      \* users with a row in the legacy table likes
  byUser,     \* users with a row for this target in likes_by_user
  pc,         \* where the goroutine of a request is
  user,       \* who sent the request
  body,       \* which operation was asked for
  want,       \* the wantLiked argument of ToggleLike
  changed,    \* ToggleLikeResult.Changed, "unknown" until it is decided
  mirrors,    \* the mirroring goroutines a request has started, not yet run
  sync,       \* the SyncCounterFromCassandra goroutine of a request
  syncVal,    \* the count that goroutine has read
  dispatched  \* requests that handed a like event to the dispatcher

store == <<likeState, replica, counter, likes, byUser>>
vars == <<likeState, replica, counter, likes, byUser, pc, user, body, want,
          changed, mirrors, sync, syncVal, dispatched>>

Bodies == {"like", "unlike", "toggle", "legacyLike"}
Mirrors == {"likes", "byUser"}
Active == {"resolve", "add", "select", "del", "incr", "decr"}

TypeOK ==
  /\ likeState \subseteq Users /\ replica \subseteq Users
  /\ likes \subseteq Users /\ byUser \subseteq Users
  /\ counter \in Nat
  /\ pc \in [Requests -> {"idle", "done", "failed"} \cup Active]
  /\ user \in [Requests -> Users]
  /\ body \in [Requests -> Bodies]
  /\ want \in [Requests -> BOOLEAN]
  /\ changed \in [Requests -> {"unknown", "yes", "no"}]
  /\ mirrors \in [Requests -> SUBSET Mirrors]
  /\ sync \in [Requests -> {"none", "count", "set"}]
  /\ syncVal \in [Requests -> Nat]
  /\ dispatched \subseteq Requests

Init ==
  /\ likeState = {} /\ replica = {} /\ counter = 0 /\ likes = {} /\ byUser = {}
  /\ pc = [r \in Requests |-> "idle"]
  /\ user \in [Requests -> Users]
  /\ body \in [Requests -> Bodies]
  /\ want = [r \in Requests |-> FALSE]
  /\ changed = [r \in Requests |-> "unknown"]
  /\ mirrors = [r \in Requests |-> {}]
  /\ sync = [r \in Requests |-> "none"]
  /\ syncVal = [r \in Requests |-> 0]
  /\ dispatched = {}

-----------------------------------------------------------------------------
(* The request.                                                            *)

Goto(r, label) == pc' = [pc EXCEPT ![r] = label]

\* ToggleLike: a wanted like goes to tryAddLike, the other to tryRemoveLike.
ToggleLike(r, w) ==
  /\ want' = [want EXCEPT ![r] = w]
  /\ Goto(r, IF w THEN "add" ELSE "select")

\* The answer of a point read of the user's row: HasUserLiked and the SELECT of
\* tryRemoveLike ask one replica, which may lag behind the transactions.
RowReads(u) ==
  {u \in likeState} \cup (IF "stale" \in Faults THEN {u \in replica} ELSE {})

\* A handler binds its body; "like" present is used as it is, absent is read.
Receive(r) ==
  /\ pc[r] = "idle"
  /\ Serial => \A q \in Requests : pc[q] \in Active => user[q] # user[r]
  /\ IF body[r] = "toggle"
       THEN Goto(r, "resolve") /\ UNCHANGED want
       ELSE ToggleLike(r, body[r] # "unlike")
  /\ UNCHANGED <<store, user, body, changed, mirrors, sync, syncVal, dispatched>>

\* resolveWantLiked without an explicit "like": flip what the read answers.
ResolveWantLiked(r) ==
  /\ pc[r] = "resolve"
  /\ \E liked \in RowReads(user[r]) : ToggleLike(r, ~liked)
  /\ UNCHANGED <<store, user, body, changed, mirrors, sync, syncVal, dispatched>>

\* Mutant of Finish: the goroutines start whether or not anything changed.
FinishAlways(r, did) ==
  /\ Goto(r, "done")
  /\ mirrors' = [mirrors EXCEPT ![r] = Mirrors]
  /\ dispatched' =
       IF want[r] /\ user[r] # Owner THEN dispatched \cup {r} ELSE dispatched

\* What follows the counter call: two mirroring goroutines, and the event of a
\* like on somebody else's target (the legacy endpoint sends none).
Finish(r, did) ==
  /\ Goto(r, "done")
  /\ mirrors' = [mirrors EXCEPT ![r] = IF did THEN Mirrors ELSE {}]
  /\ dispatched' =
       IF did /\ want[r] /\ user[r] # Owner /\ body[r] # "legacyLike"
         THEN dispatched \cup {r} ELSE dispatched

\* The outcome of a lightweight transaction (or of a read that made it
\* needless): an applied one moves on to the counter when there is Redis.
Decided(r, applied, next) ==
  /\ changed' = [changed EXCEPT ![r] = IF applied THEN "yes" ELSE "no"]
  /\ IF applied /\ HasRedis
       THEN Goto(r, next) /\ UNCHANGED <<mirrors, dispatched>>
       ELSE Finish(r, applied)

\* Mutant of TryAddLike: an insert without IF NOT EXISTS always succeeds.
PlainInsert(r) ==
  /\ pc[r] = "add"
  /\ likeState' = likeState \cup {user[r]}
  /\ Decided(r, TRUE, "incr")
  /\ UNCHANGED <<replica, counter, likes, byUser, user, body, want, sync, syncVal>>

\* INSERT INTO like_state ... IF NOT EXISTS.
TryAddLike(r) ==
  /\ pc[r] = "add"
  /\ likeState' = likeState \cup {user[r]}
  /\ Decided(r, user[r] \notin likeState, "incr")
  /\ UNCHANGED <<replica, counter, likes, byUser, user, body, want, sync, syncVal>>

\* The SELECT before the delete: no row, no change.
SelectLike(r) ==
  /\ pc[r] = "select"
  /\ \E exists \in RowReads(user[r]) :
       IF exists
         THEN Goto(r, "del") /\ UNCHANGED <<changed, mirrors, dispatched>>
         ELSE Decided(r, FALSE, "decr")
  /\ UNCHANGED <<store, user, body, want, sync, syncVal>>

\* Mutant of TryRemoveLike: a delete without IF EXISTS always succeeds.
PlainDelete(r) ==
  /\ pc[r] = "del"
  /\ likeState' = likeState \ {user[r]}
  /\ Decided(r, TRUE, "decr")
  /\ UNCHANGED <<replica, counter, likes, byUser, user, body, want, sync, syncVal>>

\* DELETE FROM like_state ... IF EXISTS.
TryRemoveLike(r) ==
  /\ pc[r] = "del"
  /\ likeState' = likeState \ {user[r]}
  /\ Decided(r, user[r] \in likeState, "decr")
  /\ UNCHANGED <<replica, counter, likes, byUser, user, body, want, sync, syncVal>>

\* Mutant of Decremented: a bare DECR.
BareDecr(n) == n - 1

\* The Lua script of DecrementLikeCount: never below zero.
Decremented(n) == IF n <= 0 THEN 0 ELSE n - 1

IncrementLikeCount(r) ==
  /\ pc[r] = "incr"
  /\ counter' = counter + 1
  /\ Finish(r, TRUE)
  /\ UNCHANGED <<likeState, replica, likes, byUser, user, body, want, changed,
                 sync, syncVal>>

DecrementLikeCount(r) ==
  /\ pc[r] = "decr"
  /\ counter' = Decremented(counter)
  /\ Finish(r, TRUE)
  /\ UNCHANGED <<likeState, replica, likes, byUser, user, body, want, changed,
                 sync, syncVal>>

\* The Redis call returns an error, having taken effect or not: the handler
\* starts SyncCounterFromCassandra and answers with a count from Cassandra.
CounterCallFails(r) ==
  /\ "redis" \in Faults
  /\ \/ pc[r] = "incr" /\ counter' \in {counter, counter + 1}
     \/ pc[r] = "decr" /\ counter' \in {counter, Decremented(counter)}
  /\ sync' = [sync EXCEPT ![r] = "count"]
  /\ Finish(r, TRUE)
  /\ UNCHANGED <<likeState, replica, likes, byUser, user, body, want, changed,
                 syncVal>>

\* A Cassandra call returns an error (the 10 second deadline among them): the
\* handler answers 500, and a transaction may or may not have been applied.
CassandraCallFails(r) ==
  /\ "cassandra" \in Faults
  /\ pc[r] \in {"resolve", "add", "select", "del"}
  /\ Goto(r, "failed")
  /\ \/ UNCHANGED likeState
     \/ pc[r] = "add" /\ likeState' = likeState \cup {user[r]}
     \/ pc[r] = "del" /\ likeState' = likeState \ {user[r]}
  /\ UNCHANGED <<replica, counter, likes, byUser, user, body, want, changed,
                 mirrors, sync, syncVal, dispatched>>

\* The process ends: whatever the request had still to do is not done.
Crash(r) ==
  /\ "crash" \in Faults
  /\ pc[r] \in Active
  /\ Goto(r, "failed")
  /\ UNCHANGED <<store, user, body, want, changed, mirrors, sync, syncVal,
                 dispatched>>

-----------------------------------------------------------------------------
(* The goroutines a request leaves behind, and the stores.                 *)

\* insertLegacyLike / deleteLegacyLike and insertLikeByUser / deleteLikeByUser.
\* The last one restricts target_type, which is not in the primary key of
\* likes_by_user: Cassandra refuses the statement and the error is dropped.
Mirror(r, m) ==
  /\ m \in mirrors[r]
  /\ mirrors' = [mirrors EXCEPT ![r] = @ \ {m}]
  /\ likes' = IF m # "likes" THEN likes
              ELSE IF want[r] THEN likes \cup {user[r]} ELSE likes \ {user[r]}
  /\ byUser' = IF m = "byUser" /\ want[r] THEN byUser \cup {user[r]} ELSE byUser
  /\ UNCHANGED <<likeState, replica, counter, pc, user, body, want, changed,
                 sync, syncVal, dispatched>>

\* Its error is ignored, and it does not survive the process.
MirrorLost(r, m) ==
  /\ Faults \cap {"cassandra", "crash"} # {}
  /\ m \in mirrors[r]
  /\ mirrors' = [mirrors EXCEPT ![r] = @ \ {m}]
  /\ UNCHANGED <<store, pc, user, body, want, changed, sync, syncVal, dispatched>>

\* SyncCounterFromCassandra: SELECT COUNT(*), then SET.
SyncCount(r) ==
  /\ sync[r] = "count"
  /\ syncVal' = [syncVal EXCEPT ![r] = Cardinality(likeState)]
  /\ sync' = [sync EXCEPT ![r] = "set"]
  /\ UNCHANGED <<store, pc, user, body, want, changed, mirrors, dispatched>>

SyncSet(r) ==
  /\ sync[r] = "set"
  /\ counter' = syncVal[r]
  /\ sync' = [sync EXCEPT ![r] = "none"]
  /\ syncVal' = [syncVal EXCEPT ![r] = 0]
  /\ UNCHANGED <<likeState, replica, likes, byUser, pc, user, body, want,
                 changed, mirrors, dispatched>>

\* The goroutine only exists where Redis has failed; it may fail again.
SyncLost(r) ==
  /\ sync[r] # "none"
  /\ sync' = [sync EXCEPT ![r] = "none"]
  /\ syncVal' = [syncVal EXCEPT ![r] = 0]
  /\ UNCHANGED <<store, pc, user, body, want, changed, mirrors, dispatched>>

\* The lagging replica receives the row it missed.
ReplicaCatchesUp ==
  /\ "stale" \in Faults
  /\ replica # likeState
  /\ replica' = likeState
  /\ UNCHANGED <<likeState, counter, likes, byUser, pc, user, body, want,
                 changed, mirrors, sync, syncVal, dispatched>>

\* Redis restarts without its data.
RedisFlush ==
  /\ "flush" \in Faults
  /\ counter # 0
  /\ counter' = 0
  /\ UNCHANGED <<likeState, replica, likes, byUser, pc, user, body, want,
                 changed, mirrors, sync, syncVal, dispatched>>

Step(r) ==
  \/ ResolveWantLiked(r) \/ TryAddLike(r) \/ SelectLike(r) \/ TryRemoveLike(r)
  \/ IncrementLikeCount(r) \/ DecrementLikeCount(r)

Background(r) ==
  \/ SyncCount(r) \/ SyncSet(r)
  \/ \E m \in Mirrors : Mirror(r, m)

Fault(r) ==
  \/ CounterCallFails(r) \/ CassandraCallFails(r) \/ Crash(r) \/ SyncLost(r)
  \/ \E m \in Mirrors : MirrorLost(r, m)

\* Nothing is in flight: no handler, no goroutine.
Quiet ==
  \A r \in Requests : pc[r] \notin Active /\ mirrors[r] = {} /\ sync[r] = "none"

Next ==
  \/ \E r \in Requests : Receive(r) \/ Step(r) \/ Background(r) \/ Fault(r)
  \/ ReplicaCatchesUp \/ RedisFlush

Spec == Init /\ [][Next]_vars

-----------------------------------------------------------------------------
(* Properties.                                                             *)

\* What GetLikesForPosts, GetLikesForComments and GetLikeCount answer: the
\* rows of like_state are counted only by a server that has no Redis at all.
ShownCount == IF HasRedis THEN counter ELSE Cardinality(likeState)

At(label) == {r \in Requests : pc[r] = label}

\* The count that readers see, once the counter calls still owed are made, is
\* never below the number of people who like the target.  (It may be above:
\* see CountIsTotal.)  Holds where no call fails.
NeverUndercounts ==
  ShownCount + Cardinality(At("incr")) >= Cardinality(likeState) + Cardinality(At("decr"))

\* docs/api/feed.md: "Total likes for this post".  With nothing in flight the
\* count shown is the number of people who like the target.
CountIsTotal == Quiet => ShownCount = Cardinality(likeState)

\* The requests of u whose transaction was applied, as the answers said.
Effective(u, w) ==
  {r \in Requests : user[r] = u /\ want[r] = w /\ changed[r] = "yes"}
\* Those that ended in an error: they may have been applied or not.
InDoubt(u, w) ==
  {r \in Requests : user[r] = u /\ want[r] = w /\ changed[r] = "unknown"
                    /\ pc[r] = "failed"}

\* "Changed" is reported once per change: the answers given to a user add up
\* to the row the user has, up to the requests that were answered with an
\* error.  A retried or doubled request therefore never counts twice
\* (like_repo.go:36), under every fault.
AnswersMatchRow ==
  \A u \in Users :
    LET row == IF u \in likeState THEN 1 ELSE 0
        sum == Cardinality(Effective(u, TRUE)) - Cardinality(Effective(u, FALSE))
    IN  /\ sum - Cardinality(InDoubt(u, FALSE)) <= row
        /\ row <= sum + Cardinality(InDoubt(u, TRUE))

\* The author hears of a person's like again only after that person has taken
\* it back: retries, double clicks and concurrent requests add no event.
NotifiedOncePerLike ==
  \A u \in Users :
    Cardinality({r \in dispatched : user[r] = u})
      <= 1 + Cardinality(Effective(u, FALSE)) + Cardinality(InDoubt(u, FALSE))

\* The legacy table follows like_state for everybody who did not change their
\* mind: it can only disagree on a user with two effective requests, whose two
\* goroutines ran in the other order.  Holds where no call fails.
MirrorAgreesUnlessReversed ==
  Quiet =>
    \A u \in Users :
      Cardinality(Effective(u, TRUE) \cup Effective(u, FALSE)) <= 1
        => (u \in likes <=> u \in likeState)

\* What the toggle promises, in a module of its own: one atomic change per
\* request, decided at the transaction (or at the read that found no row).
\* Holds where no call fails and reads are not stale.
Abstract == INSTANCE LikeRegister WITH liked <- likeState, answer <- changed,
                                       owner <- user, wanted <- want
Linearizable == Abstract!Spec
=============================================================================
