---------------------------- MODULE LikesProofs ----------------------------
(***************************************************************************)
(* Proofs about Likes, for any finite sets of users and requests.  Under   *)
(* every fault: type correctness; the answers add up to the rows; events   *)
(* follow changes.  When no call fails: the counter never undercounts, and *)
(* is exact when moreover every user waits for answers; the legacy table   *)
(* follows; and Likes implements LikeRegister.                             *)
(***************************************************************************)
EXTENDS Likes, FiniteSetTheorems, TLAPS

-----------------------------------------------------------------------------
(* Type correctness.                                                       *)

\* Every step of the handlers, goroutines and stores keeps the types.
LEMMA TypeNext == TypeOK /\ [Next]_vars => TypeOK'
<1> SUFFICES ASSUME TypeOK, [Next]_vars PROVE TypeOK'
  OBVIOUS
<1> USE DEF TypeOK, Bodies, Mirrors, Active, store, Goto
<1>c. IsFiniteSet(likeState)
  BY LikesAssumption, FS_Subset
<1>n. Cardinality(likeState) \in Nat
  BY <1>c, FS_CardinalityType
<1>1. ASSUME NEW r \in Requests, Receive(r) PROVE TypeOK'
  BY <1>1 DEF Receive, ToggleLike
<1>2. ASSUME NEW r \in Requests, ResolveWantLiked(r) PROVE TypeOK'
  BY <1>2 DEF ResolveWantLiked, ToggleLike, RowReads
<1>3. ASSUME NEW r \in Requests, TryAddLike(r) PROVE TypeOK'
  BY <1>3 DEF TryAddLike, Decided, Finish
<1>4. ASSUME NEW r \in Requests, SelectLike(r) PROVE TypeOK'
  BY <1>4 DEF SelectLike, Decided, Finish
<1>5. ASSUME NEW r \in Requests, TryRemoveLike(r) PROVE TypeOK'
  BY <1>5 DEF TryRemoveLike, Decided, Finish
<1>6. ASSUME NEW r \in Requests, IncrementLikeCount(r) PROVE TypeOK'
  BY <1>6 DEF IncrementLikeCount, Finish
<1>7. ASSUME NEW r \in Requests, DecrementLikeCount(r) PROVE TypeOK'
  BY <1>7 DEF DecrementLikeCount, Finish, Decremented
<1>8. ASSUME NEW r \in Requests, Background(r) PROVE TypeOK'
  BY <1>8, <1>n DEF Background, SyncCount, SyncSet, Mirror
<1>9. ASSUME NEW r \in Requests, CounterCallFails(r) PROVE TypeOK'
  BY <1>9 DEF CounterCallFails, Finish, Decremented
<1>10. ASSUME NEW r \in Requests, CassandraCallFails(r) PROVE TypeOK'
  BY <1>10 DEF CassandraCallFails
<1>11. ASSUME NEW r \in Requests, Crash(r) \/ SyncLost(r) PROVE TypeOK'
  BY <1>11 DEF Crash, SyncLost
<1>12. ASSUME NEW r \in Requests, NEW m \in Mirrors, MirrorLost(r, m) PROVE TypeOK'
  BY <1>12 DEF MirrorLost
<1>13. CASE ReplicaCatchesUp \/ RedisFlush
  BY <1>13 DEF ReplicaCatchesUp, RedisFlush
<1>14. CASE UNCHANGED vars
  BY <1>14 DEF vars
<1> QED
  BY <1>1, <1>2, <1>3, <1>4, <1>5, <1>6, <1>7, <1>8, <1>9, <1>10, <1>11, <1>12,
     <1>13, <1>14 DEF Next, Step, Fault

\* Every reachable state is well typed; in particular the counter, which the
\* Lua script of like_counter.go:43 guards, is never negative.
THEOREM TypeCorrect == Spec => []TypeOK
<1>1. Init => TypeOK
  BY DEF Init, TypeOK, Bodies
<1> QED
  BY <1>1, TypeNext, PTL DEF Spec

-----------------------------------------------------------------------------
(* Counting.                                                               *)

NoFaults == Faults = {}

\* The counter calls that are owed: increments and decrements.
Owed(label) == Cardinality(At(label))

\* The inductive invariant behind NeverUndercounts: without faults there is no
\* sync goroutine, and without Redis nobody owes a counter call.
CountInv ==
  /\ TypeOK
  /\ \A r \in Requests : sync[r] = "none"
  /\ ~HasRedis => At("incr") = {} /\ At("decr") = {}
  /\ NeverUndercounts

\* A request that moves to a label joins the requests at it and leaves the rest.
LEMMA AtMoves ==
  ASSUME TypeOK, NEW r \in Requests, NEW l, Goto(r, l), NEW k
  PROVE  At(k)' = IF l = k THEN At(k) \cup {r} ELSE At(k) \ {r}
BY DEF TypeOK, Goto, At

LEMMA Finite ==
  ASSUME TypeOK
  PROVE  /\ IsFiniteSet(likeState) /\ Cardinality(likeState) \in Nat
         /\ \A k : IsFiniteSet(At(k)) /\ Owed(k) \in Nat
<1>1. \A k : At(k) \in SUBSET Requests
  BY DEF At
<1> QED
  BY <1>1, LikesAssumption, FS_Subset, FS_CardinalityType DEF TypeOK, Owed

\* How many requests are at a label after one of them has moved.
LEMMA OwedMoves ==
  ASSUME TypeOK, NEW r \in Requests, NEW l, Goto(r, l), NEW k
  PROVE  Owed(k)' = Owed(k) + (IF l = k THEN 1 ELSE 0) - (IF pc[r] = k THEN 1 ELSE 0)
<1>1. IsFiniteSet(At(k)) /\ Owed(k) \in Nat
  BY Finite
<1>2. r \in At(k) <=> pc[r] = k
  BY DEF At
<1>3. At(k)' = IF l = k THEN At(k) \cup {r} ELSE At(k) \ {r}
  BY AtMoves
<1>4. Cardinality(At(k) \cup {r}) = IF r \in At(k) THEN Owed(k) ELSE Owed(k) + 1
  BY <1>1, FS_AddElement DEF Owed
<1>5. Cardinality(At(k) \ {r}) = IF r \in At(k) THEN Owed(k) - 1 ELSE Owed(k)
  BY <1>1, FS_RemoveElement DEF Owed
<1> QED
  BY <1>1, <1>2, <1>3, <1>4, <1>5 DEF Owed

\* How the likes change at a transaction.
LEMMA LikeStateMoves ==
  ASSUME TypeOK, NEW u \in Users
  PROVE  /\ Cardinality(likeState \cup {u}) =
              Cardinality(likeState) + (IF u \in likeState THEN 0 ELSE 1)
         /\ Cardinality(likeState \ {u}) =
              Cardinality(likeState) - (IF u \in likeState THEN 1 ELSE 0)
<1>1. IsFiniteSet(likeState) /\ Cardinality(likeState) \in Nat
  BY Finite
<1>2. Cardinality(likeState \cup {u}) =
        IF u \in likeState THEN Cardinality(likeState) ELSE Cardinality(likeState) + 1
  BY <1>1, FS_AddElement
<1>3. Cardinality(likeState \ {u}) =
        IF u \in likeState THEN Cardinality(likeState) - 1 ELSE Cardinality(likeState)
  BY <1>1, FS_RemoveElement
<1> QED
  BY <1>1, <1>2, <1>3

\* What a handler step does to the three terms of the account, as a step from
\* label to label: the common part of both counting theorems.
Account(r, dLikes, dCounter, dIncr, dDecr) ==
  /\ Cardinality(likeState') = Cardinality(likeState) + dLikes
  /\ counter' = counter + dCounter
  /\ Owed("incr")' = Owed("incr") + dIncr
  /\ Owed("decr")' = Owed("decr") + dDecr

\* Every step without faults is one of five entries in the account.
LEMMA Accounting ==
  ASSUME CountInv, NoFaults, [Next]_vars
  PROVE  \/ \E r \in Requests :
              /\ HasRedis
              /\ \/ pc[r] = "add" /\ Account(r, 1, 0, 1, 0)
                 \/ pc[r] = "del" /\ Account(r, -1, 0, 0, 1)
                 \/ pc[r] = "incr" /\ Account(r, 0, 1, -1, 0)
                 \/ pc[r] = "decr" /\ Account(r, 0, Decremented(counter) - counter, 0, -1)
         \/ /\ HasRedis
            /\ Account({}, 0, 0, 0, 0)
         \/ /\ ~HasRedis
            /\ Owed("incr")' = Owed("incr") /\ Owed("decr")' = Owed("decr")
<1> USE DEF NoFaults
<1>t. TypeOK /\ TypeOK'
  BY TypeNext DEF CountInv
<1>a. /\ Cardinality(likeState) \in Nat /\ Cardinality(likeState)' \in Nat
      /\ counter \in Nat /\ HasRedis \in BOOLEAN
      /\ Owed("incr") \in Nat /\ Owed("decr") \in Nat
  <2>1. Cardinality(likeState)' \in Nat
    <3>1. IsFiniteSet(likeState')
      BY <1>t, LikesAssumption, FS_Subset DEF TypeOK
    <3> QED BY <3>1, FS_CardinalityType
  <2> QED BY <1>t, <2>1, Finite, LikesAssumption DEF TypeOK
<1>s. ASSUME UNCHANGED <<likeState, counter>>,
             Owed("incr")' = Owed("incr"), Owed("decr")' = Owed("decr")
      PROVE  \/ HasRedis /\ Account({}, 0, 0, 0, 0)
             \/ /\ ~HasRedis
                /\ Owed("incr")' = Owed("incr") /\ Owed("decr")' = Owed("decr")
  BY <1>s, <1>a DEF Account
<1>p. ASSUME NEW r \in Requests, NEW l, Goto(r, l), UNCHANGED <<likeState, counter>>,
             pc[r] \notin {"incr", "decr"}, l \notin {"incr", "decr"}
      PROVE  /\ Owed("incr")' = Owed("incr") /\ Owed("decr")' = Owed("decr")
             /\ UNCHANGED <<likeState, counter>>
  BY <1>p, <1>a, <1>t, OwedMoves
<1>k. ASSUME UNCHANGED pc PROVE Owed("incr")' = Owed("incr") /\ Owed("decr")' = Owed("decr")
  BY <1>k DEF Owed, At
<1>1. ASSUME NEW r \in Requests, Receive(r)
      PROVE  UNCHANGED <<likeState, counter>> /\ \E l : Goto(r, l) /\ l \notin {"incr", "decr"}
  BY <1>1 DEF Receive, ToggleLike, store, Goto
<1>2. ASSUME NEW r \in Requests, ResolveWantLiked(r)
      PROVE  UNCHANGED <<likeState, counter>> /\ \E l : Goto(r, l) /\ l \notin {"incr", "decr"}
  <2>1. Goto(r, "add") \/ Goto(r, "select")
    BY <1>2 DEF ResolveWantLiked, ToggleLike
  <2> QED BY <1>2, <2>1 DEF ResolveWantLiked, store
<1>3. ASSUME NEW r \in Requests, TryAddLike(r)
      PROVE  \/ HasRedis /\ pc[r] = "add" /\ Account(r, 1, 0, 1, 0)
             \/ HasRedis /\ Account({}, 0, 0, 0, 0)
             \/ /\ ~HasRedis
                /\ Owed("incr")' = Owed("incr") /\ Owed("decr")' = Owed("decr")
  <2>1. user[r] \in Users /\ pc[r] = "add"
    BY <1>3, <1>t DEF TryAddLike, TypeOK
  <2>2. CASE user[r] \notin likeState /\ HasRedis
    <3>1. Goto(r, "incr") /\ counter' = counter /\ likeState' = likeState \cup {user[r]}
      BY <1>3, <2>2 DEF TryAddLike, Decided
    <3>2. Owed("incr")' = Owed("incr") + 1 /\ Owed("decr")' = Owed("decr")
      BY <3>1, <2>1, <1>t, <1>a, OwedMoves
    <3> QED BY <3>1, <3>2, <2>1, <2>2, <1>t, <1>a, LikeStateMoves DEF Account
  <2>3. CASE ~(user[r] \notin likeState /\ HasRedis)
    <3>1. Goto(r, "done") /\ counter' = counter /\ likeState' = likeState \cup {user[r]}
      BY <1>3, <2>3 DEF TryAddLike, Decided, Finish
    <3>2. Owed("incr")' = Owed("incr") /\ Owed("decr")' = Owed("decr")
      BY <3>1, <2>1, <1>t, <1>a, OwedMoves
    <3>3. HasRedis => likeState' = likeState
      BY <3>1, <2>3
    <3> QED BY <3>1, <3>2, <3>3, <1>a DEF Account
  <2> QED BY <2>2, <2>3
<1>4. ASSUME NEW r \in Requests, SelectLike(r)
      PROVE  UNCHANGED <<likeState, counter>> /\ \E l : Goto(r, l) /\ l \notin {"incr", "decr"}
  BY <1>4 DEF SelectLike, Decided, Finish, store, Goto
<1>5. ASSUME NEW r \in Requests, TryRemoveLike(r)
      PROVE  \/ HasRedis /\ pc[r] = "del" /\ Account(r, -1, 0, 0, 1)
             \/ HasRedis /\ Account({}, 0, 0, 0, 0)
             \/ /\ ~HasRedis
                /\ Owed("incr")' = Owed("incr") /\ Owed("decr")' = Owed("decr")
  <2>1. user[r] \in Users /\ pc[r] = "del"
    BY <1>5, <1>t DEF TryRemoveLike, TypeOK
  <2>2. CASE user[r] \in likeState /\ HasRedis
    <3>1. Goto(r, "decr") /\ counter' = counter /\ likeState' = likeState \ {user[r]}
      BY <1>5, <2>2 DEF TryRemoveLike, Decided
    <3>2. Owed("decr")' = Owed("decr") + 1 /\ Owed("incr")' = Owed("incr")
      BY <3>1, <2>1, <1>t, <1>a, OwedMoves
    <3> QED BY <3>1, <3>2, <2>1, <2>2, <1>t, <1>a, LikeStateMoves DEF Account
  <2>3. CASE ~(user[r] \in likeState /\ HasRedis)
    <3>1. Goto(r, "done") /\ counter' = counter /\ likeState' = likeState \ {user[r]}
      BY <1>5, <2>3 DEF TryRemoveLike, Decided, Finish
    <3>2. Owed("incr")' = Owed("incr") /\ Owed("decr")' = Owed("decr")
      BY <3>1, <2>1, <1>t, <1>a, OwedMoves
    <3>3. HasRedis => likeState' = likeState
      BY <3>1, <2>3
    <3> QED BY <3>1, <3>2, <3>3, <1>a DEF Account
  <2> QED BY <2>2, <2>3
<1>6. ASSUME NEW r \in Requests, IncrementLikeCount(r)
      PROVE  HasRedis /\ pc[r] = "incr" /\ Account(r, 0, 1, -1, 0)
  <2>1. pc[r] = "incr" /\ Goto(r, "done") /\ counter' = counter + 1 /\ likeState' = likeState
    BY <1>6 DEF IncrementLikeCount, Finish
  <2>2. HasRedis
    BY <2>1 DEF CountInv, At
  <2>3. Owed("incr")' = Owed("incr") - 1 /\ Owed("decr")' = Owed("decr")
    BY <2>1, <1>t, <1>a, OwedMoves
  <2> QED BY <2>1, <2>2, <2>3, <1>a DEF Account
<1>7. ASSUME NEW r \in Requests, DecrementLikeCount(r)
      PROVE  /\ HasRedis /\ pc[r] = "decr"
             /\ Account(r, 0, Decremented(counter) - counter, 0, -1)
  <2>1. pc[r] = "decr" /\ Goto(r, "done") /\ counter' = Decremented(counter) /\ likeState' = likeState
    BY <1>7 DEF DecrementLikeCount, Finish
  <2>2. HasRedis
    BY <2>1 DEF CountInv, At
  <2>3. Owed("incr")' = Owed("incr") /\ Owed("decr")' = Owed("decr") - 1
    BY <2>1, <1>t, <1>a, OwedMoves
  <2> QED BY <2>1, <2>2, <2>3, <1>a DEF Account, Decremented
<1>8. ASSUME NEW r \in Requests, Background(r)
      PROVE  UNCHANGED <<likeState, counter, pc>>
  BY <1>8 DEF Background, SyncCount, SyncSet, Mirror, CountInv
<1>9. ASSUME NEW r \in Requests, Fault(r) PROVE FALSE
  BY <1>9 DEF Fault, CounterCallFails, CassandraCallFails, Crash, SyncLost, MirrorLost, CountInv
<1>10. ~(ReplicaCatchesUp \/ RedisFlush)
  BY DEF ReplicaCatchesUp, RedisFlush
<1>11. CASE UNCHANGED vars
  BY <1>11, <1>s, <1>k DEF vars
<1>12. CASE Next
  <2>1. PICK r \in Requests : Receive(r) \/ Step(r) \/ Background(r)
    BY <1>12, <1>9, <1>10 DEF Next
  <2>2. Receive(r) => pc[r] = "idle"
    BY DEF Receive
  <2>3. ResolveWantLiked(r) => pc[r] = "resolve"
    BY DEF ResolveWantLiked
  <2>4. SelectLike(r) => pc[r] = "select"
    BY DEF SelectLike
  <2>5. CASE Receive(r) \/ ResolveWantLiked(r) \/ SelectLike(r)
    BY <2>5, <2>2, <2>3, <2>4, <1>1, <1>2, <1>4, <1>p, <1>s
  <2>6. CASE Background(r)
    BY <2>6, <1>8, <1>k, <1>s
  <2> QED
    BY <2>1, <2>5, <2>6, <1>3, <1>5, <1>6, <1>7 DEF Step
<1> QED
  BY <1>11, <1>12

-----------------------------------------------------------------------------
(* The counter never undercounts.                                          *)

LEMMA CountInit == Init => CountInv
<1> SUFFICES ASSUME Init PROVE CountInv
  OBVIOUS
<1>1. TypeOK
  BY DEF Init, TypeOK, Bodies
<1>2. At("incr") = {} /\ At("decr") = {}
  BY DEF Init, At
<1>3. Cardinality(likeState) = 0 /\ Cardinality(At("incr")) = 0 /\ Cardinality(At("decr")) = 0
  BY <1>2, FS_EmptySet DEF Init
<1> QED
  BY <1>1, <1>2, <1>3 DEF Init, CountInv, NeverUndercounts, ShownCount

\* Without faults no request ever starts a sync goroutine, and without Redis
\* none comes to owe a counter call.
LEMMA NoSyncNext == CountInv /\ NoFaults /\ [Next]_vars =>
                      /\ (\A r \in Requests : sync[r] = "none")'
                      /\ (~HasRedis => At("incr") = {} /\ At("decr") = {})'
<1> SUFFICES ASSUME CountInv, NoFaults, [Next]_vars
             PROVE  /\ (\A r \in Requests : sync[r] = "none")'
                    /\ (~HasRedis => At("incr") = {} /\ At("decr") = {})'
  OBVIOUS
<1> USE DEF CountInv, NoFaults, Goto, At, TypeOK
<1>1. ASSUME NEW r \in Requests, Fault(r) PROVE FALSE
  BY <1>1 DEF Fault, CounterCallFails, CassandraCallFails, Crash, SyncLost, MirrorLost
<1>2. ASSUME NEW r \in Requests, Background(r) PROVE UNCHANGED <<sync, pc>>
  BY <1>2 DEF Background, SyncCount, SyncSet, Mirror
<1>3. ASSUME NEW r \in Requests, Receive(r)
      PROVE  UNCHANGED sync /\ \E l : l \notin {"incr", "decr"} /\ Goto(r, l)
  BY <1>3 DEF Receive, ToggleLike
<1>4. ASSUME NEW r \in Requests, Step(r)
      PROVE  UNCHANGED sync /\ \E l : (~HasRedis => l \notin {"incr", "decr"}) /\ Goto(r, l)
  <2>1. CASE ResolveWantLiked(r)
    <3>1. Goto(r, "add") \/ Goto(r, "select")
      BY <2>1 DEF ResolveWantLiked, ToggleLike
    <3> QED BY <2>1, <3>1 DEF ResolveWantLiked
  <2>2. CASE TryAddLike(r)
    BY <2>2 DEF TryAddLike, Decided, Finish
  <2>3. CASE SelectLike(r)
    BY <2>3 DEF SelectLike, Decided, Finish
  <2>4. CASE TryRemoveLike(r)
    BY <2>4 DEF TryRemoveLike, Decided, Finish
  <2>5. CASE IncrementLikeCount(r) \/ DecrementLikeCount(r)
    BY <2>5 DEF IncrementLikeCount, DecrementLikeCount, Finish
  <2> QED BY <1>4, <2>1, <2>2, <2>3, <2>4, <2>5 DEF Step
<1>5. CASE UNCHANGED vars
  BY <1>5 DEF vars
<1>6. CASE Next
  <2>1. ~(ReplicaCatchesUp \/ RedisFlush)
    BY DEF ReplicaCatchesUp, RedisFlush
  <2> QED BY <1>6, <1>1, <1>2, <1>3, <1>4, <2>1 DEF Next
<1> QED
  BY <1>5, <1>6

LEMMA CountNext == CountInv /\ NoFaults /\ [Next]_vars => CountInv'
<1> SUFFICES ASSUME CountInv, NoFaults, [Next]_vars PROVE CountInv'
  OBVIOUS
<1>1. TypeOK /\ TypeOK'
  BY TypeNext DEF CountInv
<1>2. /\ (\A r \in Requests : sync[r] = "none")'
      /\ (~HasRedis => At("incr") = {} /\ At("decr") = {})'
  BY NoSyncNext
<1>3. /\ Cardinality(likeState) \in Nat /\ counter \in Nat
      /\ Owed("incr") \in Nat /\ Owed("decr") \in Nat
  BY <1>1, Finite DEF TypeOK
<1>4. NeverUndercounts'
  <2>1. CASE HasRedis
    <3>1. counter + Owed("incr") >= Cardinality(likeState) + Owed("decr")
      BY <2>1 DEF CountInv, NeverUndercounts, ShownCount, Owed
    <3>2. counter' + Owed("incr")' >= Cardinality(likeState') + Owed("decr")'
      BY Accounting, <2>1, <3>1, <1>3 DEF Account, Decremented
    <3> QED BY <2>1, <3>2 DEF NeverUndercounts, ShownCount, Owed
  <2>2. CASE ~HasRedis
    <3>1. Cardinality(At("incr"))' = 0 /\ Cardinality(At("decr"))' = 0
      BY <2>2, <1>2, FS_EmptySet
    <3>2. Cardinality(likeState') \in Nat
      BY <1>1, LikesAssumption, FS_Subset, FS_CardinalityType DEF TypeOK
    <3> QED BY <2>2, <3>1, <3>2 DEF NeverUndercounts, ShownCount
  <2> QED BY <2>1, <2>2, LikesAssumption
<1> QED
  BY <1>1, <1>2, <1>4 DEF CountInv

\* Whatever the interleaving of requests, if no call fails then the count that
\* is shown, with the counter calls still owed, never falls below the likes.
THEOREM NoUndercount == NoFaults => (Spec => []NeverUndercounts)
<1> SUFFICES ASSUME NoFaults PROVE Spec => []NeverUndercounts
  OBVIOUS
<1>1. CountInv /\ [Next]_vars => CountInv'
  BY CountNext
<1>2. CountInv => NeverUndercounts
  BY DEF CountInv
<1> QED
  BY CountInit, <1>1, <1>2, PTL DEF Spec

-----------------------------------------------------------------------------
(* The counter is exact when a user waits for each answer.                 *)

\* No user has two requests in progress.
OneEach ==
  \A r, q \in Requests :
    r # q /\ pc[r] \in Active /\ pc[q] \in Active => user[r] # user[q]

\* Whoever owes an increment has the row that earned it.
IncrHasRow == \A r \in Requests : pc[r] = "incr" => user[r] \in likeState

ExactInv ==
  /\ CountInv /\ OneEach /\ IncrHasRow
  /\ ShownCount + Owed("incr") = Cardinality(likeState) + Owed("decr")

\* The script's floor at zero is never reached: every increment owed belongs to
\* a different user who has a row.
LEMMA IncrsAreLikes ==
  ASSUME TypeOK, OneEach, IncrHasRow
  PROVE  Owed("incr") <= Cardinality(likeState)
<1> DEFINE f == [r \in At("incr") |-> user[r]]
<1>1. \A r, q \in At("incr") : r # q => user[r] # user[q]
  BY DEF OneEach, At, Active
<1>2. \A r \in At("incr") : user[r] \in likeState
  BY DEF IncrHasRow, At
<1>3. f \in Injection(At("incr"), likeState)
  BY <1>1, <1>2 DEF Injection, IsInjective
<1> HIDE DEF f
<1> QED
  BY <1>3, Finite, FS_Injection DEF Owed

\* Serial requests of a user stay serial, and an owed increment keeps its row:
\* only that user's own next request could take it away.
LEMMA SerialNext ==
  ASSUME ExactInv, NoFaults, Serial, [Next]_vars
  PROVE  OneEach' /\ IncrHasRow'
<1> USE DEF ExactInv, CountInv, NoFaults, Goto, TypeOK, OneEach, IncrHasRow, Active
<1>1. ASSUME NEW r \in Requests, Receive(r) PROVE OneEach' /\ IncrHasRow'
  BY <1>1 DEF Receive, ToggleLike, store
<1>2. ASSUME NEW r \in Requests, ResolveWantLiked(r) PROVE OneEach' /\ IncrHasRow'
  <2>1. Goto(r, "add") \/ Goto(r, "select")
    BY <1>2 DEF ResolveWantLiked, ToggleLike
  <2> QED BY <1>2, <2>1 DEF ResolveWantLiked, store
<1>3. ASSUME NEW r \in Requests, TryAddLike(r) PROVE OneEach' /\ IncrHasRow'
  BY <1>3 DEF TryAddLike, Decided, Finish
<1>4. ASSUME NEW r \in Requests, SelectLike(r) PROVE OneEach' /\ IncrHasRow'
  BY <1>4 DEF SelectLike, Decided, Finish, store
<1>5. ASSUME NEW r \in Requests, TryRemoveLike(r) PROVE OneEach' /\ IncrHasRow'
  BY <1>5 DEF TryRemoveLike, Decided, Finish
<1>6. ASSUME NEW r \in Requests, IncrementLikeCount(r) \/ DecrementLikeCount(r)
      PROVE  OneEach' /\ IncrHasRow'
  BY <1>6 DEF IncrementLikeCount, DecrementLikeCount, Finish
<1>7. ASSUME NEW r \in Requests, Background(r) PROVE OneEach' /\ IncrHasRow'
  BY <1>7 DEF Background, SyncCount, SyncSet, Mirror
<1>8. ASSUME NEW r \in Requests, Fault(r) PROVE FALSE
  BY <1>8 DEF Fault, CounterCallFails, CassandraCallFails, Crash, SyncLost, MirrorLost
<1>9. ~(ReplicaCatchesUp \/ RedisFlush)
  BY DEF ReplicaCatchesUp, RedisFlush
<1>10. CASE UNCHANGED vars
  BY <1>10 DEF vars
<1> QED
  BY <1>1, <1>2, <1>3, <1>4, <1>5, <1>6, <1>7, <1>8, <1>9, <1>10 DEF Next, Step

LEMMA ExactNext == ExactInv /\ NoFaults /\ Serial /\ [Next]_vars => ExactInv'
<1> SUFFICES ASSUME ExactInv, NoFaults, Serial, [Next]_vars PROVE ExactInv'
  OBVIOUS
<1>1. CountInv /\ CountInv'
  BY CountNext DEF ExactInv
<1>2. OneEach' /\ IncrHasRow'
  BY SerialNext
<1>3. /\ Cardinality(likeState) \in Nat /\ counter \in Nat
      /\ Owed("incr") \in Nat /\ Owed("decr") \in Nat
  BY <1>1, Finite DEF CountInv, TypeOK
<1>4. Owed("incr") <= Cardinality(likeState)
  BY <1>1, IncrsAreLikes DEF ExactInv, CountInv
<1>5. ASSUME NEW r \in Requests, pc[r] = "decr" PROVE Owed("decr") >= 1
  <2>1. At("decr") # {} /\ IsFiniteSet(At("decr"))
    BY <1>1, <1>5, Finite DEF At, CountInv
  <2>2. Owed("decr") # 0
    BY <2>1, FS_EmptySet DEF Owed
  <2> QED BY <1>3, <2>2
<1>6. (ShownCount + Owed("incr") = Cardinality(likeState) + Owed("decr"))'
  <2>1. CASE HasRedis
    <3>1. counter + Owed("incr") = Cardinality(likeState) + Owed("decr")
      BY <2>1 DEF ExactInv, ShownCount
    <3>2. counter' + Owed("incr")' = Cardinality(likeState') + Owed("decr")'
      BY <1>1, Accounting, <2>1, <3>1, <1>3, <1>4, <1>5 DEF Account, Decremented
    <3> QED BY <2>1, <3>2 DEF ShownCount
  <2>2. CASE ~HasRedis
    <3>1. Owed("incr")' = 0 /\ Owed("decr")' = 0
      BY <2>2, <1>1, FS_EmptySet DEF CountInv, Owed
    <3> QED BY <2>2, <3>1 DEF ShownCount
  <2> QED BY <2>1, <2>2, LikesAssumption
<1> QED
  BY <1>1, <1>2, <1>6 DEF ExactInv

\* If no call fails and every user waits for an answer before the next request,
\* the count shown while nothing is in flight is the number of likes.
THEOREM SerialCountIsTotal == NoFaults /\ Serial => (Spec => []CountIsTotal)
<1> SUFFICES ASSUME NoFaults, Serial PROVE Spec => []CountIsTotal
  OBVIOUS
<1>1. Init => ExactInv
  <2> SUFFICES ASSUME Init PROVE ExactInv
    OBVIOUS
  <2>1. At("incr") = {} /\ At("decr") = {} /\ Cardinality(likeState) = 0 /\ counter = 0
    BY FS_EmptySet DEF Init, At
  <2>2. CountInv
    BY CountInit
  <2>3. OneEach /\ IncrHasRow
    BY DEF Init, OneEach, IncrHasRow, Active
  <2> QED BY <2>1, <2>2, <2>3, FS_EmptySet DEF ExactInv, ShownCount, Owed
<1>2. ExactInv /\ [Next]_vars => ExactInv'
  BY ExactNext
<1>3. ExactInv => CountIsTotal
  <2> SUFFICES ASSUME ExactInv, Quiet PROVE ShownCount = Cardinality(likeState)
    BY DEF CountIsTotal
  <2>1. At("incr") = {} /\ At("decr") = {}
    BY DEF Quiet, At, Active
  <2>2. Owed("incr") = 0 /\ Owed("decr") = 0
    BY <2>1, FS_EmptySet DEF Owed
  <2>3. Cardinality(likeState) \in Nat /\ ShownCount \in Nat
    BY Finite DEF ExactInv, CountInv, TypeOK, ShownCount
  <2> QED BY <2>2, <2>3 DEF ExactInv
<1> QED
  BY <1>1, <1>2, <1>3, PTL DEF Spec

-----------------------------------------------------------------------------
(* Refinement.                                                             *)

\* Answers are given once: at the transaction, or at the read that found no
\* row.  Before that the request is still at one of the deciding steps.
Undecided ==
  \A r \in Requests :
    pc[r] \in {"idle", "resolve", "add", "select", "del"} =>
      /\ changed[r] = "unknown"
      /\ pc[r] = "add" => want[r]
      /\ pc[r] \in {"select", "del"} => ~want[r]

\* If no call fails, ToggleLike acts like the atomic register of LikeRegister,
\* for any number of users and requests and any interleaving.
THEOREM LikesLinearizable == NoFaults => (Spec => Linearizable)
<1> SUFFICES ASSUME NoFaults PROVE Spec => Linearizable
  OBVIOUS
<1> DEFINE I == TypeOK /\ Undecided
<1>1. Init => I /\ Abstract!Init
  BY DEF Init, TypeOK, Bodies, Undecided, Abstract!Init
<1>2. I /\ [Next]_vars => I' /\ [Abstract!Next]_(Abstract!regVars)
  <2> SUFFICES ASSUME I, [Next]_vars PROVE I' /\ [Abstract!Next]_(Abstract!regVars)
    OBVIOUS
  <2>t. TypeOK'
    BY TypeNext
  <2> USE DEF NoFaults, Goto, TypeOK, Undecided, Abstract!regVars
  <2>1. ASSUME NEW r \in Requests, Receive(r)
        PROVE  Undecided' /\ [Abstract!Next]_(Abstract!regVars)
    <3>1. CASE body[r] = "toggle"
      BY <2>1, <3>1 DEF Receive, store
    <3>2. CASE body[r] # "toggle"
      <4>1. Abstract!Want(r, body[r] # "unlike")
        BY <2>1, <3>2 DEF Receive, ToggleLike, store, Abstract!Want
      <4> QED BY <2>1, <3>2, <4>1, ZenonT(40) DEF Receive, ToggleLike, Abstract!Next
    <3> QED BY <3>1, <3>2
  <2>2. ASSUME NEW r \in Requests, ResolveWantLiked(r)
        PROVE  Undecided' /\ [Abstract!Next]_(Abstract!regVars)
    <3>1. PICK w \in BOOLEAN : ToggleLike(r, w)
      BY <2>2 DEF ResolveWantLiked
    <3>2. Abstract!Want(r, w)
      BY <2>2, <3>1 DEF ResolveWantLiked, ToggleLike, store, Abstract!Want
    <3> QED BY <2>2, <3>1, <3>2 DEF ResolveWantLiked, ToggleLike, Abstract!Next
  <2>3. ASSUME NEW r \in Requests, TryAddLike(r)
        PROVE  Undecided' /\ [Abstract!Next]_(Abstract!regVars)
    <3>1. Abstract!Apply(r)
      BY <2>3 DEF TryAddLike, Decided, Abstract!Apply
    <3> QED BY <2>3, <3>1 DEF TryAddLike, Decided, Finish, Abstract!Next
  <2>4. ASSUME NEW r \in Requests, SelectLike(r)
        PROVE  Undecided' /\ [Abstract!Next]_(Abstract!regVars)
    <3>1. CASE user[r] \in likeState
      BY <2>4, <3>1 DEF SelectLike, RowReads, store
    <3>2. CASE user[r] \notin likeState
      <4>1. Abstract!Apply(r)
        BY <2>4, <3>2 DEF SelectLike, RowReads, Decided, store, Abstract!Apply
      <4> QED BY <2>4, <3>2, <4>1 DEF SelectLike, RowReads, Decided, Finish, Abstract!Next
    <3> QED BY <3>1, <3>2
  <2>5. ASSUME NEW r \in Requests, TryRemoveLike(r)
        PROVE  Undecided' /\ [Abstract!Next]_(Abstract!regVars)
    <3>1. Abstract!Apply(r)
      BY <2>5 DEF TryRemoveLike, Decided, Abstract!Apply
    <3> QED BY <2>5, <3>1 DEF TryRemoveLike, Decided, Finish, Abstract!Next
  <2>6. ASSUME NEW r \in Requests, IncrementLikeCount(r) \/ DecrementLikeCount(r)
        PROVE  Undecided' /\ UNCHANGED Abstract!regVars
    BY <2>6 DEF IncrementLikeCount, DecrementLikeCount, Finish
  <2>7. ASSUME NEW r \in Requests, Background(r)
        PROVE  Undecided' /\ UNCHANGED Abstract!regVars
    BY <2>7 DEF Background, SyncCount, SyncSet, Mirror, store
  <2>8. ASSUME NEW r \in Requests, Fault(r)
        PROVE  Undecided' /\ UNCHANGED Abstract!regVars
    BY <2>8 DEF Fault, CounterCallFails, CassandraCallFails, Crash, SyncLost, MirrorLost, store
  <2>9. ~(ReplicaCatchesUp \/ RedisFlush)
    BY DEF ReplicaCatchesUp, RedisFlush
  <2>10. CASE UNCHANGED vars
    BY <2>10 DEF vars
  <2> QED
    BY <2>t, <2>1, <2>2, <2>3, <2>4, <2>5, <2>6, <2>7, <2>8, <2>9, <2>10 DEF Next, Step
<1> QED
  BY <1>1, <1>2, PTL DEF Spec, Linearizable, Abstract!Spec

-----------------------------------------------------------------------------
(* Answers and events, whatever fails.                                     *)

\* A request that owes a counter call has been applied.
OwedIsApplied ==
  \A r \in Requests : pc[r] \in {"incr", "decr"} => changed[r] = "yes"

\* An event stands for a like that was applied.
EventsAreLikes ==
  \A r \in dispatched : want[r] /\ changed[r] = "yes"

\* What the steps of a request have established: the control part of the
\* invariants below, preserved by every step and every fault.
ControlInv == TypeOK /\ Undecided /\ OwedIsApplied /\ EventsAreLikes

LEMMA ControlInit == Init => ControlInv
BY DEF Init, ControlInv, TypeOK, Bodies, Undecided, OwedIsApplied, EventsAreLikes

LEMMA ControlNext == ControlInv /\ [Next]_vars => ControlInv'
<1> SUFFICES ASSUME ControlInv, [Next]_vars PROVE ControlInv'
  OBVIOUS
<1>t. TypeOK /\ TypeOK'
  BY TypeNext DEF ControlInv
<1> DEFINE Goal == Undecided' /\ OwedIsApplied' /\ EventsAreLikes'
<1> USE DEF ControlInv, TypeOK, Undecided, OwedIsApplied, EventsAreLikes, Goto, store
<1>1. ASSUME NEW r \in Requests, Receive(r) PROVE Goal
  <2>1. CASE body[r] = "toggle"
    BY <1>1, <2>1 DEF Receive
  <2>2. CASE body[r] # "toggle"
    <3>1. PICK w \in BOOLEAN : ToggleLike(r, w)
      BY <1>1, <2>2 DEF Receive
    <3> QED BY <1>1, <2>2, <3>1 DEF Receive, ToggleLike
  <2> QED BY <2>1, <2>2
<1>2. ASSUME NEW r \in Requests, ResolveWantLiked(r) PROVE Goal
  BY <1>2 DEF ResolveWantLiked, ToggleLike, RowReads
<1>3. ASSUME NEW r \in Requests, TryAddLike(r) PROVE Goal
  BY <1>3 DEF TryAddLike, Decided, Finish
<1>4. ASSUME NEW r \in Requests, SelectLike(r) PROVE Goal
  BY <1>4 DEF SelectLike, Decided, Finish
<1>5. ASSUME NEW r \in Requests, TryRemoveLike(r) PROVE Goal
  BY <1>5 DEF TryRemoveLike, Decided, Finish
<1>6. ASSUME NEW r \in Requests, IncrementLikeCount(r) \/ DecrementLikeCount(r) PROVE Goal
  BY <1>6 DEF IncrementLikeCount, DecrementLikeCount, Finish
<1>7. ASSUME NEW r \in Requests, Background(r) PROVE Goal
  BY <1>7 DEF Background, SyncCount, SyncSet, Mirror
<1>8. ASSUME NEW r \in Requests, CounterCallFails(r) PROVE Goal
  BY <1>8 DEF CounterCallFails, Finish
<1>9. ASSUME NEW r \in Requests, CassandraCallFails(r) \/ Crash(r) PROVE Goal
  BY <1>9 DEF CassandraCallFails, Crash
<1>10. ASSUME NEW r \in Requests, SyncLost(r) \/ \E m \in Mirrors : MirrorLost(r, m) PROVE Goal
  BY <1>10 DEF SyncLost, MirrorLost
<1>11. CASE ReplicaCatchesUp \/ RedisFlush
  BY <1>11 DEF ReplicaCatchesUp, RedisFlush
<1>12. CASE UNCHANGED vars
  BY <1>12 DEF vars
<1> QED
  BY <1>t, <1>1, <1>2, <1>3, <1>4, <1>5, <1>6, <1>7, <1>8, <1>9, <1>10, <1>11, <1>12
     DEF Next, Step, Fault

\* A step of one request: what is known of the others stands.
OnlyMoves(r) ==
  /\ UNCHANGED user
  /\ \A q \in Requests \ {r} :
       pc'[q] = pc[q] /\ want'[q] = want[q] /\ changed'[q] = changed[q]

\* A request that moves while it is undecided joins the answers it is given, or
\* the doubtful ones if it fails, and no others.
LEMMA Decides ==
  ASSUME TypeOK, NEW r \in Requests, changed[r] = "unknown", pc[r] # "failed",
         OnlyMoves(r), NEW u \in Users, NEW v \in BOOLEAN
  PROVE  /\ r \notin Effective(u, v) /\ r \notin InDoubt(u, v)
         /\ Effective(u, v)' = IF changed'[r] = "yes" /\ user[r] = u /\ want'[r] = v
                                THEN Effective(u, v) \cup {r} ELSE Effective(u, v)
         /\ InDoubt(u, v)' = IF changed'[r] = "unknown" /\ pc'[r] = "failed"
                                 /\ user[r] = u /\ want'[r] = v
                              THEN InDoubt(u, v) \cup {r} ELSE InDoubt(u, v)
<1> DEFINE IsYes == changed'[r] = "yes" /\ user[r] = u /\ want'[r] = v
           IsDoubt == changed'[r] = "unknown" /\ pc'[r] = "failed" /\ user[r] = u /\ want'[r] = v
<1>1. r \notin Effective(u, v) /\ r \notin InDoubt(u, v)
  BY DEF Effective, InDoubt
<1>3. ASSUME NEW q \in Requests \ {r}
      PROVE  /\ q \in Effective(u, v)' <=> q \in Effective(u, v)
             /\ q \in InDoubt(u, v)' <=> q \in InDoubt(u, v)
  BY <1>3 DEF OnlyMoves, Effective, InDoubt
<1>4. /\ r \in Effective(u, v)' <=> IsYes
      /\ r \in InDoubt(u, v)' <=> IsDoubt
  BY DEF OnlyMoves, Effective, InDoubt
<1>5. /\ Effective(u, v) \subseteq Requests /\ Effective(u, v)' \subseteq Requests
      /\ InDoubt(u, v) \subseteq Requests /\ InDoubt(u, v)' \subseteq Requests
  BY DEF Effective, InDoubt
<1>6. Effective(u, v)' = IF IsYes THEN Effective(u, v) \cup {r} ELSE Effective(u, v)
  <2> HIDE DEF IsYes
  <2>1. CASE IsYes
    BY <2>1, <1>3, <1>4, <1>5
  <2>2. CASE ~IsYes
    <3>1. \A q \in Requests : q \in Effective(u, v)' <=> q \in Effective(u, v)
      BY <2>2, <1>1, <1>3, <1>4
    <3>2. Effective(u, v)' = Effective(u, v)
      BY <3>1, <1>5
    <3> QED BY <2>2, <3>2
  <2> QED BY <2>1, <2>2
<1>7. InDoubt(u, v)' = IF IsDoubt THEN InDoubt(u, v) \cup {r} ELSE InDoubt(u, v)
  <2> HIDE DEF IsDoubt
  <2>1. CASE IsDoubt
    BY <2>1, <1>3, <1>4, <1>5
  <2>2. CASE ~IsDoubt
    <3>1. \A q \in Requests : q \in InDoubt(u, v)' <=> q \in InDoubt(u, v)
      BY <2>2, <1>1, <1>3, <1>4
    <3>2. InDoubt(u, v)' = InDoubt(u, v)
      BY <3>1, <1>5
    <3> QED BY <2>2, <3>2
  <2> QED BY <2>1, <2>2
<1> QED
  BY <1>1, <1>6, <1>7

\* A request whose answer is given keeps it.
LEMMA KeepsAnswer ==
  ASSUME TypeOK, UNCHANGED <<user, want, changed>>,
         \/ UNCHANGED pc
         \/ \E r \in Requests : \E l : changed[r] # "unknown" /\ Goto(r, l),
         NEW u \in Users, NEW v \in BOOLEAN
  PROVE  UNCHANGED <<Effective(u, v), InDoubt(u, v)>>
<1>1. \A q \in Requests : changed[q] = "unknown" => pc'[q] = pc[q]
  BY DEF TypeOK, Goto
<1>2. UNCHANGED Effective(u, v)
  BY DEF Effective
<1>3. UNCHANGED InDoubt(u, v)
  BY <1>1 DEF InDoubt
<1> QED
  BY <1>2, <1>3

\* The four sets of requests that the account of a user is kept with stand.
NothingNew(u) ==
  \A v \in BOOLEAN : UNCHANGED <<Effective(u, v), InDoubt(u, v)>>

\* A request of u joins the effective ones (E) or the doubtful ones (D) of v.
Joins(u, r, v, E, D) ==
  /\ r \notin Effective(u, v) /\ r \notin InDoubt(u, v)
  /\ Effective(u, v)' = IF E THEN Effective(u, v) \cup {r} ELSE Effective(u, v)
  /\ InDoubt(u, v)' = IF D THEN InDoubt(u, v) \cup {r} ELSE InDoubt(u, v)
  /\ \A w \in BOOLEAN \ {v} : UNCHANGED <<Effective(u, w), InDoubt(u, w)>>

\* Every step, fault or not, moves a user's row and answers in one of five ways.
Answering(u) ==
  \/ NothingNew(u) /\ (u \in likeState' <=> u \in likeState)
  \/ \E r \in Requests :
       \/ Joins(u, r, TRUE, TRUE, FALSE) /\ u \notin likeState /\ u \in likeState'
       \/ Joins(u, r, FALSE, TRUE, FALSE) /\ u \in likeState /\ u \notin likeState'
       \/ Joins(u, r, TRUE, FALSE, TRUE) /\ (u \in likeState => u \in likeState')
       \/ Joins(u, r, FALSE, FALSE, TRUE) /\ (u \in likeState' => u \in likeState)

LEMMA EachAnswers ==
  ASSUME ControlInv, [Next]_vars, NEW u \in Users
  PROVE  Answering(u)
<1>t. TypeOK
  BY DEF ControlInv
<1>n. ASSUME NothingNew(u), u \in likeState' <=> u \in likeState PROVE Answering(u)
  BY <1>n DEF Answering
<1>k. ASSUME UNCHANGED <<likeState, user, want, changed>>,
             \/ UNCHANGED pc
             \/ \E r \in Requests : \E l : changed[r] # "unknown" /\ Goto(r, l)
      PROVE  Answering(u)
  <2>1. NothingNew(u)
    BY <1>k, <1>t, KeepsAnswer DEF NothingNew
  <2> QED BY <1>k, <2>1, <1>n
<1>d. ASSUME NEW r \in Requests, changed[r] = "unknown", pc[r] # "failed", OnlyMoves(r)
      PROVE  /\ \/ user[r] # u
                \/ changed'[r] = "no"
                \/ changed'[r] = "unknown" /\ pc'[r] # "failed"
                => NothingNew(u)
             /\ \A v \in BOOLEAN :
                  want'[r] = v /\ user[r] = u =>
                    /\ changed'[r] = "yes" => Joins(u, r, v, TRUE, FALSE)
                    /\ changed'[r] = "unknown" /\ pc'[r] = "failed" => Joins(u, r, v, FALSE, TRUE)
  <2>1. ASSUME NEW v \in BOOLEAN
        PROVE  /\ r \notin Effective(u, v) /\ r \notin InDoubt(u, v)
               /\ Effective(u, v)' = IF changed'[r] = "yes" /\ user[r] = u /\ want'[r] = v
                                      THEN Effective(u, v) \cup {r} ELSE Effective(u, v)
               /\ InDoubt(u, v)' = IF changed'[r] = "unknown" /\ pc'[r] = "failed"
                                       /\ user[r] = u /\ want'[r] = v
                                    THEN InDoubt(u, v) \cup {r} ELSE InDoubt(u, v)
    BY <2>1, <1>d, <1>t, Decides
  <2>2. ASSUME \/ user[r] # u
               \/ changed'[r] = "no"
               \/ changed'[r] = "unknown" /\ pc'[r] # "failed"
        PROVE  NothingNew(u)
    BY <2>1, <2>2 DEF NothingNew
  <2>3. ASSUME NEW v \in BOOLEAN, want'[r] = v, user[r] = u
        PROVE  /\ changed'[r] = "yes" => Joins(u, r, v, TRUE, FALSE)
               /\ changed'[r] = "unknown" /\ pc'[r] = "failed" => Joins(u, r, v, FALSE, TRUE)
    <3>2. \A w \in BOOLEAN \ {v} : UNCHANGED <<Effective(u, w), InDoubt(u, w)>>
      BY <2>1, <2>3
    <3> QED BY <3>2, <2>1, <2>3 DEF Joins
  <2> QED BY <2>2, <2>3
\* The steps of the requests that are undecided.
<1>u. ASSUME NEW r \in Requests, pc[r] \in {"idle", "resolve", "add", "select", "del"}
      PROVE  /\ changed[r] = "unknown" /\ pc[r] # "failed" /\ user[r] \in Users
             /\ pc[r] = "add" => want[r] = TRUE
             /\ pc[r] \in {"select", "del"} => want[r] = FALSE
  BY <1>u DEF ControlInv, Undecided, TypeOK
<1>1. ASSUME NEW r \in Requests, Receive(r) \/ ResolveWantLiked(r) PROVE Answering(u)
  <2>1. PICK w : ToggleLike(r, w) \/ (Goto(r, "resolve") /\ UNCHANGED want)
    BY <1>1 DEF Receive, ResolveWantLiked
  <2>2. pc[r] \in {"idle", "resolve"} /\ UNCHANGED <<changed, user, likeState>>
    BY <1>1 DEF Receive, ResolveWantLiked, store
  <2>3. OnlyMoves(r) /\ pc'[r] # "failed"
    BY <2>1, <2>2, <1>t DEF OnlyMoves, ToggleLike, Goto, TypeOK
  <2>4. changed'[r] = "unknown"
    BY <2>2, <1>u
  <2>5. NothingNew(u)
    BY <2>2, <2>3, <2>4, <1>u, <1>d
  <2> QED BY <2>5, <2>2, <1>n
<1>2. ASSUME NEW r \in Requests, TryAddLike(r) PROVE Answering(u)
  <2>1. pc[r] = "add" /\ UNCHANGED <<user, want>> /\ likeState' = likeState \cup {user[r]}
    BY <1>2 DEF TryAddLike
  <2>2. /\ OnlyMoves(r) /\ want'[r] = TRUE
        /\ changed'[r] = IF user[r] \notin likeState THEN "yes" ELSE "no"
    BY <1>2, <2>1, <1>t, <1>u DEF OnlyMoves, TryAddLike, Decided, Finish, Goto, TypeOK
  <2>3. CASE user[r] \in likeState \/ user[r] # u
    <3>1. NothingNew(u)
      BY <2>1, <2>2, <2>3, <1>u, <1>d
    <3> QED BY <3>1, <2>1, <2>3, <1>n
  <2>4. CASE user[r] \notin likeState /\ user[r] = u
    <3>1. Joins(u, r, TRUE, TRUE, FALSE)
      BY <2>1, <2>2, <2>4, <1>u, <1>d
    <3> QED BY <3>1, <2>1, <2>4 DEF Answering
  <2> QED BY <2>3, <2>4
<1>3. ASSUME NEW r \in Requests, SelectLike(r) PROVE Answering(u)
  <2>1. pc[r] = "select" /\ UNCHANGED <<user, want, likeState>>
    BY <1>3 DEF SelectLike, store
  <2>2. /\ OnlyMoves(r)
        /\ changed'[r] = "no" \/ (changed'[r] = "unknown" /\ pc'[r] # "failed")
    <3>1. CASE Goto(r, "del") /\ UNCHANGED changed
      BY <3>1, <2>1, <1>t, <1>u DEF OnlyMoves, Goto, TypeOK
    <3>2. CASE Decided(r, FALSE, "decr")
      BY <3>2, <2>1, <1>t DEF OnlyMoves, Decided, Finish, Goto, TypeOK
    <3> QED BY <1>3, <3>1, <3>2 DEF SelectLike
  <2>3. NothingNew(u)
    BY <2>1, <2>2, <1>u, <1>d
  <2> QED BY <2>3, <2>1, <1>n
<1>4. ASSUME NEW r \in Requests, TryRemoveLike(r) PROVE Answering(u)
  <2>1. pc[r] = "del" /\ UNCHANGED <<user, want>> /\ likeState' = likeState \ {user[r]}
    BY <1>4 DEF TryRemoveLike
  <2>2. /\ OnlyMoves(r) /\ want'[r] = FALSE
        /\ changed'[r] = IF user[r] \in likeState THEN "yes" ELSE "no"
    BY <1>4, <2>1, <1>t, <1>u DEF OnlyMoves, TryRemoveLike, Decided, Finish, Goto, TypeOK
  <2>3. CASE user[r] \notin likeState \/ user[r] # u
    <3>1. NothingNew(u)
      BY <2>1, <2>2, <2>3, <1>u, <1>d
    <3> QED BY <3>1, <2>1, <2>3, <1>n
  <2>4. CASE user[r] \in likeState /\ user[r] = u
    <3>1. Joins(u, r, FALSE, TRUE, FALSE)
      BY <2>1, <2>2, <2>4, <1>u, <1>d
    <3> QED BY <3>1, <2>1, <2>4 DEF Answering
  <2> QED BY <2>3, <2>4
\* A request that fails while it is undecided, its transaction applied or not.
<1>f. ASSUME NEW r \in Requests, pc[r] \in {"resolve", "add", "select", "del"},
             Goto(r, "failed"), UNCHANGED <<user, want, changed>>,
             \/ UNCHANGED likeState
             \/ pc[r] = "add" /\ likeState' = likeState \cup {user[r]}
             \/ pc[r] = "del" /\ likeState' = likeState \ {user[r]}
      PROVE  Answering(u)
  <2>1. OnlyMoves(r) /\ changed'[r] = "unknown" /\ pc'[r] = "failed" /\ want'[r] = want[r]
    BY <1>f, <1>t, <1>u DEF OnlyMoves, Goto, TypeOK
  <2>2. CASE user[r] # u
    <3>1. NothingNew(u)
      BY <2>1, <2>2, <1>f, <1>u, <1>d
    <3> QED BY <3>1, <2>2, <1>f, <1>n
  <2>3. CASE user[r] = u /\ want[r] = TRUE
    <3>1. Joins(u, r, TRUE, FALSE, TRUE)
      BY <2>1, <2>3, <1>f, <1>u, <1>d
    <3>2. u \in likeState => u \in likeState'
      BY <2>3, <1>f, <1>u
    <3> QED BY <3>1, <3>2 DEF Answering
  <2>4. CASE user[r] = u /\ want[r] = FALSE
    <3>1. Joins(u, r, FALSE, FALSE, TRUE)
      BY <2>1, <2>4, <1>f, <1>u, <1>d
    <3>2. u \in likeState' => u \in likeState
      BY <2>4, <1>f, <1>u
    <3> QED BY <3>1, <3>2 DEF Answering
  <2> QED BY <2>2, <2>3, <2>4, <1>t DEF TypeOK
<1>5. ASSUME NEW r \in Requests, CassandraCallFails(r) PROVE Answering(u)
  BY <1>5, <1>f DEF CassandraCallFails
<1>6. ASSUME NEW r \in Requests, Crash(r) PROVE Answering(u)
  <2>1. pc[r] \in Active /\ Goto(r, "failed") /\ UNCHANGED <<likeState, user, want, changed>>
    BY <1>6 DEF Crash, store
  <2>2. CASE pc[r] \in {"incr", "decr"}
    <3>1. changed[r] # "unknown"
      BY <2>2 DEF ControlInv, OwedIsApplied
    <3> QED BY <2>1, <3>1, <1>k
  <2>3. CASE pc[r] \in {"resolve", "add", "select", "del"}
    BY <2>1, <2>3, <1>f
  <2> QED BY <2>1, <2>2, <2>3 DEF Active
\* The request that has been answered goes on; goroutines and stores.
<1>7. ASSUME NEW r \in Requests,
             IncrementLikeCount(r) \/ DecrementLikeCount(r) \/ CounterCallFails(r)
      PROVE  Answering(u)
  <2>1. pc[r] \in {"incr", "decr"} /\ Goto(r, "done") /\ UNCHANGED <<likeState, user, want, changed>>
    BY <1>7 DEF IncrementLikeCount, DecrementLikeCount, CounterCallFails, Finish
  <2>2. changed[r] # "unknown"
    BY <2>1 DEF ControlInv, OwedIsApplied
  <2> QED BY <2>1, <2>2, <1>k
<1>8. ASSUME NEW r \in Requests,
             Background(r) \/ SyncLost(r) \/ \E m \in Mirrors : MirrorLost(r, m)
      PROVE  Answering(u)
  <2>1. UNCHANGED <<likeState, user, want, changed, pc>>
    BY <1>8 DEF Background, SyncCount, SyncSet, Mirror, SyncLost, MirrorLost, store
  <2> QED BY <2>1, <1>k
<1>9. CASE ReplicaCatchesUp \/ RedisFlush \/ UNCHANGED vars
  <2>1. UNCHANGED <<likeState, user, want, changed, pc>>
    BY <1>9 DEF ReplicaCatchesUp, RedisFlush, vars
  <2> QED BY <2>1, <1>k
<1> QED
  BY <1>1, <1>2, <1>3, <1>4, <1>5, <1>6, <1>7, <1>8, <1>9 DEF Next, Step, Fault

LEMMA AnswersFinite ==
  ASSUME NEW u \in Users, NEW v \in BOOLEAN
  PROVE  /\ IsFiniteSet(Effective(u, v)) /\ Cardinality(Effective(u, v)) \in Nat
         /\ IsFiniteSet(InDoubt(u, v)) /\ Cardinality(InDoubt(u, v)) \in Nat
<1>1. Effective(u, v) \in SUBSET Requests /\ InDoubt(u, v) \in SUBSET Requests
  BY DEF Effective, InDoubt
<1> QED
  BY <1>1, LikesAssumption, FS_Subset, FS_CardinalityType

\* How the account of a user moves when a request joins.
LEMMA JoinsCounted ==
  ASSUME NEW u \in Users, NEW r \in Requests, NEW v \in BOOLEAN, NEW E, NEW D, Joins(u, r, v, E, D)
  PROVE  /\ Cardinality(Effective(u, v)') = Cardinality(Effective(u, v)) + (IF E THEN 1 ELSE 0)
         /\ Cardinality(InDoubt(u, v)') = Cardinality(InDoubt(u, v)) + (IF D THEN 1 ELSE 0)
         /\ \A w \in BOOLEAN \ {v} : UNCHANGED <<Effective(u, w), InDoubt(u, w)>>
<1>1. /\ IsFiniteSet(Effective(u, v)) /\ Cardinality(Effective(u, v)) \in Nat
      /\ IsFiniteSet(InDoubt(u, v)) /\ Cardinality(InDoubt(u, v)) \in Nat
  BY AnswersFinite
<1>2. /\ Cardinality(Effective(u, v) \cup {r}) = Cardinality(Effective(u, v)) + 1
      /\ Cardinality(InDoubt(u, v) \cup {r}) = Cardinality(InDoubt(u, v)) + 1
  BY <1>1, FS_AddElement DEF Joins
<1>3. Cardinality(Effective(u, v)') = Cardinality(Effective(u, v)) + (IF E THEN 1 ELSE 0)
  BY <1>1, <1>2 DEF Joins
<1>4. Cardinality(InDoubt(u, v)') = Cardinality(InDoubt(u, v)) + (IF D THEN 1 ELSE 0)
  BY <1>1, <1>2 DEF Joins
<1> QED
  BY <1>3, <1>4 DEF Joins

LEMMA AnswersNext == ControlInv /\ AnswersMatchRow /\ [Next]_vars => AnswersMatchRow'
<1> SUFFICES ASSUME ControlInv, AnswersMatchRow, [Next]_vars, NEW u \in Users
             PROVE  LET row == IF u \in likeState' THEN 1 ELSE 0
                        sum == Cardinality(Effective(u, TRUE)') - Cardinality(Effective(u, FALSE)')
                    IN  /\ sum - Cardinality(InDoubt(u, FALSE)') <= row
                        /\ row <= sum + Cardinality(InDoubt(u, TRUE)')
  BY DEF AnswersMatchRow
<1> DEFINE row == IF u \in likeState THEN 1 ELSE 0
           yes == Cardinality(Effective(u, TRUE))
           no == Cardinality(Effective(u, FALSE))
           yesMaybe == Cardinality(InDoubt(u, TRUE))
           noMaybe == Cardinality(InDoubt(u, FALSE))
<1>1. yes \in Nat /\ no \in Nat /\ yesMaybe \in Nat /\ noMaybe \in Nat
  BY AnswersFinite
<1>2. yes - no - noMaybe <= row /\ row <= yes - no + yesMaybe
  BY DEF AnswersMatchRow
<1>3. row = (IF u \in likeState THEN 1 ELSE 0) /\ row' = IF u \in likeState' THEN 1 ELSE 0
  OBVIOUS
<1> SUFFICES yes' - no' - noMaybe' <= row' /\ row' <= yes' - no' + yesMaybe'
  OBVIOUS
<1>4. CASE NothingNew(u) /\ (u \in likeState' <=> u \in likeState)
  <2>1. yes' = yes /\ no' = no /\ yesMaybe' = yesMaybe /\ noMaybe' = noMaybe
    BY <1>4 DEF NothingNew
  <2> QED BY <1>2, <1>3, <1>4, <2>1
<1>5. ASSUME NEW r \in Requests, Joins(u, r, TRUE, TRUE, FALSE), u \notin likeState, u \in likeState'
      PROVE  yes' - no' - noMaybe' <= row' /\ row' <= yes' - no' + yesMaybe'
  <2>1. yes' = yes + 1 /\ no' = no /\ yesMaybe' = yesMaybe /\ noMaybe' = noMaybe
    <3>1. yes' = yes + 1 /\ yesMaybe' = yesMaybe + 0
      BY <1>5, JoinsCounted
    <3>2. no' = no /\ noMaybe' = noMaybe
      BY <1>5 DEF Joins
    <3> HIDE DEF yes, no, yesMaybe, noMaybe
    <3> QED BY <1>1, <3>1, <3>2
  <2> HIDE DEF yes, no, yesMaybe, noMaybe, row
  <2> QED BY <1>1, <1>2, <1>3, <1>5, <2>1
<1>6. ASSUME NEW r \in Requests, Joins(u, r, FALSE, TRUE, FALSE), u \in likeState, u \notin likeState'
      PROVE  yes' - no' - noMaybe' <= row' /\ row' <= yes' - no' + yesMaybe'
  <2>1. yes' = yes /\ no' = no + 1 /\ yesMaybe' = yesMaybe /\ noMaybe' = noMaybe
    <3>1. no' = no + 1 /\ noMaybe' = noMaybe + 0
      BY <1>6, JoinsCounted
    <3>2. yes' = yes /\ yesMaybe' = yesMaybe
      BY <1>6 DEF Joins
    <3> HIDE DEF yes, no, yesMaybe, noMaybe
    <3> QED BY <1>1, <3>1, <3>2
  <2> HIDE DEF yes, no, yesMaybe, noMaybe, row
  <2> QED BY <1>1, <1>2, <1>3, <1>6, <2>1
<1>7. ASSUME NEW r \in Requests, Joins(u, r, TRUE, FALSE, TRUE), u \in likeState => u \in likeState'
      PROVE  yes' - no' - noMaybe' <= row' /\ row' <= yes' - no' + yesMaybe'
  <2>1. yes' = yes /\ no' = no /\ yesMaybe' = yesMaybe + 1 /\ noMaybe' = noMaybe
    <3>1. yes' = yes + 0 /\ yesMaybe' = yesMaybe + 1
      BY <1>7, JoinsCounted
    <3>2. no' = no /\ noMaybe' = noMaybe
      BY <1>7 DEF Joins
    <3> HIDE DEF yes, no, yesMaybe, noMaybe
    <3> QED BY <1>1, <3>1, <3>2
  <2> HIDE DEF yes, no, yesMaybe, noMaybe, row
  <2> QED BY <1>1, <1>2, <1>3, <1>7, <2>1
<1>8. ASSUME NEW r \in Requests, Joins(u, r, FALSE, FALSE, TRUE), u \in likeState' => u \in likeState
      PROVE  yes' - no' - noMaybe' <= row' /\ row' <= yes' - no' + yesMaybe'
  <2>1. yes' = yes /\ no' = no /\ yesMaybe' = yesMaybe /\ noMaybe' = noMaybe + 1
    <3>1. no' = no + 0 /\ noMaybe' = noMaybe + 1
      BY <1>8, JoinsCounted
    <3>2. yes' = yes /\ yesMaybe' = yesMaybe
      BY <1>8 DEF Joins
    <3> HIDE DEF yes, no, yesMaybe, noMaybe
    <3> QED BY <1>1, <3>1, <3>2
  <2> HIDE DEF yes, no, yesMaybe, noMaybe, row
  <2> QED BY <1>1, <1>2, <1>3, <1>8, <2>1
<1>9. Answering(u)
  BY EachAnswers
<1> HIDE DEF yes, no, yesMaybe, noMaybe, row
<1> QED
  BY <1>4, <1>5, <1>6, <1>7, <1>8, <1>9 DEF Answering

LEMMA AnswersInvariant == Spec => [](ControlInv /\ AnswersMatchRow)
<1>1. Init => ControlInv /\ AnswersMatchRow
  <2> SUFFICES ASSUME Init PROVE AnswersMatchRow
    BY ControlInit
  <2>1. likeState = {}
    BY DEF Init
  <2>2. \A u \in Users, v \in BOOLEAN : Effective(u, v) = {} /\ InDoubt(u, v) = {}
    BY DEF Init, Effective, InDoubt
  <2>3. \A u \in Users : /\ Effective(u, TRUE) = {} /\ Effective(u, FALSE) = {}
                        /\ InDoubt(u, TRUE) = {} /\ InDoubt(u, FALSE) = {}
    BY <2>2
  <2>4. \A u \in Users :
          /\ Cardinality(Effective(u, TRUE)) = 0 /\ Cardinality(Effective(u, FALSE)) = 0
          /\ Cardinality(InDoubt(u, TRUE)) = 0 /\ Cardinality(InDoubt(u, FALSE)) = 0
          /\ u \notin likeState
    BY <2>1, <2>3, FS_EmptySet
  <2>5. ASSUME NEW u \in Users
        PROVE  LET row == IF u \in likeState THEN 1 ELSE 0
                   sum == Cardinality(Effective(u, TRUE)) - Cardinality(Effective(u, FALSE))
               IN  /\ sum - Cardinality(InDoubt(u, FALSE)) <= row
                   /\ row <= sum + Cardinality(InDoubt(u, TRUE))
    <3> DEFINE yes == Cardinality(Effective(u, TRUE))
               no == Cardinality(Effective(u, FALSE))
               yesMaybe == Cardinality(InDoubt(u, TRUE))
               noMaybe == Cardinality(InDoubt(u, FALSE))
    <3>1. yes = 0 /\ no = 0 /\ yesMaybe = 0 /\ noMaybe = 0 /\ u \notin likeState
      BY <2>4
    <3> HIDE DEF yes, no, yesMaybe, noMaybe
    <3>2. yes - no - noMaybe <= 0 /\ 0 <= yes - no + yesMaybe
      BY <3>1
    <3> QED BY <3>1, <3>2 DEF yes, no, yesMaybe, noMaybe
  <2> QED BY <2>5 DEF AnswersMatchRow
<1> QED
  BY <1>1, ControlNext, AnswersNext, PTL DEF Spec

\* Whatever fails, is lost or lags, and however requests overlap: the answers a
\* user has been given add up to the row of like_state, up to the requests that
\* were answered with an error.  No change is reported twice.
THEOREM AnswersAddUp == Spec => []AnswersMatchRow
BY AnswersInvariant, PTL

\* The author is told of a user's likes at most once more than the user has
\* taken a like back (or may have, where a request ended in an error).
THEOREM EventsFollowChanges == Spec => []NotifiedOncePerLike
<1>1. ControlInv /\ AnswersMatchRow => NotifiedOncePerLike
  <2> SUFFICES ASSUME ControlInv, AnswersMatchRow, NEW u \in Users
               PROVE  Cardinality({r \in dispatched : user[r] = u})
                        <= 1 + Cardinality(Effective(u, FALSE)) + Cardinality(InDoubt(u, FALSE))
    BY DEF NotifiedOncePerLike
  <2> DEFINE told == {r \in dispatched : user[r] = u}
             yes == Cardinality(Effective(u, TRUE))
             no == Cardinality(Effective(u, FALSE))
             noMaybe == Cardinality(InDoubt(u, FALSE))
  <2>1. told \subseteq Effective(u, TRUE)
    BY DEF ControlInv, TypeOK, EventsAreLikes, Effective
  <2>2. /\ Cardinality(told) \in Nat
        /\ Cardinality(told) <= Cardinality(Effective(u, TRUE))
    BY <2>1, AnswersFinite, FS_Subset, FS_CardinalityType
  <2>3. yes - no - noMaybe <= IF u \in likeState THEN 1 ELSE 0
    BY DEF AnswersMatchRow
  <2>4. yes \in Nat /\ no \in Nat /\ noMaybe \in Nat /\ Cardinality(told) \in Nat
        /\ Cardinality(told) <= yes
    BY <2>2, AnswersFinite
  <2> HIDE DEF told, yes, no, noMaybe
  <2>5. yes <= 1 + no + noMaybe
    BY <2>3, <2>4
  <2>6. Cardinality(told) <= 1 + no + noMaybe
    BY <2>4, <2>5
  <2> QED BY <2>6 DEF told, yes, no, noMaybe
<1> QED
  BY <1>1, AnswersInvariant, PTL

-----------------------------------------------------------------------------
(* The legacy table, when no call fails.                                   *)

\* u has a like (w) or its withdrawal (~w) that was applied.
Has(u, w) == \E q \in Requests : user[q] = u /\ want[q] = w /\ changed[q] = "yes"

\* Where the row of a like that was applied is: not yet written, to be written by
\* the goroutine, written, or for a user who has also taken a like back.
Mirrored(r) ==
  \/ pc[r] = "incr" \/ "likes" \in mirrors[r] \/ user[r] \in likes
  \/ Has(user[r], FALSE)

MirrorInv ==
  /\ \A r \in Requests : pc[r] # "failed"
  /\ \A r \in Requests : mirrors[r] # {} => changed[r] = "yes"
  /\ \A u \in likes : Has(u, TRUE)
  /\ \A r \in Requests : want[r] = TRUE /\ changed[r] = "yes" => Mirrored(r)

\* An answer that was given stays given.
LEMMA HasStays ==
  ASSUME ControlInv, [Next]_vars, NEW u, NEW w \in BOOLEAN, Has(u, w)
  PROVE  Has(u, w)'
<1> PICK q \in Requests : user[q] = u /\ want[q] = w /\ changed[q] = "yes"
  BY DEF Has
<1>t. TypeOK
  BY DEF ControlInv
<1>u. pc[q] \notin {"idle", "resolve", "add", "select", "del"}
  BY DEF ControlInv, Undecided
<1> SUFFICES user'[q] = user[q] /\ want'[q] = want[q] /\ changed'[q] = changed[q]
  BY DEF Has
<1> USE DEF TypeOK, store
<1>1. ASSUME NEW r \in Requests, Receive(r) \/ Step(r)
      PROVE  UNCHANGED user /\ want'[q] = want[q] /\ changed'[q] = changed[q]
  <2>1. CASE Receive(r)
    <3>1. r # q /\ UNCHANGED <<user, changed>>
      BY <1>u, <2>1 DEF Receive
    <3>2. UNCHANGED want \/ \E v : want' = [want EXCEPT ![r] = v]
      BY <2>1 DEF Receive, ToggleLike
    <3> QED BY <1>t, <3>1, <3>2
  <2>2. CASE ResolveWantLiked(r)
    BY <1>t, <1>u, <2>2 DEF ResolveWantLiked, ToggleLike
  <2>3. CASE TryAddLike(r)
    BY <1>t, <1>u, <2>3 DEF TryAddLike, Decided
  <2>4. CASE SelectLike(r)
    BY <1>t, <1>u, <2>4 DEF SelectLike, Decided
  <2>5. CASE TryRemoveLike(r)
    BY <1>t, <1>u, <2>5 DEF TryRemoveLike, Decided
  <2>6. CASE IncrementLikeCount(r) \/ DecrementLikeCount(r)
    BY <2>6 DEF IncrementLikeCount, DecrementLikeCount
  <2> QED BY <1>1, <2>1, <2>2, <2>3, <2>4, <2>5, <2>6 DEF Step
<1>2. ASSUME NEW r \in Requests, Background(r) \/ Fault(r)
      PROVE  UNCHANGED <<user, want, changed>>
  BY <1>2 DEF Background, SyncCount, SyncSet, Mirror, Fault, CounterCallFails,
              CassandraCallFails, Crash, SyncLost, MirrorLost
<1>3. CASE ReplicaCatchesUp \/ RedisFlush \/ UNCHANGED vars
  BY <1>3 DEF ReplicaCatchesUp, RedisFlush, vars
<1> QED
  BY <1>1, <1>2, <1>3 DEF Next

LEMMA MirrorNext == ControlInv /\ MirrorInv /\ NoFaults /\ [Next]_vars => MirrorInv'
<1> SUFFICES ASSUME ControlInv, MirrorInv, NoFaults, [Next]_vars PROVE MirrorInv'
  OBVIOUS
<1>t. TypeOK /\ TypeOK'
  BY TypeNext DEF ControlInv
<1>h. \A u, w : w \in BOOLEAN /\ Has(u, w) => Has(u, w)'
  BY HasStays
<1>g. ASSUME NEW q \in Requests, user'[q] = user[q], Has(user[q], FALSE)
      PROVE  Has(user[q], FALSE)'
  <2>1. PICK u : u = user[q]
    OBVIOUS
  <2>2. Has(u, FALSE)'
    BY <1>g, <1>h, <2>1
  <2> QED BY <1>g, <2>1, <2>2 DEF Has
\* A step that leaves the legacy table and everybody's mirroring goroutines.
<1>s. ASSUME UNCHANGED likes, \A r \in Requests : mirrors'[r] = mirrors[r] /\ pc'[r] # "failed",
             \A r \in Requests : changed[r] = "yes" => changed'[r] = "yes",
             \A r \in Requests : user'[r] = user[r],
             \A r \in Requests : want'[r] = TRUE /\ changed'[r] = "yes" =>
               \/ pc'[r] = "incr"
               \/ want[r] = TRUE /\ changed[r] = "yes" /\ pc'[r] = pc[r]
      PROVE  MirrorInv'
  <2>1. (\A u \in likes : Has(u, TRUE))'
    BY <1>s, <1>h DEF MirrorInv
  <2>2. ASSUME NEW r \in Requests, want'[r] = TRUE, changed'[r] = "yes" PROVE Mirrored(r)'
    <3>1. CASE pc'[r] = "incr"
      BY <3>1 DEF Mirrored
    <3>2. CASE want[r] = TRUE /\ changed[r] = "yes" /\ pc'[r] = pc[r]
      <4>1. Mirrored(r)
        BY <3>2 DEF MirrorInv
      <4>3. mirrors'[r] = mirrors[r] /\ likes' = likes /\ user'[r] = user[r]
        BY <1>s
      <4>4. CASE pc[r] = "incr" \/ "likes" \in mirrors[r] \/ user[r] \in likes
        BY <4>3, <4>4, <3>2 DEF Mirrored
      <4>5. CASE Has(user[r], FALSE)
        BY <4>5, <4>3, <1>g DEF Mirrored
      <4> QED BY <4>1, <4>4, <4>5 DEF Mirrored
    <3> QED BY <1>s, <2>2, <3>1, <3>2
  <2>3. (\A r \in Requests : pc[r] # "failed" /\ (mirrors[r] # {} => changed[r] = "yes"))'
    BY <1>s DEF MirrorInv
  <2> QED BY <2>1, <2>2, <2>3 DEF MirrorInv
\* A request that has been applied is done and starts its goroutines.
<1>f. ASSUME NEW r \in Requests, Finish(r, TRUE), changed'[r] = "yes", UNCHANGED <<likes, user, want>>,
             \A q \in Requests \ {r} : changed'[q] = changed[q]
      PROVE  MirrorInv'
  <2>1. /\ mirrors'[r] = Mirrors /\ pc'[r] = "done"
        /\ \A q \in Requests \ {r} : mirrors'[q] = mirrors[q] /\ pc'[q] = pc[q]
    BY <1>f, <1>t DEF Finish, Goto, TypeOK
  <2>2. (\A u \in likes : Has(u, TRUE))'
    BY <1>f, <1>h DEF MirrorInv
  <2>3. ASSUME NEW q \in Requests, want'[q] = TRUE, changed'[q] = "yes" PROVE Mirrored(q)'
    <3>1. CASE q = r
      BY <2>1, <3>1 DEF Mirrored, Mirrors
    <3>2. CASE q # r
      <4>1. Mirrored(q)
        BY <1>f, <2>3, <3>2 DEF MirrorInv
      <4>3. mirrors'[q] = mirrors[q] /\ likes' = likes /\ user'[q] = user[q] /\ pc'[q] = pc[q]
        BY <1>f, <2>1, <3>2
      <4>4. CASE pc[q] = "incr" \/ "likes" \in mirrors[q] \/ user[q] \in likes
        BY <4>3, <4>4 DEF Mirrored
      <4>5. CASE Has(user[q], FALSE)
        BY <4>5, <4>3, <1>g DEF Mirrored
      <4> QED BY <4>1, <4>4, <4>5 DEF Mirrored
    <3> QED BY <3>1, <3>2
  <2>4. (\A q \in Requests : pc[q] # "failed" /\ (mirrors[q] # {} => changed[q] = "yes"))'
    BY <1>f, <2>1 DEF MirrorInv
  <2> QED BY <2>2, <2>3, <2>4 DEF MirrorInv
<1>u. ASSUME NEW r \in Requests, pc[r] \in {"idle", "resolve", "add", "select", "del"}
      PROVE  changed[r] = "unknown" /\ mirrors[r] = {}
  BY <1>u DEF ControlInv, Undecided, MirrorInv
\* An undecided request moves on, or finds nothing to change.
<1>m. ASSUME NEW r \in Requests, pc[r] \in {"idle", "resolve", "add", "select", "del"},
             OnlyMoves(r), UNCHANGED likes, pc'[r] # "failed",
             \A q \in Requests : mirrors'[q] = mirrors[q],
             changed'[r] # "yes" \/ pc'[r] = "incr"
      PROVE  MirrorInv'
  <2>1. \A q \in Requests : pc'[q] # "failed" /\ user'[q] = user[q]
    BY <1>m DEF OnlyMoves, MirrorInv
  <2>2. \A q \in Requests : changed[q] = "yes" => changed'[q] = "yes"
    BY <1>m, <1>u DEF OnlyMoves
  <2>3. \A q \in Requests : want'[q] = TRUE /\ changed'[q] = "yes" =>
          \/ pc'[q] = "incr"
          \/ want[q] = TRUE /\ changed[q] = "yes" /\ pc'[q] = pc[q]
    BY <1>m DEF OnlyMoves
  <2> QED BY <1>m, <1>s, <2>1, <2>2, <2>3
<1>1. ASSUME NEW r \in Requests, Receive(r) \/ ResolveWantLiked(r) PROVE MirrorInv'
  <2>1. /\ pc[r] \in {"idle", "resolve"}
        /\ UNCHANGED <<changed, user, likes>> /\ mirrors' = mirrors
    BY <1>1 DEF Receive, ResolveWantLiked, store
  <2>2. PICK w : ToggleLike(r, w) \/ (Goto(r, "resolve") /\ UNCHANGED want)
    BY <1>1 DEF Receive, ResolveWantLiked
  <2>3. OnlyMoves(r) /\ pc'[r] # "failed" /\ changed'[r] # "yes"
    BY <2>1, <2>2, <1>t, <1>u DEF OnlyMoves, ToggleLike, Goto, TypeOK
  <2> QED BY <2>1, <2>3, <1>m
\* The outcome of a transaction.
<1>d. ASSUME NEW r \in Requests, pc[r] \in {"add", "select", "del"}, NEW applied \in BOOLEAN,
             NEW next \in {"incr", "decr"}, Decided(r, applied, next),
             (pc[r] = "add") => next = "incr", (pc[r] # "add") => want[r] = FALSE,
             UNCHANGED <<user, want, likes>>
      PROVE  MirrorInv'
  <2>1. /\ changed'[r] = (IF applied THEN "yes" ELSE "no")
        /\ \A q \in Requests \ {r} : changed'[q] = changed[q]
    BY <1>d, <1>t DEF Decided, TypeOK
  <2>2. CASE Finish(r, TRUE) /\ applied
    BY <1>d, <2>1, <2>2, <1>f
  <2>3. CASE Finish(r, FALSE) /\ ~applied
    <3>1. OnlyMoves(r) /\ pc'[r] = "done"
      BY <1>d, <2>1, <2>3, <1>t DEF OnlyMoves, Finish, Goto, TypeOK
    <3>2. \A q \in Requests : mirrors'[q] = mirrors[q]
      BY <1>d, <2>3, <1>t, <1>u DEF Finish, TypeOK
    <3> QED BY <1>d, <3>1, <3>2, <2>1, <2>3, <1>m
  <2>4. CASE applied /\ Goto(r, next) /\ UNCHANGED mirrors
    <3>1. OnlyMoves(r) /\ pc'[r] = next
      BY <1>d, <2>1, <2>4, <1>t DEF OnlyMoves, Goto, TypeOK
    <3>2. CASE next = "incr"
      BY <1>d, <3>1, <3>2, <2>4, <1>m
    <3>3. CASE next = "decr"
      <4>1. want'[r] = FALSE
        BY <1>d, <3>3
      <4>2. \A q \in Requests : pc'[q] # "failed" /\ user'[q] = user[q]
        BY <1>d, <3>1, <3>3 DEF OnlyMoves, MirrorInv
      <4>3. \A q \in Requests : changed[q] = "yes" => changed'[q] = "yes"
        BY <1>d, <2>1, <2>4
      <4>4. \A q \in Requests : want'[q] = TRUE /\ changed'[q] = "yes" =>
              \/ pc'[q] = "incr"
              \/ want[q] = TRUE /\ changed[q] = "yes" /\ pc'[q] = pc[q]
        BY <4>1, <3>1 DEF OnlyMoves
      <4> QED BY <1>d, <1>s, <2>4, <4>2, <4>3, <4>4
    <3> QED BY <1>d, <3>2, <3>3
  <2>5. CASE ~HasRedis /\ ~applied
    <3>1. Finish(r, FALSE)
      BY <1>d, <2>5 DEF Decided
    <3> QED BY <3>1, <2>3, <2>5
  <2> QED BY <1>d, <2>2, <2>3, <2>4 DEF Decided
<1>w. ASSUME NEW r \in Requests, pc[r] \in {"select", "del"} PROVE want[r] = FALSE
  BY <1>w, <1>t DEF ControlInv, Undecided, TypeOK
<1>2. ASSUME NEW r \in Requests, TryAddLike(r) PROVE MirrorInv'
  <2>1. /\ pc[r] = "add" /\ UNCHANGED <<user, want, likes>>
        /\ Decided(r, user[r] \notin likeState, "incr") /\ (user[r] \notin likeState) \in BOOLEAN
    BY <1>2 DEF TryAddLike
  <2> QED BY <2>1, <1>d
<1>3. ASSUME NEW r \in Requests, SelectLike(r) PROVE MirrorInv'
  <2>1. pc[r] = "select" /\ want[r] = FALSE /\ UNCHANGED <<user, want, likes>>
    BY <1>3, <1>w DEF SelectLike, store
  <2>2. CASE Decided(r, FALSE, "decr")
    BY <2>1, <2>2, <1>d
  <2>3. CASE Goto(r, "del") /\ UNCHANGED <<changed, mirrors>>
    <3>1. OnlyMoves(r) /\ pc'[r] = "del" /\ changed'[r] # "yes"
      BY <2>1, <2>3, <1>t, <1>u DEF OnlyMoves, Goto, TypeOK
    <3> QED BY <2>1, <2>3, <3>1, <1>m
  <2> QED BY <1>3, <2>2, <2>3 DEF SelectLike
<1>4. ASSUME NEW r \in Requests, TryRemoveLike(r) PROVE MirrorInv'
  <2>1. /\ pc[r] = "del" /\ want[r] = FALSE /\ UNCHANGED <<user, want, likes>>
        /\ Decided(r, user[r] \in likeState, "decr")
    BY <1>4, <1>w DEF TryRemoveLike
  <2>2. (user[r] \in likeState) \in BOOLEAN
    OBVIOUS
  <2> QED BY <2>1, <2>2, <1>d
<1>5. ASSUME NEW r \in Requests, IncrementLikeCount(r) \/ DecrementLikeCount(r) PROVE MirrorInv'
  <2>1. /\ pc[r] \in {"incr", "decr"} /\ UNCHANGED <<user, want, likes>>
        /\ UNCHANGED changed /\ Finish(r, TRUE)
    BY <1>5 DEF IncrementLikeCount, DecrementLikeCount
  <2>2. changed'[r] = "yes"
    BY <2>1 DEF ControlInv, OwedIsApplied
  <2> QED BY <2>1, <2>2, <1>f
\* The goroutine that writes the row or removes it.
<1>6. ASSUME NEW r \in Requests, NEW m \in Mirrors, Mirror(r, m) PROVE MirrorInv'
  <2>1. /\ m \in mirrors[r] /\ UNCHANGED <<pc, user, want, changed>>
        /\ likes' = IF m # "likes" THEN likes
                    ELSE IF want[r] THEN likes \cup {user[r]} ELSE likes \ {user[r]}
    BY <1>6 DEF Mirror
  <2>2. changed[r] = "yes" /\ user[r] \in Users /\ want[r] \in BOOLEAN
    BY <2>1, <1>t DEF MirrorInv, TypeOK
  <2>3. /\ mirrors'[r] = mirrors[r] \ {m}
        /\ \A q \in Requests \ {r} : mirrors'[q] = mirrors[q]
    BY <1>6, <1>t DEF Mirror, TypeOK
  <2>4. (\A u \in likes : Has(u, TRUE))'
    <3> SUFFICES ASSUME NEW u \in likes' PROVE Has(u, TRUE)'
      OBVIOUS
    <3>1. CASE u \in likes
      BY <3>1, <1>h DEF MirrorInv
    <3>2. CASE u \notin likes
      <4>1. u = user[r] /\ want[r] = TRUE
        BY <3>2, <2>1, <2>2
      <4>2. Has(u, TRUE)
        BY <4>1, <2>2 DEF Has
      <4> QED BY <4>2, <1>h
    <3> QED BY <3>1, <3>2
  <2>5. ASSUME NEW q \in Requests, want'[q] = TRUE, changed'[q] = "yes" PROVE Mirrored(q)'
    <3>1. Mirrored(q) /\ user'[q] = user[q] /\ pc'[q] = pc[q]
      BY <2>1, <2>5 DEF MirrorInv
    <3>2. CASE Has(user[q], FALSE)
      BY <3>1, <3>2, <1>g DEF Mirrored
    <3>3. CASE pc[q] = "incr"
      BY <3>1, <3>3 DEF Mirrored
    <3>4. CASE "likes" \in mirrors[q]
      <4>1. CASE "likes" \in mirrors'[q]
        BY <4>1 DEF Mirrored
      <4>2. CASE "likes" \notin mirrors'[q]
        <5>1. q = r /\ m = "likes"
          BY <4>2, <3>4, <2>3
        <5>2. want[r] = TRUE
          BY <5>1, <2>5, <2>1
        <5>3. user[q] \in likes'
          BY <5>1, <5>2, <2>1
        <5> QED BY <5>3, <3>1 DEF Mirrored
      <4> QED BY <4>1, <4>2
    <3>5. CASE user[q] \in likes
      <4>1. CASE user[q] \in likes'
        BY <4>1, <3>1 DEF Mirrored
      <4>2. CASE user[q] \notin likes'
        <5>1. user[q] = user[r] /\ want[r] = FALSE
          BY <4>2, <3>5, <2>1, <2>2
        <5>2. Has(user[q], FALSE)
          BY <5>1, <2>2 DEF Has
        <5> QED BY <5>2, <3>2
      <4> QED BY <4>1, <4>2
    <3> QED BY <3>1, <3>2, <3>3, <3>4, <3>5 DEF Mirrored
  <2>6. (\A q \in Requests : pc[q] # "failed" /\ (mirrors[q] # {} => changed[q] = "yes"))'
    BY <2>1, <2>2, <2>3 DEF MirrorInv
  <2> QED BY <2>4, <2>5, <2>6 DEF MirrorInv
<1>k. ASSUME UNCHANGED <<likes, mirrors, pc, changed, user, want>> PROVE MirrorInv'
  BY <1>k DEF MirrorInv, Mirrored, Has
<1>7. ASSUME NEW r \in Requests, SyncCount(r) \/ SyncSet(r) PROVE MirrorInv'
  BY <1>7, <1>k DEF SyncCount, SyncSet, store
<1>8. ASSUME NEW r \in Requests, Fault(r) PROVE SyncLost(r)
  BY <1>8 DEF NoFaults, Fault, CounterCallFails, CassandraCallFails, Crash, MirrorLost
<1>9. ASSUME NEW r \in Requests, SyncLost(r) PROVE MirrorInv'
  BY <1>9, <1>k DEF SyncLost, store
<1>10. ~(ReplicaCatchesUp \/ RedisFlush)
  BY DEF NoFaults, ReplicaCatchesUp, RedisFlush
<1>11. CASE UNCHANGED vars
  BY <1>11, <1>k DEF vars
<1> QED
  BY <1>1, <1>2, <1>3, <1>4, <1>5, <1>6, <1>7, <1>8, <1>9, <1>10, <1>11
     DEF Next, Step, Background

\* If no call fails, the legacy table likes agrees with like_state about every
\* user with at most one change, once nothing is in flight: whatever the order in
\* which requests and their goroutines have run.
THEOREM MirrorAgrees == NoFaults => (Spec => []MirrorAgreesUnlessReversed)
<1> SUFFICES ASSUME NoFaults PROVE Spec => []MirrorAgreesUnlessReversed
  OBVIOUS
<1>1. Init => MirrorInv
  BY DEF Init, MirrorInv
<1>2. ControlInv /\ MirrorInv /\ [Next]_vars => MirrorInv'
  BY MirrorNext
<1>3. ControlInv /\ AnswersMatchRow /\ MirrorInv => MirrorAgreesUnlessReversed
  <2> SUFFICES ASSUME ControlInv, AnswersMatchRow, MirrorInv, Quiet, NEW u \in Users,
                      Cardinality(Effective(u, TRUE) \cup Effective(u, FALSE)) <= 1
               PROVE  u \in likes <=> u \in likeState
    BY DEF MirrorAgreesUnlessReversed
  <2> DEFINE Y == Effective(u, TRUE)
             N == Effective(u, FALSE)
             yesMaybe == Cardinality(InDoubt(u, TRUE))
             noMaybe == Cardinality(InDoubt(u, FALSE))
  <2>1. InDoubt(u, TRUE) = {} /\ InDoubt(u, FALSE) = {}
    BY DEF MirrorInv, InDoubt
  <2>2. yesMaybe = 0 /\ noMaybe = 0
    BY <2>1, FS_EmptySet
  <2>3. IsFiniteSet(Y) /\ Cardinality(Y) \in Nat /\ IsFiniteSet(N) /\ Cardinality(N) \in Nat
    BY AnswersFinite
  <2>4. Cardinality(Y) - Cardinality(N) = IF u \in likeState THEN 1 ELSE 0
    <3>1. /\ Cardinality(Y) - Cardinality(N) - noMaybe <= IF u \in likeState THEN 1 ELSE 0
          /\ (IF u \in likeState THEN 1 ELSE 0) <= Cardinality(Y) - Cardinality(N) + yesMaybe
      BY DEF AnswersMatchRow
    <3> HIDE DEF Y, N, yesMaybe, noMaybe
    <3> QED BY <3>1, <2>2, <2>3
  <2>5. Cardinality(Y) + Cardinality(N) <= 1
    <3>1. Y \cap N = {} /\ Cardinality(Y \cup N) <= 1
      BY DEF Effective
    <3> HIDE DEF Y, N
    <3>2. Cardinality(Y \cap N) = 0
      BY <3>1, FS_EmptySet
    <3>3. Cardinality(Y \cup N) = Cardinality(Y) + Cardinality(N) - Cardinality(Y \cap N)
      BY <2>3, FS_Union
    <3> QED BY <3>1, <3>2, <3>3, <2>3
  <2>7. /\ Y # {} <=> u \in likeState
        /\ N = {}
    <3> HIDE DEF Y, N
    <3>1. /\ Y # {} <=> Cardinality(Y) # 0
          /\ N # {} <=> Cardinality(N) # 0
      BY <2>3, FS_EmptySet
    <3> QED BY <3>1, <2>3, <2>4, <2>5
  <2>8. ASSUME u \in likes PROVE u \in likeState
    <3>1. Y # {}
      BY <2>8 DEF MirrorInv, Has, Effective
    <3> QED BY <3>1, <2>7
  <2>9. ASSUME u \in likeState PROVE u \in likes
    <3>1. PICK r \in Requests : user[r] = u /\ want[r] = TRUE /\ changed[r] = "yes"
      BY <2>9, <2>7 DEF Effective
    <3>2. ~Has(u, FALSE)
      BY <2>7 DEF Has, Effective
    <3>3. pc[r] # "incr" /\ mirrors[r] = {}
      BY DEF Quiet, Active
    <3> QED BY <3>1, <3>2, <3>3 DEF MirrorInv, Mirrored
  <2> QED BY <2>8, <2>9
<1>4. Spec => []MirrorInv
  BY <1>1, <1>2, AnswersInvariant, PTL DEF Spec
<1> QED
  BY <1>3, <1>4, AnswersInvariant, PTL
=============================================================================
