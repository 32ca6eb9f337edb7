------------------------------ MODULE Comments ------------------------------
(***************************************************************************)
(* Comments and replies: internal/data/comment_repo.go, the handlers of    *)
(* internal/handlers/comment.go, and DeletePost of                         *)
(* internal/data/post_repo.go as far as it touches them.                   *)
(*                                                                         *)
(* A comment is a row of two tables, comments_by_id and comments, written  *)
(* together in a logged batch.  A batch is not isolated: once it is logged *)
(* its parts reach their tables one by one, in any order and among those of *)
(* other batches, and the write timestamps decide cell by cell.  A cell is *)
(* therefore the time of the latest write that reached it.  Apart from the *)
(* write timestamps, a comment has a created_at, by which it is listed: a   *)
(* number of milliseconds, which others may have as well.                   *)
(*                                                                         *)
(* A request is a handler goroutine; one that creates a comment is also the *)
(* id of that comment.  The notification a handler dispatches at the end is *)
(* the subject of Persister.                                               *)
(***************************************************************************)
EXTENDS Integers, FiniteSets, FiniteSetsExt

CONSTANTS
  Requests,         \* HTTP requests; a bound on the workload
  Users,
  Posts,
  None,             \* no parent comment
  MaxCommentDepth,  \* how deep replies may nest
  PageSize,         \* the limit of a page
  Millis,           \* what created_at may be
  Failures          \* TRUE: calls fail and answers are lost

Kinds == {"comment", "edit", "delete", "deletePost"}

ASSUME CommentsAssumption ==
  /\ IsFiniteSet(Requests) /\ Posts # {}
  /\ None \notin Requests \cup Kinds
  /\ MaxCommentDepth \in Nat \ {0} /\ PageSize \in Nat \ {0}
  /\ Millis # {} /\ Millis \subseteq Nat \ {0}
  /\ Failures \in BOOLEAN

Tables == {"comments_by_id", "comments"}
Labels == {"idle", "read", "batch", "wait", "incr", "fallback", "counters", "done",
           "failed"}
Empty == [ins |-> 0, text |-> 0, gone |-> 0]

VARIABLES
  clock,      \* the times of the writes, all different
  rows,       \* per table and comment: when inserted, its text, its deletion
  tomb,       \* when the partition of a post was deleted from comments
  posts,      \* rows of posts_by_id
  pending,    \* parts <<request, table>> of logged batches still on their way
  redis,      \* comment_count:<post>, 0 for no key
  counts,     \* comment_counts
  kind, user, post, target, depth,  \* what a request asks for
  created,    \* and the created_at of a comment it makes, 0 before
  pc,         \* where its handler is
  time,       \* the timestamp of its batch, 0 before
  reader,     \* a client that scrolls through a list, once
  late,       \* requests about a comment whose deletion was answered before
  disturbed   \* posts whose counter met a failure, a backfill or a deletion

request == <<kind, user, post, target, depth, created>>
vars == <<clock, rows, tomb, posts, pending, redis, counts, request, pc, time, reader,
          late, disturbed>>

Idle == [at |-> "idle", of |-> None, on |-> CHOOSE p \in Posts : TRUE, cursor |-> 0,
         seen |-> {}, base |-> {}, missed |-> {}, twice |-> FALSE]

Init ==
  /\ clock = 0 /\ posts = Posts /\ pending = {}
  /\ rows = [t \in Tables |-> [c \in Requests |-> Empty]]
  /\ tomb = [p \in Posts |-> 0]
  /\ redis = [p \in Posts |-> 0] /\ counts = [p \in Posts |-> 0]
  /\ kind = [r \in Requests |-> None] /\ user = [r \in Requests |-> None]
  /\ post = [r \in Requests |-> CHOOSE p \in Posts : TRUE]
  /\ target = [r \in Requests |-> None] /\ depth = [r \in Requests |-> 1]
  /\ created = [r \in Requests |-> 0]
  /\ pc = [r \in Requests |-> "idle"] /\ time = [r \in Requests |-> 0]
  /\ reader = Idle /\ late = {} /\ disturbed = {}

-----------------------------------------------------------------------------
(* The tables.                                                             *)

ById(c) == rows["comments_by_id"][c]
Stored == {c \in Requests : ById(c).ins > 0}
Answered(r) == pc[r] = "done"

\* Mutant of Cells: an edit writes the whole row anew.
CellsRewritten(r) ==
  CASE kind[r] = "comment" -> [ins |-> time[r], text |-> time[r], gone |-> 0]
    [] kind[r] = "edit"    -> [ins |-> time[r], text |-> time[r], gone |-> 0]
    [] kind[r] = "delete"  -> [ins |-> 0, text |-> time[r], gone |-> time[r]]

\* What a part of a request's batch writes into the row of its comment.
Cells(r) ==
  CASE kind[r] = "comment" -> [ins |-> time[r], text |-> time[r], gone |-> 0]
    [] kind[r] = "edit"    -> [ins |-> 0, text |-> time[r], gone |-> 0]
    [] kind[r] = "delete"  -> [ins |-> 0, text |-> time[r], gone |-> time[r]]

RowOf(r) == IF kind[r] = "comment" THEN r ELSE target[r]

\* Mutant of Parts: the deletion marks comments_by_id alone.
PartsForgotten(r) == IF kind[r] \in {"delete", "deletePost"}
                       THEN {IF kind[r] = "delete" THEN "comments_by_id" ELSE "comments"}
                       ELSE Tables

\* The tables a batch has a part for.  DeletePost deletes the partition of the
\* post in comments, and leaves the rows in comments_by_id.
Parts(r) == IF kind[r] = "deletePost" THEN {"comments"} ELSE Tables

\* Cassandra keeps the cell with the later timestamp.
Merged(a, b) == [f \in DOMAIN a |-> IF a[f] > b[f] THEN a[f] ELSE b[f]]

\* A part reaches its table.
Apply(r, t) ==
  /\ <<r, t>> \in pending
  /\ pending' = pending \ {<<r, t>>}
  /\ IF kind[r] = "deletePost"
       THEN /\ tomb' = [tomb EXCEPT ![post[r]] = IF @ > time[r] THEN @ ELSE time[r]]
            /\ UNCHANGED rows
       ELSE /\ rows' = [rows EXCEPT ![t][RowOf(r)] = Merged(@, Cells(r))]
            /\ UNCHANGED tomb
  /\ UNCHANGED <<clock, posts, redis, counts, request, pc, time, reader, late, disturbed>>

-----------------------------------------------------------------------------
(* The handlers.                                                           *)

Goto(r, label) == pc' = [pc EXCEPT ![r] = label]

\* A request comes in, about comment c (None for none) on post p.
Accept(r, k, c, p) ==
  /\ pc[r] = "idle"
  /\ Goto(r, "read")
  /\ kind' = [kind EXCEPT ![r] = k]
  /\ \E u \in Users : user' = [user EXCEPT ![r] = u]
  /\ target' = [target EXCEPT ![r] = c] /\ post' = [post EXCEPT ![r] = p]
  /\ late' = IF \E d \in Requests : kind[d] = "delete" /\ target[d] = c /\ Answered(d)
               THEN late \cup {r} ELSE late
  /\ UNCHANGED <<clock, rows, tomb, posts, pending, redis, counts, depth, created, time,
                 reader, disturbed>>

\* The post is that of the route, whatever the parent the body names.
CreateComment(r) == \E c \in Stored \cup {None}, p \in Posts : Accept(r, "comment", c, p)

\* The post is that of the parent.
ReplyToComment(r) == \E c \in Stored : Accept(r, "comment", c, post[c])

EditComment(r) == \E c \in Stored : Accept(r, "edit", c, post[c])
DeleteComment(r) == \E c \in Stored : Accept(r, "delete", c, post[c])
DeletePost(r) == \E p \in Posts : Accept(r, "deletePost", None, p)

Receive(r) ==
  CreateComment(r) \/ ReplyToComment(r) \/ EditComment(r) \/ DeleteComment(r)
    \/ DeletePost(r)

\* Mutant of MayEdit: a deleted comment is edited like any other.
DeletedEditable(u, c) == user[c] = u

\* What is required of the comment that is read.
MayReply(c) == c = None \/ (ById(c).gone = 0 /\ depth[c] < MaxCommentDepth)
MayEdit(u, c) == user[c] = u /\ ById(c).gone = 0

\* A comment already deleted may be deleted again.
MayDelete(u, c) == user[c] = u

\* Whether the post is there is only asked when it is itself to be deleted.
Allowed(r) ==
  CASE kind[r] = "comment" -> MayReply(target[r])
    [] kind[r] = "edit" -> MayEdit(user[r], target[r])
    [] kind[r] = "delete" -> MayDelete(user[r], target[r])
    [] kind[r] = "deletePost" -> post[r] \in posts

\* GetCommentByID of the comment it is about (ReplyToComment reads it twice, the
\* second time in CreateComment), or the SELECT of DeletePost.
Read(r) ==
  /\ pc[r] = "read"
  /\ Goto(r, IF Allowed(r) THEN "batch" ELSE "failed")
  /\ depth' = IF kind[r] = "comment" /\ target[r] # None
                THEN [depth EXCEPT ![r] = depth[target[r]] + 1] ELSE depth
  /\ UNCHANGED <<clock, rows, tomb, posts, pending, redis, counts, kind, user, post,
                 target, created, time, reader, late, disturbed>>

\* ExecuteBatch: the batch is logged, and from here on all of it will happen.  The
\* created_at is the handler's time.Now(), cut to milliseconds: it may be that of
\* another comment, or before that of one written earlier by another process.
Batch(r) ==
  /\ pc[r] = "batch"
  /\ clock' = clock + 1
  /\ time' = [time EXCEPT ![r] = clock']
  /\ \E m \in IF kind[r] = "comment" THEN Millis ELSE {0} :
       created' = [created EXCEPT ![r] = m]
  /\ pending' = pending \cup ({r} \X Parts(r))
  /\ posts' = IF kind[r] = "deletePost" THEN posts \ {post[r]} ELSE posts
  /\ disturbed' = IF kind[r] = "deletePost" THEN disturbed \cup {post[r]} ELSE disturbed
  /\ Goto(r, "wait")
  /\ UNCHANGED <<rows, tomb, redis, counts, kind, user, post, target, depth, reader, late>>

\* Mutant of Ack: replies are not counted.
AckUncounted(r) ==
  /\ pc[r] = "wait"
  /\ \A t \in Tables : <<r, t>> \notin pending
  /\ Goto(r, CASE kind[r] = "comment" /\ target[r] = None -> "incr"
               [] kind[r] = "deletePost" -> "counters"
               [] OTHER -> "done")
  /\ UNCHANGED <<clock, rows, tomb, posts, pending, redis, counts, request, time, reader,
                 late, disturbed>>

\* ... and it is answered when all its parts have been written.
Ack(r) ==
  /\ pc[r] = "wait"
  /\ \A t \in Tables : <<r, t>> \notin pending
  /\ Goto(r, CASE kind[r] = "comment" -> "incr"
               [] kind[r] = "deletePost" -> "counters"
               [] OTHER -> "done")
  /\ UNCHANGED <<clock, rows, tomb, posts, pending, redis, counts, request, time, reader,
                 late, disturbed>>

\* The counter in Redis; its error sends the increment to Cassandra, whether or not
\* Redis has counted.
IncrementCommentCount(r) ==
  /\ pc[r] = "incr"
  /\ \/ /\ redis' = [redis EXCEPT ![post[r]] = @ + 1]
        /\ Goto(r, "done")
        /\ UNCHANGED disturbed
     \/ /\ Failures
        /\ redis' \in {redis, [redis EXCEPT ![post[r]] = @ + 1]}
        /\ Goto(r, "fallback")
        /\ disturbed' = disturbed \cup {post[r]}
  /\ UNCHANGED <<clock, rows, tomb, posts, pending, counts, request, time, reader, late>>

CountInCassandra(r) ==
  /\ pc[r] = "fallback"
  /\ counts' \in {counts, [counts EXCEPT ![post[r]] = @ + 1]}
  /\ Goto(r, "done")
  /\ UNCHANGED <<clock, rows, tomb, posts, pending, redis, request, time, reader, late,
                 disturbed>>

\* Mutant of DropCounters: the counter is taken down by one, whatever it is.
TakeDownCounters(r) ==
  /\ pc[r] = "counters"
  /\ counts' = [counts EXCEPT ![post[r]] = @ - 1]
  /\ Goto(r, "done")
  /\ UNCHANGED <<clock, rows, tomb, posts, pending, redis, request, time, reader, late,
                 disturbed>>

\* DeletePost deletes the counter row, not the key in Redis.
DropCounters(r) ==
  /\ pc[r] = "counters"
  /\ counts' = [counts EXCEPT ![post[r]] = 0]
  /\ Goto(r, "done")
  /\ UNCHANGED <<clock, rows, tomb, posts, pending, redis, request, time, reader, late,
                 disturbed>>

\* Mutant of Fail: what has failed is counted all the same.
FailCounted(r) ==
  /\ Failures
  /\ pc[r] \in {"batch", "wait", "counters"}
  /\ Goto(r, IF kind[r] = "comment" /\ pc[r] = "batch" THEN "incr" ELSE "failed")
  /\ disturbed' = disturbed \cup {post[r]}
  /\ UNCHANGED <<clock, rows, tomb, posts, pending, redis, counts, request, time, reader,
                 late>>

\* A call fails, its answer is lost, or the process ends: a batch that is logged
\* is carried out nevertheless.  (A read that fails refuses the request, as Read
\* does.)
Fail(r) ==
  /\ Failures
  /\ pc[r] \in {"batch", "wait", "counters"}
  /\ Goto(r, "failed")
  /\ disturbed' = disturbed \cup {post[r]}
  /\ UNCHANGED <<clock, rows, tomb, posts, pending, redis, counts, request, time, reader,
                 late>>

\* cmd/backfill-comment-counts: the keys in Redis are set to the rows in Cassandra.
Backfill(p) ==
  /\ redis[p] # counts[p]
  /\ redis' = [redis EXCEPT ![p] = counts[p]]
  /\ disturbed' = disturbed \cup {p}
  /\ UNCHANGED <<clock, rows, tomb, posts, pending, counts, request, pc, time, reader, late>>

-----------------------------------------------------------------------------
(* Reading a list page by page: the top-level comments of a post, or the    *)
(* replies to a comment.  Both are read by descending created_at, and the   *)
(* cursor of the next page is the oldest of this.                           *)

Listed(of, on) ==
  {c \in Requests :
     /\ kind[c] = "comment" /\ target[c] = of /\ post[c] = on
     /\ rows["comments"][c].ins > tomb[on]}

Before(S, cursor) == {c \in S : cursor = 0 \/ created[c] < cursor}

\* The first n of what is read; those of one millisecond come in any order.
Newest(S, n) ==
  {t \in SUBSET S : /\ Cardinality(t) = IF Cardinality(S) < n THEN Cardinality(S) ELSE n
                    /\ \A c \in t, d \in S \ t : created[c] >= created[d]}

StartScroll(of, on) ==
  /\ reader.at = "idle"
  /\ reader' = [Idle EXCEPT !.at = "scrolling", !.of = of, !.on = on,
                            !.base = Listed(of, on)]
  /\ UNCHANGED <<clock, rows, tomb, posts, pending, redis, counts, request, pc, time,
                 late, disturbed>>

GetComments == \E p \in Posts : StartScroll(None, p)
GetReplies == \E c \in Stored : StartScroll(c, post[c])

\* Mutant of NextCursor: the cursor is that of the entry that was cut off.
CursorOfTheCut(fetched, page) == Min({created[c] : c \in fetched})
NextCursor(fetched, page) == Min({created[c] : c \in page})

\* The page that is answered, with whether there is more.  If there is, the reader
\* goes on with the next cursor, and otherwise it only keeps what it was not shown.
Answer(fetched, page) ==
  LET now  == reader.seen \cup page
      both == reader.twice \/ page \cap reader.seen # {}
  IN  reader' =
        IF fetched # page
          THEN [reader EXCEPT !.seen = now, !.twice = both,
                              !.cursor = NextCursor(fetched, page)]
          ELSE [Idle EXCEPT !.at = "end", !.twice = both,
                  !.missed = (reader.base \cap Listed(reader.of, reader.on)) \ now]

\* GetCommentsForPostPaginated, GetRepliesForComment: one entry more than the page
\* is read, to tell whether there is more.
NextPage ==
  /\ reader.at = "scrolling"
  /\ LET unread == Before(Listed(reader.of, reader.on), reader.cursor)
     IN  \E fetched \in Newest(unread, PageSize + 1) :
           \E page \in Newest(fetched, PageSize) : Answer(fetched, page)
  /\ UNCHANGED <<clock, rows, tomb, posts, pending, redis, counts, request, pc, time, late,
                 disturbed>>

Handle(r) ==
  \/ Receive(r) \/ Read(r) \/ Batch(r) \/ Ack(r)
  \/ IncrementCommentCount(r) \/ CountInCassandra(r) \/ DropCounters(r)

Next ==
  \/ \E r \in Requests : Handle(r) \/ Fail(r) \/ \E t \in Tables : Apply(r, t)
  \/ \E p \in Posts : Backfill(p)
  \/ GetComments \/ GetReplies \/ NextPage

Spec == Init /\ [][Next]_vars

-----------------------------------------------------------------------------
(* Properties.                                                             *)

TypeOK ==
  /\ clock \in Nat /\ posts \subseteq Posts
  /\ rows \in [Tables -> [Requests -> [ins : 0..clock, text : 0..clock, gone : 0..clock]]]
  /\ tomb \in [Posts -> 0..clock]
  /\ pending \subseteq Requests \X Tables
  /\ redis \in [Posts -> Nat] /\ counts \in [Posts -> Nat]
  /\ kind \in [Requests -> Kinds \cup {None}] /\ user \in [Requests -> Users \cup {None}]
  /\ post \in [Requests -> Posts] /\ target \in [Requests -> Requests \cup {None}]
  /\ depth \in [Requests -> Nat] /\ pc \in [Requests -> Labels]
  /\ time \in [Requests -> 0..clock] /\ created \in [Requests -> Millis \cup {0}]
  /\ reader \in [at : {"idle", "scrolling", "end"}, of : Requests \cup {None}, on : Posts,
                 cursor : Millis \cup {0}, seen : SUBSET Requests, base : SUBSET Requests,
                 missed : SUBSET Requests, twice : BOOLEAN]
  /\ late \subseteq Requests /\ disturbed \subseteq Posts

\* The two tables say the same of a comment once nothing about it is on its way,
\* in whatever order the edits and deletions have reached them; unless the post
\* has been deleted.
TablesAgree ==
  \A c \in Stored :
    \/ \E r \in Requests, t \in Tables : <<r, t>> \in pending /\ RowOf(r) = c
    \/ tomb[post[c]] > 0
    \/ ById(c) = rows["comments"][c]

\* Once the deletion of a comment has been answered, no request that comes in
\* later replies to it or edits it.
DeletedIsFinal == \A r \in late : kind[r] \in {"comment", "edit"} => time[r] = 0

\* GetCommentCount.
CommentCount(p) == IF redis[p] > 0 THEN redis[p] ELSE counts[p]
Made(p) == {c \in Requests : kind[c] = "comment" /\ post[c] = p /\ time[c] > 0}

\* However the two counters fail and are filled from each other, the count never
\* exceeds the comments made (the count of a deleted comment stays).
CountNeverOver == \A p \in Posts : CommentCount(p) <= Cardinality(Made(p))

\* Where nothing has failed, and nothing is on its way, the count is exact.
CountExactWhenCalm ==
  (\A r \in Requests : pc[r] \in {"idle", "done", "failed"}) =>
     \A p \in Posts \ disturbed : CommentCount(p) = Cardinality(Made(p))

\* Another comment of the same list is of the same millisecond.
HasTwin(c) ==
  \E d \in Requests \ {c} :
    /\ kind[d] = "comment" /\ target[d] = target[c] /\ post[d] = post[c]
    /\ created[d] = created[c]

\* A client that scrolls is shown nothing twice and, at the end, has been shown
\* everything that was there when it began and is there still, while others write and
\* delete; but of two comments of one millisecond the cursor passes over the second
\* if a page ends between them.
ScrollComplete ==
  /\ ~reader.twice
  /\ \A c \in reader.missed : HasTwin(c)

\* A comment whose insert has reached its list and that is not shown there was
\* deleted with its post.
Lost(c) ==
  /\ kind[c] = "comment" /\ time[c] > 0 /\ <<c, "comments">> \notin pending
  /\ c \notin Listed(target[c], post[c])

\* What has been deleted does not come back: no edit that arrives behind a deletion
\* takes the mark from the row, in either table, and no edit of a comment whose
\* post was deleted (an edit only reads comments_by_id, where it still is) brings it
\* back into the list.
NothingComesBack ==
  [][\A c \in Requests :
       /\ \A t \in Tables : rows[t][c].gone > 0 => rows'[t][c].gone > 0
       /\ Lost(c) => Lost(c)']_vars
=============================================================================
