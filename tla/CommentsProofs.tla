--------------------------- MODULE CommentsProofs ---------------------------
(***************************************************************************)
(* Proofs about Comments, for any requests, users, posts, depths and page  *)
(* sizes, failures included: types, the convergence of the two tables, the *)
(* finality of a deletion, the counters, and the scroll.                   *)
(***************************************************************************)
EXTENDS Comments, FiniteSetTheorems, WellFoundedInduction, TLAPS

-----------------------------------------------------------------------------
(* What the handlers know.                                                 *)

HandlerKnows ==
  \A r \in Requests :
    /\ pc[r] = "idle" <=> kind[r] = None
    /\ kind[r] \in {"edit", "delete"} => target[r] \in Requests
    /\ pc[r] \in {"incr", "fallback"} => kind[r] = "comment"
    /\ pc[r] = "counters" => kind[r] = "deletePost"
    /\ pc[r] \in {"idle", "read", "batch"} => time[r] = 0
    /\ pc[r] \in {"wait", "incr", "fallback", "counters", "done"} => time[r] > 0
    /\ created[r] # 0 <=> kind[r] = "comment" /\ time[r] > 0

\* A part on its way is of a batch that is logged, and has not been answered.
PartsOnTheWay ==
  \A r \in Requests, t \in Tables :
    <<r, t>> \in pending => time[r] > 0 /\ t \in Parts(r) /\ pc[r] \in {"wait", "failed"}

TimesDiffer == \A r, s \in Requests : r # s => time[r] # time[s] \/ time[r] = 0

ControlInv == TypeOK /\ HandlerKnows /\ PartsOnTheWay /\ TimesDiffer

Fields == {"ins", "text", "gone"}

-----------------------------------------------------------------------------
(* The inductive invariants.                                               *)

\* The writes of request r have reached table t.
Landed(r, t) ==
  kind[r] \in {"comment", "edit", "delete"} /\ time[r] > 0 /\ <<r, t>> \notin pending

\* A cell is the latest of what has reached it.
RowsLatest ==
  \A t \in Tables, c \in Requests, f \in Fields :
    /\ \A r \in Requests : Landed(r, t) /\ RowOf(r) = c => Cells(r)[f] <= rows[t][c][f]
    /\ \/ rows[t][c][f] = 0
       \/ \E r \in Requests : Landed(r, t) /\ RowOf(r) = c /\ rows[t][c][f] = Cells(r)[f]

\* Who comes late meets the deletion, and gets no further than the read.
LateKnow ==
  \A r \in late :
    /\ pc[r] # "idle"
    /\ \E d \in Requests : kind[d] = "delete" /\ target[d] = target[r] /\ Answered(d)
    /\ kind[r] \in {"comment", "edit"} => pc[r] \in {"read", "failed"} /\ time[r] = 0

\* The comments that may have been counted: in Redis, and in Cassandra.
At(p, labels) == {c \in Requests : kind[c] = "comment" /\ post[c] = p /\ pc[c] \in labels}

CountsCovered ==
  \A p \in Posts : /\ redis[p] <= Cardinality(At(p, {"fallback", "done"}))
                  /\ counts[p] <= Cardinality(At(p, {"done"}))

CountsCalm ==
  \A p \in Posts \ disturbed :
    /\ counts[p] = 0 /\ redis[p] = Cardinality(At(p, {"done"}))
    /\ At(p, {"fallback"}) = {}
    /\ \A c \in At(p, {"failed"}) : time[c] = 0

\* The reader has been shown all that is at or above its cursor but for some of one
\* millisecond with another, and nothing below.
ReaderKnows ==
  /\ \A c \in reader.base : Landed(c, "comments") /\ kind[c] = "comment"
  /\ reader.at = "idle" => reader = Idle
  /\ reader.at = "scrolling" =>
       /\ reader.missed = {} /\ (reader.cursor = 0 => reader.seen = {})
       /\ \A c \in reader.seen : created[c] # 0 /\ created[c] >= reader.cursor
       /\ \A c \in reader.base \cap Listed(reader.of, reader.on) :
            reader.cursor # 0 /\ created[c] >= reader.cursor
              => c \in reader.seen \/ HasTwin(c)
  /\ \A c \in reader.missed : created[c] # 0
  /\ ScrollComplete

-----------------------------------------------------------------------------
(* Type correctness.                                                       *)

Cell(n) == [ins : 0..n, text : 0..n, gone : 0..n]

LEMMA CellFields ==
  ASSUME NEW n \in Nat
  PROVE  /\ \A a \in Cell(n) : DOMAIN a = Fields /\ \A f \in Fields : a[f] \in 0..n
         /\ \A a, b \in Cell(n) : (\A f \in Fields : a[f] = b[f]) => a = b
         /\ \A m \in Nat : n <= m => Cell(n) \subseteq Cell(m)
BY DEF Cell, Fields

\* What is written over a cell is the later of the two, field by field.
LEMMA MergedCells ==
  ASSUME NEW n \in Nat, NEW a \in Cell(n), NEW b \in Cell(n)
  PROVE  /\ Merged(a, b) \in Cell(n)
         /\ \A f \in Fields : Merged(a, b)[f] = IF a[f] > b[f] THEN a[f] ELSE b[f]
<1>1. Merged(a, b) = [f \in Fields |-> IF a[f] > b[f] THEN a[f] ELSE b[f]]
  BY CellFields DEF Merged
<1>2. \A f \in Fields : (IF a[f] > b[f] THEN a[f] ELSE b[f]) \in 0..n
  BY CellFields
<1>3. Cell(n) = [Fields -> 0..n]
  BY DEF Cell, Fields
<1> QED
  BY <1>1, <1>2, <1>3

\* The types, by what they are about.
StoreTyped ==
  /\ clock \in Nat /\ posts \subseteq Posts
  /\ tomb \in [Posts -> 0..clock]
  /\ pending \subseteq Requests \X Tables
  /\ redis \in [Posts -> Nat] /\ counts \in [Posts -> Nat] /\ disturbed \subseteq Posts
RowsTyped == rows \in [Tables -> [Requests -> Cell(clock)]]
AskTyped ==
  /\ kind \in [Requests -> Kinds \cup {None}] /\ user \in [Requests -> Users \cup {None}]
  /\ post \in [Requests -> Posts] /\ target \in [Requests -> Requests \cup {None}]
  /\ depth \in [Requests -> Nat] /\ late \subseteq Requests
  /\ created \in [Requests -> Millis \cup {0}]
HandlersTyped == pc \in [Requests -> Labels] /\ time \in [Requests -> 0..clock]
ReaderTyped ==
  reader \in [at : {"idle", "scrolling", "end"}, of : Requests \cup {None}, on : Posts,
              cursor : Millis \cup {0}, seen : SUBSET Requests, base : SUBSET Requests,
              missed : SUBSET Requests, twice : BOOLEAN]

LEMMA TypeParts == TypeOK <=> StoreTyped /\ RowsTyped /\ AskTyped /\ HandlersTyped /\ ReaderTyped
BY DEF TypeOK, StoreTyped, RowsTyped, AskTyped, HandlersTyped, ReaderTyped, Cell

LEMMA TypePartsNext ==
  TypeOK' <=> StoreTyped' /\ RowsTyped' /\ AskTyped' /\ HandlersTyped' /\ ReaderTyped'
BY TypeParts, PTL

\* A request that comes in is of some kind, about some comment; it is an edit or a deletion
\* of one that is there.
LEMMA Received ==
  ASSUME AskTyped, NEW r \in Requests, Receive(r)
  PROVE  \E k \in Kinds : \E c \in Requests \cup {None} : \E p \in Posts :
           Accept(r, k, c, p) /\ (k \in {"edit", "delete"} => c \in Requests)
<1>1. Stored \subseteq Requests /\ \A c \in Stored : post[c] \in Posts
  BY DEF Stored, AskTyped
<1>2. {"comment", "edit", "delete", "deletePost"} \subseteq Kinds
  BY DEF Kinds
<1>3. CASE CreateComment(r)
  BY <1>1, <1>2, <1>3 DEF CreateComment
<1>4. CASE ReplyToComment(r)
  BY <1>1, <1>2, <1>4 DEF ReplyToComment
<1>5. CASE EditComment(r)
  BY <1>1, <1>2, <1>5 DEF EditComment
<1>6. CASE DeleteComment(r)
  BY <1>1, <1>2, <1>6 DEF DeleteComment
<1>7. CASE DeletePost(r)
  BY <1>2, <1>7 DEF DeletePost
<1> QED
  BY <1>3, <1>4, <1>5, <1>6, <1>7 DEF Receive

\* What a part writes has the form of a cell.
LEMMA CellsTyped ==
  ASSUME ControlInv, NEW r \in Requests, kind[r] \in {"comment", "edit", "delete"}
  PROVE  /\ Cells(r) \in Cell(clock) /\ RowOf(r) \in Requests
         /\ \A f \in Fields : Cells(r)[f] \in Nat
<1>1. time[r] \in 0..clock /\ 0 \in 0..clock /\ clock \in Nat
  BY TypeParts DEF ControlInv, HandlersTyped, StoreTyped
<1>2. RowOf(r) \in Requests
  BY DEF ControlInv, HandlerKnows, RowOf
<1>3. Cells(r) \in Cell(clock)
  BY <1>1 DEF Cells, Cell
<1> QED
  BY <1>1, <1>2, <1>3, CellFields

LEMMA OnTheWay ==
  ASSUME ControlInv, NEW r \in Requests, NEW t \in Tables, <<r, t>> \in pending, kind[r] # "deletePost"
  PROVE  kind[r] \in {"comment", "edit", "delete"}
BY TypeParts DEF ControlInv, HandlerKnows, PartsOnTheWay, AskTyped, HandlersTyped, StoreTyped, Kinds

\* The least of some numbers is one of them, and none is below it.
LEMMA MinIsLeast ==
  ASSUME NEW S \in SUBSET Nat, S # {}
  PROVE  Min(S) \in S /\ \A y \in S : Min(S) <= y
<1> DEFINE less == OpToRel(<, Nat)
<1>1. IsWellFoundedOn(less, Nat)
  BY NatLessThanWellFounded
<1>2. PICK x \in S : \A y \in S : ~ (<<y, x>> \in less)
  <2> HIDE DEF less
  <2> QED BY <1>1, WFMin
<1>3. \A y \in S : ~ (y < x)
  BY <1>2 DEF OpToRel
<1>4. \A y \in S : x <= y
  BY <1>3
<1> QED
  BY <1>4 DEF Min

\* What is read first is of what there is, all of it unless that is more, and nothing
\* that is left out is above it.
LEMMA NewestTaken ==
  ASSUME NEW S \in SUBSET Requests, NEW n \in Nat, NEW t \in Newest(S, n)
  PROVE  /\ t \subseteq S /\ IsFiniteSet(t) /\ Cardinality(t) \in Nat /\ Cardinality(t) <= n
         /\ Cardinality(t) < n => t = S
         /\ \A c \in t, d \in S \ t : created[c] >= created[d]
<1>1. /\ t \subseteq S /\ \A c \in t, d \in S \ t : created[c] >= created[d]
      /\ Cardinality(t) = IF Cardinality(S) < n THEN Cardinality(S) ELSE n
  BY DEF Newest
<1>2. IsFiniteSet(S) /\ Cardinality(S) \in Nat
  BY CommentsAssumption, FS_Subset, FS_CardinalityType
<1>3. IsFiniteSet(t) /\ Cardinality(t) \in Nat /\ (Cardinality(S) = Cardinality(t) => S = t)
  BY <1>1, <1>2, FS_Subset, FS_CardinalityType
<1>4. Cardinality(t) <= n /\ (Cardinality(t) < n => Cardinality(t) = Cardinality(S))
  BY <1>1, <1>2
<1> QED
  BY <1>1, <1>3, <1>4

\* The answer of a page, on what was fetched for it.
Sent(fetched, page) ==
  /\ reader.at = "scrolling" /\ Answer(fetched, page)
  /\ fetched \in Newest(Before(Listed(reader.of, reader.on), reader.cursor), PageSize + 1)
  /\ page \in Newest(fetched, PageSize)

LEMMA NextPageSends ==
  ASSUME NextPage
  PROVE  \E fetched, page : Sent(fetched, page)
BY DEF NextPage, Sent

\* A page is of what is below the cursor.  If there is more, the next cursor is that of
\* its oldest entry, and nothing is left out above that; and if not, all is in it.
LEMMA PageParts ==
  ASSUME ControlInv, NEW fetched, NEW page, Sent(fetched, page)
  PROVE  LET B == Before(Listed(reader.of, reader.on), reader.cursor)
         IN  /\ page \subseteq B /\ B \subseteq Requests
             /\ fetched = page => page = B
             /\ fetched # page =>
                  \E g \in page : /\ NextCursor(fetched, page) = created[g]
                                  /\ \A c \in page : created[g] <= created[c]
                                  /\ \A c \in B \ page : created[c] <= created[g]
<1> DEFINE B == Before(Listed(reader.of, reader.on), reader.cursor)
<1>n. PageSize \in Nat /\ PageSize + 1 \in Nat /\ PageSize > 0
  BY CommentsAssumption
<1>m. \A c \in Requests : created[c] \in Nat
  <2>1. created \in [Requests -> Millis \cup {0}]
    BY DEF ControlInv, TypeOK
  <2>2. Millis \cup {0} \subseteq Nat
    BY CommentsAssumption
  <2> QED BY <2>1, <2>2
<1>b. B \in SUBSET Requests
  BY DEF Before, Listed
<1>s. fetched \in Newest(B, PageSize + 1) /\ page \in Newest(fetched, PageSize)
  BY DEF Sent
<1> HIDE DEF B
<1>1. /\ fetched \subseteq B /\ Cardinality(fetched) \in Nat
      /\ Cardinality(fetched) < PageSize + 1 => fetched = B
      /\ \A c \in fetched, d \in B \ fetched : created[c] >= created[d]
  BY <1>n, <1>b, <1>s, NewestTaken
<1>f. fetched \in SUBSET Requests
  BY <1>1, <1>b
<1>2. /\ page \subseteq fetched /\ Cardinality(page) \in Nat /\ Cardinality(page) <= PageSize
      /\ Cardinality(page) < PageSize => page = fetched
      /\ \A c \in page, d \in fetched \ page : created[c] >= created[d]
  BY <1>n, <1>f, <1>s, NewestTaken
<1>3. ASSUME fetched = page PROVE page = B
  BY <1>1, <1>2, <1>3, <1>n
<1>4. ASSUME fetched # page
      PROVE  \E g \in page : /\ NextCursor(fetched, page) = created[g]
                             /\ \A c \in page : created[g] <= created[c]
                             /\ \A c \in B \ page : created[c] <= created[g]
  <2>1. page # {}
    <3>1. Cardinality({}) = 0
      BY FS_EmptySet
    <3> QED BY <3>1, <1>2, <1>4, <1>n
  <2>2. {created[c] : c \in page} \in SUBSET Nat /\ {created[c] : c \in page} # {}
    BY <2>1, <1>2, <1>f, <1>m
  <2>3. PICK g \in page : created[g] = NextCursor(fetched, page)
    BY <2>2, MinIsLeast DEF NextCursor
  <2>4. \A c \in page : created[g] <= created[c]
    <3>1. \A y \in {created[c] : c \in page} : NextCursor(fetched, page) <= y
      BY <2>2, MinIsLeast DEF NextCursor
    <3> QED BY <2>3, <3>1
  <2>5. \A c \in B \ page : created[c] <= created[g]
    <3>1. g \in fetched /\ created[g] \in Nat /\ \A c \in B : created[c] \in Nat
      BY <1>2, <1>f, <1>b, <1>m
    <3> QED BY <2>3, <3>1, <1>1, <1>2
  <2> QED BY <2>3, <2>4, <2>5
<1> QED
  BY <1>1, <1>2, <1>3, <1>4, <1>b DEF B

LEMMA NextPageTyped == ControlInv /\ NextPage => ReaderTyped'
<1> SUFFICES ASSUME ControlInv, NEW fetched, NEW page, Sent(fetched, page) PROVE ReaderTyped'
  BY NextPageSends
<1>t. ReaderTyped /\ created \in [Requests -> Millis \cup {0}]
  BY TypeParts DEF ControlInv, AskTyped
<1> DEFINE B == Before(Listed(reader.of, reader.on), reader.cursor)
<1>1. /\ page \subseteq B /\ B \subseteq Requests
      /\ fetched # page => \E g \in page : NextCursor(fetched, page) = created[g]
  BY PageParts
<1>2. page \subseteq Requests
  BY <1>1
<1>3. fetched # page => NextCursor(fetched, page) \in Millis \cup {0}
  BY <1>1, <1>2, <1>t
<1> HIDE DEF B
<1>4. CASE fetched # page
  BY <1>2, <1>3, <1>4, <1>t DEF Sent, Answer, ReaderTyped
<1>5. CASE fetched = page
  <2>1. /\ reader.base \subseteq Requests
        /\ (CHOOSE p \in Posts : TRUE) \in Posts
    BY <1>t, CommentsAssumption DEF ReaderTyped
  <2>2. reader'.missed \subseteq reader.base /\ reader'.twice \in BOOLEAN
        /\ reader' = [Idle EXCEPT !.at = "end", !.twice = reader'.twice, !.missed = reader'.missed]
    BY <1>5 DEF Sent, Answer, Idle
  <2> QED BY <2>1, <2>2 DEF ReaderTyped, Idle
<1> QED
  BY <1>4, <1>5

LEMMA TypeNext == ControlInv /\ [Next]_vars => TypeOK'
<1> SUFFICES ASSUME ControlInv, [Next]_vars
             PROVE  StoreTyped' /\ RowsTyped' /\ AskTyped' /\ HandlersTyped' /\ ReaderTyped'
  BY TypePartsNext
<1>t. StoreTyped /\ RowsTyped /\ AskTyped /\ HandlersTyped /\ ReaderTyped
  BY TypeParts DEF ControlInv
<1> USE DEF Goto, request
\* What most steps leave alone.
<1>s. UNCHANGED <<clock, tomb, posts, pending, redis, counts>> /\ disturbed' \subseteq Posts => StoreTyped'
  BY <1>t DEF StoreTyped
<1>r. UNCHANGED <<clock, rows>> => RowsTyped'
  BY <1>t DEF RowsTyped
<1>a. UNCHANGED <<request, late>> => AskTyped'
  BY <1>t DEF AskTyped
<1>h. ASSUME NEW r \in Requests, NEW label \in Labels, pc' = [pc EXCEPT ![r] = label],
             UNCHANGED <<clock, time>>
      PROVE  HandlersTyped'
  BY <1>h, <1>t DEF HandlersTyped
<1>u. UNCHANGED <<clock, pc, time>> => HandlersTyped'
  BY <1>t DEF HandlersTyped
<1>c. UNCHANGED reader => ReaderTyped'
  BY <1>t DEF ReaderTyped
<1>d. \A r \in Requests : disturbed \cup {post[r]} \subseteq Posts
  BY <1>t DEF StoreTyped, AskTyped
<1>l. {"idle", "read", "batch", "wait", "incr", "fallback", "counters", "done", "failed"} \subseteq Labels
  BY DEF Labels
<1>1. ASSUME NEW r \in Requests, Receive(r)
      PROVE  StoreTyped' /\ RowsTyped' /\ AskTyped' /\ HandlersTyped' /\ ReaderTyped'
  <2>1. PICK k \in Kinds, c \in Requests \cup {None}, p \in Posts : Accept(r, k, c, p)
    BY <1>1, <1>t, Received
  <2>2. AskTyped'
    <3>1. PICK u \in Users : user' = [user EXCEPT ![r] = u]
      BY <2>1 DEF Accept
    <3>2. /\ kind' = [kind EXCEPT ![r] = k] /\ target' = [target EXCEPT ![r] = c]
          /\ post' = [post EXCEPT ![r] = p] /\ depth' = depth /\ created' = created
          /\ late' \subseteq late \cup {r}
      BY <2>1 DEF Accept
    <3> QED BY <3>1, <3>2, <1>t DEF AskTyped
  <2>3. pc' = [pc EXCEPT ![r] = "read"] /\ UNCHANGED <<clock, time, tomb, rows, posts, pending, redis, counts, reader, disturbed>>
    BY <2>1 DEF Accept
  <2>4. HandlersTyped'
    BY <2>3, <1>h, <1>l
  <2>5. disturbed' \subseteq Posts
    BY <2>3, <1>t DEF StoreTyped
  <2> QED BY <2>2, <2>3, <2>4, <2>5, <1>s, <1>r, <1>c
<1>2. ASSUME NEW r \in Requests, Read(r)
      PROVE  StoreTyped' /\ RowsTyped' /\ AskTyped' /\ HandlersTyped' /\ ReaderTyped'
  <2>1. AskTyped'
    <3>1. target[r] \in Requests \cup {None}
      BY <1>t DEF AskTyped
    <3>2. CASE kind[r] = "comment" /\ target[r] # None
      <4>1. depth[target[r]] + 1 \in Nat
        BY <3>1, <3>2, <1>t DEF AskTyped
      <4>2. depth' = [depth EXCEPT ![r] = depth[target[r]] + 1] /\ UNCHANGED <<kind, user, post, target, created, late>>
        BY <1>2, <3>2 DEF Read
      <4> QED BY <4>1, <4>2, <1>t DEF AskTyped
    <3>3. CASE ~ (kind[r] = "comment" /\ target[r] # None)
      BY <1>2, <3>3, <1>t DEF Read, AskTyped
    <3> QED BY <3>2, <3>3
  <2>2. PICK label \in Labels : pc' = [pc EXCEPT ![r] = label]
    BY <1>2, <1>l DEF Read
  <2>3. HandlersTyped'
    BY <1>2, <2>2, <1>h DEF Read
  <2>4. disturbed' \subseteq Posts
    BY <1>2, <1>t DEF Read, StoreTyped
  <2> QED BY <1>2, <2>1, <2>3, <2>4, <1>s, <1>r, <1>c DEF Read
<1>3. ASSUME NEW r \in Requests, Batch(r)
      PROVE  StoreTyped' /\ RowsTyped' /\ AskTyped' /\ HandlersTyped' /\ ReaderTyped'
  <2>1. clock \in Nat /\ clock' = clock + 1 /\ 0..clock \subseteq 0..clock' /\ clock' \in 0..clock'
    BY <1>3, <1>t DEF Batch, StoreTyped
  <2>2. StoreTyped'
    <3>1. tomb' = tomb /\ redis' = redis /\ counts' = counts /\ posts' \subseteq posts
          /\ pending' = pending \cup ({r} \X Parts(r)) /\ disturbed' \subseteq disturbed \cup {post[r]}
      BY <1>3 DEF Batch
    <3>2. Parts(r) \subseteq Tables
      BY DEF Parts, Tables
    <3> QED BY <2>1, <3>1, <3>2, <1>t, <1>d DEF StoreTyped
  <2>3. RowsTyped'
    <3>1. Cell(clock) \subseteq Cell(clock') /\ rows' = rows
      BY <2>1, CellFields, <1>3 DEF Batch
    <3> QED BY <3>1, <1>t DEF RowsTyped
  <2>4. HandlersTyped'
    <3>1. pc' = [pc EXCEPT ![r] = "wait"] /\ time' = [time EXCEPT ![r] = clock']
      BY <1>3 DEF Batch
    <3> QED BY <2>1, <3>1, <1>t, <1>l DEF HandlersTyped
  <2>5. ReaderTyped'
    BY <1>3, <1>c DEF Batch
  <2>6. AskTyped'
    <3>1. PICK m \in Millis \cup {0} : created' = [created EXCEPT ![r] = m]
      BY <1>3 DEF Batch
    <3>2. UNCHANGED <<kind, user, post, target, depth, late>>
      BY <1>3 DEF Batch
    <3> QED BY <3>1, <3>2, <1>t DEF AskTyped
  <2> QED BY <2>2, <2>3, <2>4, <2>5, <2>6
<1>4. ASSUME NEW r \in Requests, Ack(r)
      PROVE  StoreTyped' /\ RowsTyped' /\ AskTyped' /\ HandlersTyped' /\ ReaderTyped'
  <2>2. PICK label \in Labels : pc' = [pc EXCEPT ![r] = label]
    <3>1. CASE kind[r] = "comment"
      BY <1>4, <3>1, <1>l DEF Ack
    <3>2. CASE kind[r] = "deletePost"
      BY <1>4, <3>2, <1>l DEF Ack
    <3>3. CASE kind[r] # "comment" /\ kind[r] # "deletePost"
      BY <1>4, <3>3, <1>l DEF Ack
    <3> QED BY <3>1, <3>2, <3>3
  <2>3. HandlersTyped'
    BY <1>4, <2>2, <1>h DEF Ack
  <2>4. disturbed' \subseteq Posts
    BY <1>4, <1>t DEF Ack, StoreTyped
  <2> QED BY <1>4, <2>3, <2>4, <1>s, <1>r, <1>c, <1>a DEF Ack
<1>5. ASSUME NEW r \in Requests, IncrementCommentCount(r) \/ CountInCassandra(r) \/ DropCounters(r)
      PROVE  StoreTyped' /\ RowsTyped' /\ AskTyped' /\ HandlersTyped' /\ ReaderTyped'
  <2>1. PICK label \in Labels : pc' = [pc EXCEPT ![r] = label]
    BY <1>5, <1>l DEF IncrementCommentCount, CountInCassandra, DropCounters
  <2>2. UNCHANGED <<clock, rows, tomb, posts, pending, request, time, reader, late>>
    BY <1>5 DEF IncrementCommentCount, CountInCassandra, DropCounters
  <2>3. HandlersTyped'
    BY <2>1, <2>2, <1>h
  <2>4. redis' \in [Posts -> Nat] /\ counts' \in [Posts -> Nat] /\ disturbed' \subseteq Posts
    <3>1. post[r] \in Posts
      BY <1>t DEF AskTyped
    <3>2. [redis EXCEPT ![post[r]] = @ + 1] \in [Posts -> Nat] /\ [counts EXCEPT ![post[r]] = @ + 1] \in [Posts -> Nat]
          /\ [counts EXCEPT ![post[r]] = 0] \in [Posts -> Nat]
      BY <3>1, <1>t DEF StoreTyped
    <3>3. redis \in [Posts -> Nat] /\ counts \in [Posts -> Nat] /\ disturbed \subseteq Posts
      BY <1>t DEF StoreTyped
    <3>4. CASE IncrementCommentCount(r)
      BY <3>2, <3>3, <3>4, <1>d DEF IncrementCommentCount
    <3>5. CASE CountInCassandra(r)
      BY <3>2, <3>3, <3>5 DEF CountInCassandra
    <3>6. CASE DropCounters(r)
      BY <3>2, <3>3, <3>6 DEF DropCounters
    <3> QED BY <1>5, <3>4, <3>5, <3>6
  <2>5. StoreTyped'
    BY <2>2, <2>4, <1>t DEF StoreTyped
  <2> QED BY <2>2, <2>3, <2>5, <1>r, <1>c, <1>a
<1>6. ASSUME NEW r \in Requests, Fail(r)
      PROVE  StoreTyped' /\ RowsTyped' /\ AskTyped' /\ HandlersTyped' /\ ReaderTyped'
  <2>1. pc' = [pc EXCEPT ![r] = "failed"] /\ disturbed' \subseteq Posts
    BY <1>6, <1>d DEF Fail
  <2>2. HandlersTyped'
    BY <1>6, <2>1, <1>h, <1>l DEF Fail
  <2> QED BY <1>6, <2>1, <2>2, <1>s, <1>r, <1>c, <1>a DEF Fail
<1>7. ASSUME NEW r \in Requests, NEW t \in Tables, Apply(r, t)
      PROVE  StoreTyped' /\ RowsTyped' /\ AskTyped' /\ HandlersTyped' /\ ReaderTyped'
  <2>1. UNCHANGED <<clock, posts, redis, counts, request, pc, time, reader, late, disturbed>>
        /\ pending' \subseteq pending /\ <<r, t>> \in pending
    BY <1>7 DEF Apply
  <2>2. CASE kind[r] = "deletePost"
    <3>1. rows' = rows /\ tomb' = [tomb EXCEPT ![post[r]] = IF @ > time[r] THEN @ ELSE time[r]]
      BY <1>7, <2>2 DEF Apply
    <3>2. post[r] \in Posts /\ time[r] \in 0..clock
      BY <1>t DEF AskTyped, HandlersTyped
    <3>3. StoreTyped'
      BY <2>1, <3>1, <3>2, <1>t DEF StoreTyped
    <3> QED BY <2>1, <3>1, <3>3, <1>r, <1>a, <1>u, <1>c
  <2>3. CASE kind[r] # "deletePost"
    <3>1. tomb' = tomb /\ rows' = [rows EXCEPT ![t][RowOf(r)] = Merged(@, Cells(r))]
      BY <1>7, <2>3 DEF Apply
    <3>2. Cells(r) \in Cell(clock) /\ RowOf(r) \in Requests
      BY <2>1, <2>3, OnTheWay, CellsTyped
    <3>3. Merged(rows[t][RowOf(r)], Cells(r)) \in Cell(clock)
      BY <3>2, <1>t, MergedCells DEF RowsTyped, StoreTyped
    <3>4. RowsTyped'
      BY <2>1, <3>1, <3>2, <3>3, <1>t DEF RowsTyped
    <3>5. StoreTyped'
      BY <2>1, <3>1, <1>t DEF StoreTyped
    <3> QED BY <2>1, <3>4, <3>5, <1>a, <1>u, <1>c
  <2> QED BY <2>2, <2>3
<1>8. ASSUME NEW p \in Posts, Backfill(p)
      PROVE  StoreTyped' /\ RowsTyped' /\ AskTyped' /\ HandlersTyped' /\ ReaderTyped'
  <2>1. StoreTyped'
    BY <1>8, <1>t DEF Backfill, StoreTyped
  <2> QED BY <1>8, <2>1, <1>r, <1>a, <1>u, <1>c DEF Backfill
<1>9. CASE GetComments \/ GetReplies \/ NextPage
  <2>1. UNCHANGED <<clock, rows, tomb, posts, pending, redis, counts, request, pc, time, late, disturbed>>
    BY <1>9 DEF GetComments, GetReplies, NextPage, StartScroll
  <2>2. disturbed' \subseteq Posts
    BY <2>1, <1>t DEF StoreTyped
  <2>3. ReaderTyped'
    <3>1. ASSUME NEW of \in Requests \cup {None}, NEW on \in Posts, StartScroll(of, on)
          PROVE  ReaderTyped'
      <4>1. (CHOOSE p \in Posts : TRUE) \in Posts
        BY CommentsAssumption
      <4>2. Listed(of, on) \subseteq Requests
        BY DEF Listed
      <4>3. reader' = [at |-> "scrolling", of |-> of, on |-> on, cursor |-> 0, seen |-> {},
                       base |-> Listed(of, on), missed |-> {}, twice |-> FALSE]
        BY <3>1 DEF StartScroll, Idle
      <4> QED BY <4>2, <4>3 DEF ReaderTyped
    <3>2. CASE GetComments \/ GetReplies
      <4>1. Stored \subseteq Requests /\ \A c \in Stored : post[c] \in Posts
        BY <1>t DEF Stored, AskTyped
      <4> QED BY <3>1, <3>2, <4>1 DEF GetComments, GetReplies
    <3>3. CASE NextPage
      BY <3>3, NextPageTyped
    <3> QED BY <1>9, <3>2, <3>3
  <2> QED BY <2>1, <2>2, <2>3, <1>s, <1>r, <1>a, <1>u
<1>10. CASE UNCHANGED vars
  <2>1. disturbed' \subseteq Posts
    BY <1>10, <1>t DEF vars, StoreTyped
  <2> QED BY <1>10, <2>1, <1>s, <1>r, <1>a, <1>u, <1>c DEF vars
<1> QED
  BY <1>1, <1>2, <1>3, <1>4, <1>5, <1>6, <1>7, <1>8, <1>9, <1>10 DEF Next, Handle

-----------------------------------------------------------------------------
(* The control of the handlers.                                            *)

LEMMA ControlNext == ControlInv /\ [Next]_vars => ControlInv'
<1> SUFFICES ASSUME ControlInv, [Next]_vars
             PROVE  HandlerKnows' /\ PartsOnTheWay' /\ TimesDiffer'
  BY TypeNext DEF ControlInv
<1>t. /\ kind \in [Requests -> Kinds \cup {None}] /\ target \in [Requests -> Requests \cup {None}]
      /\ pc \in [Requests -> Labels] /\ time \in [Requests -> 0..clock] /\ clock \in Nat
      /\ created \in [Requests -> Millis \cup {0}]
  BY DEF ControlInv, TypeOK
<1>i. HandlerKnows /\ PartsOnTheWay /\ TimesDiffer /\ AskTyped
  BY TypeParts DEF ControlInv
<1> USE DEF Goto, request
\* What most steps leave alone.
<1>k. UNCHANGED <<kind, target, pc, time, created>> => HandlerKnows'
  BY <1>i DEF HandlerKnows
<1>p. UNCHANGED <<kind, pc, time>> /\ pending' \subseteq pending => PartsOnTheWay'
  BY <1>i DEF PartsOnTheWay, Parts
<1>d. UNCHANGED time => TimesDiffer'
  BY <1>i DEF TimesDiffer
<1>1. ASSUME NEW r \in Requests, Receive(r)
      PROVE  HandlerKnows' /\ PartsOnTheWay' /\ TimesDiffer'
  <2>1. PICK k \in Kinds, c \in Requests \cup {None}, p \in Posts :
          Accept(r, k, c, p) /\ (k \in {"edit", "delete"} => c \in Requests)
    BY <1>1, <1>i, Received
  <2>2. /\ pc[r] = "idle" /\ pc' = [pc EXCEPT ![r] = "read"] /\ kind' = [kind EXCEPT ![r] = k]
        /\ target' = [target EXCEPT ![r] = c] /\ UNCHANGED <<time, created, pending>>
    BY <2>1 DEF Accept
  <2>3. None \notin Kinds
    BY CommentsAssumption
  <2>4. HandlerKnows'
    BY <2>1, <2>2, <2>3, <1>t, <1>i DEF HandlerKnows
  <2>5. PartsOnTheWay'
    BY <2>2, <1>t, <1>i DEF PartsOnTheWay, Parts
  <2> QED BY <2>2, <2>4, <2>5, <1>d
<1>2. ASSUME NEW r \in Requests, Read(r)
      PROVE  HandlerKnows' /\ PartsOnTheWay' /\ TimesDiffer'
  <2>1. /\ pc[r] = "read" /\ UNCHANGED <<kind, target, created, time, pending>>
        /\ pc' = [pc EXCEPT ![r] = "batch"] \/ pc' = [pc EXCEPT ![r] = "failed"]
    BY <1>2 DEF Read
  <2>2. HandlerKnows'
    BY <2>1, <1>t, <1>i DEF HandlerKnows
  <2>3. PartsOnTheWay'
    BY <2>1, <1>t, <1>i DEF PartsOnTheWay, Parts
  <2> QED BY <2>1, <2>2, <2>3, <1>d
<1>3. ASSUME NEW r \in Requests, Batch(r)
      PROVE  HandlerKnows' /\ PartsOnTheWay' /\ TimesDiffer'
  <2>1. /\ pc[r] = "batch" /\ UNCHANGED <<kind, target>> /\ pc' = [pc EXCEPT ![r] = "wait"]
        /\ time' = [time EXCEPT ![r] = clock + 1] /\ pending' = pending \cup ({r} \X Parts(r))
    BY <1>3 DEF Batch
  <2>2. /\ \A s \in Requests \ {r} : time'[s] = time[s] /\ time[s] \in 0..clock
        /\ time'[r] = clock + 1 /\ clock + 1 > 0
    BY <2>1, <1>t
  <2>m. /\ \A s \in Requests \ {r} : created'[s] = created[s]
        /\ created'[r] # 0 <=> kind[r] = "comment"
    <3>1. PICK m \in IF kind[r] = "comment" THEN Millis ELSE {0} : created' = [created EXCEPT ![r] = m]
      BY <1>3 DEF Batch
    <3>2. m # 0 <=> kind[r] = "comment"
      BY <3>1, CommentsAssumption
    <3> QED BY <3>1, <3>2, <1>t
  <2>3. HandlerKnows'
    BY <2>1, <2>2, <2>m, <1>t, <1>i DEF HandlerKnows
  <2>4. PartsOnTheWay'
    BY <2>1, <2>2, <1>t, <1>i DEF PartsOnTheWay, Parts
  <2>5. TimesDiffer'
    BY <2>2, <1>t, <1>i DEF TimesDiffer
  <2> QED BY <2>3, <2>4, <2>5
<1>4. ASSUME NEW r \in Requests, Ack(r)
      PROVE  HandlerKnows' /\ PartsOnTheWay' /\ TimesDiffer'
  <2>1. /\ pc[r] = "wait" /\ UNCHANGED <<kind, target, created, time, pending>>
        /\ \A t \in Tables : <<r, t>> \notin pending
        /\ \/ kind[r] = "comment" /\ pc' = [pc EXCEPT ![r] = "incr"]
           \/ kind[r] = "deletePost" /\ pc' = [pc EXCEPT ![r] = "counters"]
           \/ pc' = [pc EXCEPT ![r] = "done"]
    BY <1>4 DEF Ack
  <2>2. HandlerKnows'
    BY <2>1, <1>t, <1>i DEF HandlerKnows
  <2>3. PartsOnTheWay'
    BY <2>1, <1>t, <1>i DEF PartsOnTheWay, Parts
  <2> QED BY <2>1, <2>2, <2>3, <1>d
<1>5. ASSUME NEW r \in Requests, IncrementCommentCount(r) \/ CountInCassandra(r) \/ DropCounters(r)
      PROVE  HandlerKnows' /\ PartsOnTheWay' /\ TimesDiffer'
  <2>1. /\ UNCHANGED <<kind, target, created, time, pending>>
        /\ \/ pc[r] \in {"incr", "fallback", "counters"} /\ pc' = [pc EXCEPT ![r] = "done"]
           \/ pc[r] = "incr" /\ pc' = [pc EXCEPT ![r] = "fallback"]
    BY <1>5 DEF IncrementCommentCount, CountInCassandra, DropCounters
  <2>2. HandlerKnows'
    BY <2>1, <1>t, <1>i DEF HandlerKnows
  <2>3. PartsOnTheWay'
    BY <2>1, <1>t, <1>i DEF PartsOnTheWay, Parts
  <2> QED BY <2>1, <2>2, <2>3, <1>d
<1>6. ASSUME NEW r \in Requests, Fail(r)
      PROVE  HandlerKnows' /\ PartsOnTheWay' /\ TimesDiffer'
  <2>1. /\ UNCHANGED <<kind, target, created, time, pending>>
        /\ pc[r] \in {"batch", "wait", "counters"} /\ pc' = [pc EXCEPT ![r] = "failed"]
    BY <1>6 DEF Fail
  <2>2. HandlerKnows'
    BY <2>1, <1>t, <1>i DEF HandlerKnows
  <2>3. PartsOnTheWay'
    BY <2>1, <1>t, <1>i DEF PartsOnTheWay, Parts
  <2> QED BY <2>1, <2>2, <2>3, <1>d
<1>7. ASSUME NEW r \in Requests, NEW t \in Tables, Apply(r, t)
      PROVE  HandlerKnows' /\ PartsOnTheWay' /\ TimesDiffer'
  BY <1>7, <1>k, <1>p, <1>d DEF Apply
<1>8. ASSUME NEW p \in Posts, Backfill(p)
      PROVE  HandlerKnows' /\ PartsOnTheWay' /\ TimesDiffer'
  BY <1>8, <1>k, <1>p, <1>d DEF Backfill
<1>9. CASE GetComments \/ GetReplies \/ NextPage
  BY <1>9, <1>k, <1>p, <1>d DEF GetComments, GetReplies, NextPage, StartScroll
<1>10. CASE UNCHANGED vars
  BY <1>10, <1>k, <1>p, <1>d DEF vars
<1> QED
  BY <1>1, <1>2, <1>3, <1>4, <1>5, <1>6, <1>7, <1>8, <1>9, <1>10 DEF Next, Handle

LEMMA ControlInit == Init => ControlInv
<1> SUFFICES ASSUME Init PROVE ControlInv
  OBVIOUS
<1>1. (CHOOSE p \in Posts : TRUE) \in Posts
  BY CommentsAssumption
<1>2. clock = 0 /\ 0 \in 0..clock /\ Empty \in Cell(clock)
  BY DEF Init, Empty, Cell
<1>3. StoreTyped /\ HandlersTyped
  BY <1>2 DEF Init, StoreTyped, HandlersTyped, Labels
<1>4. RowsTyped
  BY <1>2 DEF Init, RowsTyped
<1>5. AskTyped
  BY <1>1 DEF Init, AskTyped
<1>6. ReaderTyped
  BY <1>1, <1>2 DEF Init, Idle, ReaderTyped
<1>7. HandlerKnows
  BY CommentsAssumption DEF Init, HandlerKnows, Kinds
<1> QED
  BY <1>3, <1>4, <1>5, <1>6, <1>7, TypeParts DEF ControlInv, Init, PartsOnTheWay, TimesDiffer

\* Type correctness.
THEOREM CommentsTypeCorrect == Spec => []TypeOK
<1>1. ControlInv => TypeOK
  BY DEF ControlInv
<1> QED
  BY <1>1, ControlInit, ControlNext, PTL DEF Spec

-----------------------------------------------------------------------------
(* The two tables.                                                         *)

LatestInv == ControlInv /\ RowsLatest

LEMMA LatestInit == Init => LatestInv
<1> SUFFICES ASSUME Init PROVE RowsLatest
  BY ControlInit DEF LatestInv
<1>1. \A t \in Tables, c \in Requests, f \in Fields : rows[t][c][f] = 0
  BY DEF Init, Empty, Fields
<1>2. \A r \in Requests, t \in Tables : ~Landed(r, t)
  BY DEF Init, Landed
<1> QED
  BY <1>1, <1>2 DEF RowsLatest

LEMMA LatestNext == LatestInv /\ [Next]_vars => LatestInv'
<1> SUFFICES ASSUME LatestInv, [Next]_vars PROVE RowsLatest'
  BY ControlNext DEF LatestInv
<1>i. ControlInv /\ RowsLatest /\ ControlInv'
  BY ControlNext DEF LatestInv
<1>t. /\ kind \in [Requests -> Kinds \cup {None}] /\ target \in [Requests -> Requests \cup {None}]
      /\ pc \in [Requests -> Labels] /\ time \in [Requests -> 0..clock] /\ clock \in Nat
      /\ rows \in [Tables -> [Requests -> Cell(clock)]]
  BY <1>i, TypeParts DEF ControlInv, TypeOK, RowsTyped
<1> USE DEF Goto, request
\* A step by one whose writes have not landed, before it or after it.
<1>g. ASSUME NEW r \in Requests, rows' = rows,
             \A s \in Requests \ {r} : kind'[s] = kind[s] /\ target'[s] = target[s] /\ time'[s] = time[s],
             \A s \in Requests \ {r} : \A t \in Tables : <<s, t>> \in pending' <=> <<s, t>> \in pending,
             \A t \in Tables : ~Landed(r, t) /\ ~Landed(r, t)'
      PROVE  RowsLatest'
  <2>1. \A s \in Requests \ {r} : \A t \in Tables : Landed(s, t)' <=> Landed(s, t)
    BY <1>g DEF Landed
  <2>2. \A s \in Requests \ {r} : Cells(s)' = Cells(s) /\ RowOf(s)' = RowOf(s)
    BY <1>g DEF Cells, RowOf
  <2> QED BY <1>g, <1>i, <2>1, <2>2 DEF RowsLatest
<1>u. ASSUME UNCHANGED <<rows, kind, target, time, pending>> PROVE RowsLatest'
  <2>1. \A s \in Requests : \A t \in Tables : Landed(s, t)' <=> Landed(s, t)
    BY <1>u DEF Landed
  <2>2. \A s \in Requests : Cells(s)' = Cells(s) /\ RowOf(s)' = RowOf(s)
    BY <1>u DEF Cells, RowOf
  <2> QED BY <1>u, <1>i, <2>1, <2>2 DEF RowsLatest
<1>1. ASSUME NEW r \in Requests, Receive(r) PROVE RowsLatest'
  <2>1. PICK k \in Kinds, c \in Requests \cup {None}, p \in Posts : Accept(r, k, c, p)
    BY <1>1, <1>i, Received, TypeParts DEF ControlInv
  <2>2. /\ pc[r] = "idle" /\ kind' = [kind EXCEPT ![r] = k] /\ target' = [target EXCEPT ![r] = c]
        /\ UNCHANGED <<rows, time, pending>>
    BY <2>1 DEF Accept
  <2>3. time[r] = 0
    BY <2>2, <1>i DEF ControlInv, HandlerKnows
  <2> QED BY <2>2, <2>3, <1>t, <1>g DEF Landed
<1>2. ASSUME NEW r \in Requests, Read(r) PROVE RowsLatest'
  BY <1>2, <1>u DEF Read
<1>3. ASSUME NEW r \in Requests, Batch(r) PROVE RowsLatest'
  <2>1. /\ pc[r] = "batch" /\ UNCHANGED <<rows, kind, target>>
        /\ time' = [time EXCEPT ![r] = clock + 1] /\ pending' = pending \cup ({r} \X Parts(r))
    BY <1>3 DEF Batch
  <2>2. time[r] = 0
    BY <2>1, <1>i DEF ControlInv, HandlerKnows
  <2>3. \A t \in Tables : ~Landed(r, t)'
    BY <2>1 DEF Landed, Parts
  <2> QED BY <2>1, <2>2, <2>3, <1>t, <1>g DEF Landed
<1>4. ASSUME NEW r \in Requests, Ack(r) PROVE RowsLatest'
  BY <1>4, <1>u DEF Ack
<1>5. ASSUME NEW r \in Requests, IncrementCommentCount(r) \/ CountInCassandra(r) \/ DropCounters(r)
      PROVE  RowsLatest'
  BY <1>5, <1>u DEF IncrementCommentCount, CountInCassandra, DropCounters
<1>6. ASSUME NEW r \in Requests, Fail(r) PROVE RowsLatest'
  BY <1>6, <1>u DEF Fail
<1>7. ASSUME NEW r \in Requests, NEW t \in Tables, Apply(r, t) PROVE RowsLatest'
  <2>1. /\ UNCHANGED <<kind, target, time>> /\ <<r, t>> \in pending /\ pending' = pending \ {<<r, t>>}
    BY <1>7 DEF Apply
  <2>2. CASE kind[r] = "deletePost"
    <3>1. rows' = rows
      BY <1>7, <2>2 DEF Apply
    <3>2. \A s \in Tables : ~Landed(r, s) /\ ~Landed(r, s)'
      BY <2>1, <2>2 DEF Landed
    <3> QED BY <2>1, <3>1, <3>2, <1>g
  <2>3. CASE kind[r] # "deletePost"
    <3>k. kind[r] \in {"comment", "edit", "delete"} /\ time[r] > 0
      BY <2>1, <2>3, <1>i, OnTheWay DEF ControlInv, PartsOnTheWay
    <3> DEFINE c == RowOf(r)
               old == rows[t][c]
    <3>1. c \in Requests /\ Cells(r) \in Cell(clock) /\ old \in Cell(clock)
      BY <3>k, <1>i, <1>t, CellsTyped
    <3>2. rows' = [rows EXCEPT ![t][c] = Merged(old, Cells(r))]
      BY <1>7, <2>3 DEF Apply
    <3>3. \A s \in Requests : Cells(s)' = Cells(s) /\ RowOf(s)' = RowOf(s)
      BY <2>1 DEF Cells, RowOf
    <3>4. \A s \in Requests, u \in Tables : Landed(s, u)' <=> Landed(s, u) \/ (s = r /\ u = t)
      BY <2>1, <3>k DEF Landed
    <3>5. \A s \in Requests, u \in Tables : Landed(s, u) => \A f \in Fields : Cells(s)[f] \in Nat
      BY <1>i, CellsTyped DEF Landed
    <3> SUFFICES ASSUME NEW u \in Tables, NEW d \in Requests, NEW f \in Fields
                 PROVE  /\ \A s \in Requests : Landed(s, u)' /\ RowOf(s) = d => Cells(s)[f] <= rows'[u][d][f]
                        /\ \/ rows'[u][d][f] = 0
                           \/ \E s \in Requests : Landed(s, u)' /\ RowOf(s) = d /\ rows'[u][d][f] = Cells(s)[f]
      BY <3>3 DEF RowsLatest
    <3>i. /\ \A s \in Requests : Landed(s, u) /\ RowOf(s) = d => Cells(s)[f] <= rows[u][d][f]
          /\ \/ rows[u][d][f] = 0
             \/ \E s \in Requests : Landed(s, u) /\ RowOf(s) = d /\ rows[u][d][f] = Cells(s)[f]
      BY <1>i DEF RowsLatest
    <3>6. CASE u # t \/ d # c
      <4>1. rows'[u][d] = rows[u][d]
        BY <3>2, <3>6, <1>t
      <4> QED BY <4>1, <3>i, <3>4, <3>6
    <3>7. CASE u = t /\ d = c
      <4>1. rows'[u][d] = Merged(old, Cells(r))
        BY <3>2, <3>7, <3>1, <1>t
      <4>2. rows'[u][d][f] = IF old[f] > Cells(r)[f] THEN old[f] ELSE Cells(r)[f]
        BY <4>1, <3>1, <1>t, MergedCells
      <4>3. old[f] \in Nat /\ Cells(r)[f] \in Nat
        BY <3>1, <1>t, CellFields
      <4>4. \A s \in Requests : Landed(s, u)' /\ RowOf(s) = d => Cells(s)[f] <= rows'[u][d][f]
        <5> HIDE DEF old, c
        <5>1. rows[u][d] = old
          BY <3>7 DEF old
        <5> QED BY <4>2, <4>3, <5>1, <3>i, <3>4, <3>5
      <4>5. \/ rows'[u][d][f] = 0
            \/ \E s \in Requests : Landed(s, u)' /\ RowOf(s) = d /\ rows'[u][d][f] = Cells(s)[f]
        <5>1. CASE old[f] > Cells(r)[f]
          BY <5>1, <4>2, <3>i, <3>4, <3>7
        <5>2. CASE ~(old[f] > Cells(r)[f])
          BY <5>2, <4>2, <3>4, <3>7
        <5> QED BY <5>1, <5>2
      <4> QED BY <4>4, <4>5
    <3> QED BY <3>6, <3>7
  <2> QED BY <2>2, <2>3
<1>8. ASSUME NEW p \in Posts, Backfill(p) PROVE RowsLatest'
  BY <1>8, <1>u DEF Backfill
<1>9. CASE GetComments \/ GetReplies \/ NextPage
  BY <1>9, <1>u DEF GetComments, GetReplies, NextPage, StartScroll
<1>10. CASE UNCHANGED vars
  BY <1>10, <1>u DEF vars
<1> QED
  BY <1>1, <1>2, <1>3, <1>4, <1>5, <1>6, <1>7, <1>8, <1>9, <1>10 DEF Next, Handle

\* Whatever the order in which the parts of the batches reach the two tables,
\* these agree on a comment when nothing about it is on its way.
THEOREM CommentTablesAgree == Spec => []TablesAgree
<1>1. LatestInv => TablesAgree
  <2> SUFFICES ASSUME LatestInv, NEW c \in Stored,
                      \A r \in Requests, t \in Tables : <<r, t>> \in pending => RowOf(r) # c
               PROVE  ById(c) = rows["comments"][c]
    BY DEF TablesAgree
  <2>t. /\ rows \in [Tables -> [Requests -> Cell(clock)]] /\ clock \in Nat /\ c \in Requests
    BY TypeParts DEF LatestInv, ControlInv, RowsTyped, StoreTyped, Stored
  <2>1. ASSUME NEW t \in Tables, NEW u \in Tables, NEW f \in Fields
        PROVE  rows[t][c][f] <= rows[u][c][f]
    <3>1. rows[t][c][f] \in Nat /\ rows[u][c][f] \in Nat
      BY <2>t, CellFields
    <3>2. CASE rows[t][c][f] = 0
      BY <3>1, <3>2
    <3>3. CASE rows[t][c][f] # 0
      <4>1. PICK r \in Requests : Landed(r, t) /\ RowOf(r) = c /\ rows[t][c][f] = Cells(r)[f]
        BY <3>3, <2>t DEF LatestInv, RowsLatest
      <4>2. Landed(r, u)
        BY <4>1 DEF Landed
      <4> QED BY <4>1, <4>2, <2>t DEF LatestInv, RowsLatest
    <3> QED BY <3>2, <3>3
  <2>2. "comments_by_id" \in Tables /\ "comments" \in Tables
    BY DEF Tables
  <2>3. \A f \in Fields : rows["comments_by_id"][c][f] = rows["comments"][c][f]
    <3> TAKE f \in Fields
    <3>1. rows["comments_by_id"][c][f] \in Nat /\ rows["comments"][c][f] \in Nat
      BY <2>t, <2>2, CellFields
    <3> QED BY <3>1, <2>1, <2>2
  <2> QED BY <2>t, <2>2, <2>3, CellFields DEF ById
<1> QED
  BY <1>1, LatestInit, LatestNext, PTL DEF Spec

-----------------------------------------------------------------------------
(* Deletions.                                                              *)

FinalInv == LatestInv /\ LateKnow

\* Who reads a comment whose deletion has been answered finds it deleted.
LEMMA ReadMeetsDeletion ==
  ASSUME FinalInv, NEW r \in late, kind[r] \in {"comment", "edit"}
  PROVE  ~Allowed(r)
<1>1. PICK d \in Requests : kind[d] = "delete" /\ target[d] = target[r] /\ Answered(d)
  BY DEF FinalInv, LateKnow
<1>2. /\ time[d] > 0 /\ target[d] \in Requests
      /\ \A t \in Tables : <<d, t>> \notin pending
  BY <1>1 DEF FinalInv, LatestInv, ControlInv, HandlerKnows, PartsOnTheWay, Answered
<1>3. Landed(d, "comments_by_id") /\ RowOf(d) = target[r]
  BY <1>1, <1>2 DEF Landed, RowOf, Tables
<1>4. Cells(d).gone = time[d]
  BY <1>1 DEF Cells
<1>5. time[d] <= ById(target[r]).gone
  BY <1>1, <1>2, <1>3, <1>4 DEF FinalInv, LatestInv, RowsLatest, Tables, Fields, ById
<1>6. time[d] \in Nat /\ ById(target[r]).gone \in Nat
  BY <1>1, <1>2, CellFields, TypeParts
     DEF FinalInv, LatestInv, ControlInv, RowsTyped, HandlersTyped, StoreTyped, Tables, Fields, ById
<1>7. ById(target[r]).gone # 0 /\ target[r] # None
  BY <1>1, <1>2, <1>5, <1>6, CommentsAssumption
<1> QED
  BY <1>7 DEF Allowed, MayReply, MayEdit

LEMMA FinalNext == FinalInv /\ [Next]_vars => FinalInv'
<1> SUFFICES ASSUME FinalInv, [Next]_vars PROVE LateKnow'
  BY LatestNext DEF FinalInv
<1>i. ControlInv /\ LateKnow
  BY DEF FinalInv, LatestInv
<1>t. /\ kind \in [Requests -> Kinds \cup {None}] /\ target \in [Requests -> Requests \cup {None}]
      /\ pc \in [Requests -> Labels] /\ time \in [Requests -> 0..clock] /\ late \subseteq Requests
  BY <1>i DEF ControlInv, TypeOK
<1> USE DEF Goto, request, Answered
\* A step of a handler that has come in already, and is not late at the read.
<1>g. ASSUME NEW r \in Requests, NEW label \in Labels \ {"idle"}, pc[r] \notin {"idle", "done"},
             pc' = [pc EXCEPT ![r] = label], UNCHANGED <<kind, target, late>>,
             \A s \in Requests \ {r} : time'[s] = time[s],
             r \in late /\ kind[r] \in {"comment", "edit"} => label = "failed" /\ time'[r] = time[r]
      PROVE  LateKnow'
  <2>1. \A s \in Requests : pc'[s] = IF s = r THEN label ELSE pc[s]
    BY <1>g, <1>t
  <2> SUFFICES ASSUME NEW s \in late
               PROVE  /\ pc'[s] # "idle"
                      /\ \E d \in Requests : kind[d] = "delete" /\ target[d] = target[s] /\ pc'[d] = "done"
                      /\ kind[s] \in {"comment", "edit"} => pc'[s] \in {"read", "failed"} /\ time'[s] = 0
    BY <1>g DEF LateKnow
  <2>2. PICK d \in Requests : kind[d] = "delete" /\ target[d] = target[s] /\ pc[d] = "done"
    BY <1>i DEF LateKnow
  <2>3. pc'[d] = "done"
    BY <2>1, <2>2, <1>g
  <2> QED BY <2>1, <2>2, <2>3, <1>g, <1>i, <1>t DEF LateKnow
<1>u. UNCHANGED <<kind, target, late, pc, time>> => LateKnow'
  BY <1>i DEF LateKnow
<1>1. ASSUME NEW r \in Requests, Receive(r) PROVE LateKnow'
  <2>1. PICK k \in Kinds, c \in Requests \cup {None}, p \in Posts : Accept(r, k, c, p)
    BY <1>1, <1>i, Received, TypeParts DEF ControlInv
  <2>2. /\ pc[r] = "idle" /\ kind' = [kind EXCEPT ![r] = k] /\ target' = [target EXCEPT ![r] = c]
        /\ pc' = [pc EXCEPT ![r] = "read"] /\ time' = time
        /\ \/ late' = late
           \/ late' = late \cup {r} /\ \E d \in Requests : kind[d] = "delete" /\ target[d] = c /\ pc[d] = "done"
    BY <2>1 DEF Accept
  <2>3. time[r] = 0 /\ r \notin late
    BY <2>2, <1>i DEF ControlInv, HandlerKnows, LateKnow
  <2>4. ASSUME NEW d \in Requests, kind[d] = "delete", pc[d] = "done"
        PROVE  kind'[d] = "delete" /\ pc'[d] = "done" /\ target'[d] = target[d]
    BY <2>2, <2>4, <1>t
  <2>5. ASSUME NEW s \in late
        PROVE  /\ pc'[s] # "idle"
               /\ \E d \in Requests : kind'[d] = "delete" /\ target'[d] = target'[s] /\ pc'[d] = "done"
               /\ kind'[s] \in {"comment", "edit"} => pc'[s] \in {"read", "failed"} /\ time'[s] = 0
    <3>1. pc'[s] = pc[s] /\ kind'[s] = kind[s] /\ target'[s] = target[s]
      BY <2>2, <2>3, <1>t
    <3>2. PICK d \in Requests : kind[d] = "delete" /\ target[d] = target[s] /\ pc[d] = "done"
      BY <1>i DEF LateKnow
    <3> QED BY <3>1, <3>2, <2>2, <2>4, <1>i DEF LateKnow
  <2>6. ASSUME r \in late'
        PROVE  /\ pc'[r] # "idle"
               /\ \E d \in Requests : kind'[d] = "delete" /\ target'[d] = target'[r] /\ pc'[d] = "done"
               /\ kind'[r] \in {"comment", "edit"} => pc'[r] \in {"read", "failed"} /\ time'[r] = 0
    <3>1. PICK d \in Requests : kind[d] = "delete" /\ target[d] = c /\ pc[d] = "done"
      BY <2>2, <2>3, <2>6
    <3>2. pc'[r] = "read" /\ target'[r] = c /\ time'[r] = 0
      BY <2>2, <2>3, <1>t
    <3> QED BY <3>1, <3>2, <2>4
  <2> QED BY <2>2, <2>5, <2>6 DEF LateKnow
<1>2. ASSUME NEW r \in Requests, Read(r) PROVE LateKnow'
  <2>1. pc[r] = "read" /\ UNCHANGED <<kind, target, late, time>>
        /\ pc' = [pc EXCEPT ![r] = IF Allowed(r) THEN "batch" ELSE "failed"]
    BY <1>2 DEF Read
  <2>2. r \in late /\ kind[r] \in {"comment", "edit"} => ~Allowed(r)
    BY ReadMeetsDeletion
  <2>3. CASE Allowed(r)
    BY <2>1, <2>2, <2>3, <1>g DEF Labels
  <2>4. CASE ~Allowed(r)
    BY <2>1, <2>4, <1>g DEF Labels
  <2> QED BY <2>3, <2>4
<1>3. ASSUME NEW r \in Requests, Batch(r) PROVE LateKnow'
  <2>1. /\ pc[r] = "batch" /\ UNCHANGED <<kind, target, late>> /\ pc' = [pc EXCEPT ![r] = "wait"]
        /\ time' = [time EXCEPT ![r] = clock']
    BY <1>3 DEF Batch
  <2>2. ~(r \in late /\ kind[r] \in {"comment", "edit"})
    BY <2>1, <1>i DEF LateKnow
  <2> QED BY <2>1, <2>2, <1>g, <1>t DEF Labels
<1>4. ASSUME NEW r \in Requests,
             Ack(r) \/ IncrementCommentCount(r) \/ CountInCassandra(r) \/ DropCounters(r) \/ Fail(r)
      PROVE  LateKnow'
  <2>1. UNCHANGED <<kind, target, late, time>>
    BY <1>4 DEF Ack, IncrementCommentCount, CountInCassandra, DropCounters, Fail
  <2>2. PICK label \in Labels \ {"idle"} : pc' = [pc EXCEPT ![r] = label]
    BY <1>4 DEF Ack, IncrementCommentCount, CountInCassandra, DropCounters, Fail, Labels
  <2>3. pc[r] \in {"batch", "wait", "incr", "fallback", "counters"}
    BY <1>4 DEF Ack, IncrementCommentCount, CountInCassandra, DropCounters, Fail
  <2>4. ~(r \in late /\ kind[r] \in {"comment", "edit"})
    BY <2>3, <1>i DEF LateKnow
  <2> QED BY <2>1, <2>2, <2>3, <2>4, <1>g
<1>5. ASSUME NEW r \in Requests, NEW t \in Tables, Apply(r, t) PROVE LateKnow'
  BY <1>5, <1>u DEF Apply
<1>6. ASSUME NEW p \in Posts, Backfill(p) PROVE LateKnow'
  BY <1>6, <1>u DEF Backfill
<1>7. CASE GetComments \/ GetReplies \/ NextPage
  BY <1>7, <1>u DEF GetComments, GetReplies, NextPage, StartScroll
<1>8. CASE UNCHANGED vars
  BY <1>8, <1>u DEF vars
<1> QED
  BY <1>1, <1>2, <1>3, <1>4, <1>5, <1>6, <1>7, <1>8 DEF Next, Handle

\* What is asked of a comment after its deletion has been answered changes nothing:
\* the read meets the deletion, whatever else is on its way.
THEOREM DeletionsAreFinal == Spec => []DeletedIsFinal
<1>1. FinalInv => DeletedIsFinal
  BY DEF FinalInv, LateKnow, DeletedIsFinal
<1>2. Init => FinalInv
  BY LatestInit DEF Init, FinalInv, LateKnow
<1> QED
  BY <1>1, <1>2, FinalNext, PTL DEF Spec

-----------------------------------------------------------------------------
(* The counters.                                                           *)

CountInv == ControlInv /\ CountsCovered /\ CountsCalm

\* One joins a set, or stays where it is.
LEMMA OneJoins ==
  ASSUME NEW S, NEW T, NEW x, IsFiniteSet(S), T \ {x} = S \ {x}, x \in S => x \in T
  PROVE  /\ IsFiniteSet(T) /\ Cardinality(S) \in Nat /\ Cardinality(T) \in Nat
         /\ Cardinality(T) = Cardinality(S) + (IF x \in T /\ x \notin S THEN 1 ELSE 0)
         /\ (x \in T => x \in S) => T = S
<1>1. CASE x \in T /\ x \notin S
  <2>1. T = S \cup {x}
    BY <1>1
  <2> QED BY <1>1, <2>1, FS_AddElement, FS_CardinalityType
<1>2. CASE ~(x \in T /\ x \notin S)
  <2>1. T = S
    BY <1>2
  <2> QED BY <1>2, <2>1, FS_CardinalityType
<1> QED
  BY <1>1, <1>2

LEMMA AtFinite ==
  \A p, labels : /\ At(p, labels) \subseteq Requests
                 /\ IsFiniteSet(At(p, labels)) /\ Cardinality(At(p, labels)) \in Nat
<1>1. \A p, labels : At(p, labels) \in SUBSET Requests
  BY DEF At
<1> QED
  BY <1>1, CommentsAssumption, FS_Subset, FS_CardinalityType

\* Where the steps of a handler leave the comments.
LEMMA AtMoves ==
  ASSUME ControlInv, NEW r \in Requests, NEW label \in Labels, pc' = [pc EXCEPT ![r] = label],
         UNCHANGED <<kind, post>>
  PROVE  \A p, labels :
           /\ At(p, labels)' \ {r} = At(p, labels) \ {r}
           /\ r \in At(p, labels)' <=> kind[r] = "comment" /\ post[r] = p /\ label \in labels
           /\ r \in At(p, labels) <=> kind[r] = "comment" /\ post[r] = p /\ pc[r] \in labels
<1>1. \A s \in Requests : pc'[s] = IF s = r THEN label ELSE pc[s]
  BY DEF ControlInv, TypeOK
<1> QED
  BY <1>1 DEF At

\* A request that comes in is none of them yet.
LEMMA AtReceived ==
  ASSUME ControlInv, NEW r \in Requests, Receive(r), NEW p, NEW labels \in SUBSET {"fallback", "done", "failed"}
  PROVE  At(p, labels)' = At(p, labels)
<1>1. PICK k \in Kinds, c \in Requests \cup {None}, q \in Posts : Accept(r, k, c, q)
  BY Received, TypeParts DEF ControlInv
<1>2. /\ pc[r] = "idle" /\ kind' = [kind EXCEPT ![r] = k] /\ post' = [post EXCEPT ![r] = q]
      /\ pc' = [pc EXCEPT ![r] = "read"]
  BY <1>1 DEF Accept, Goto
<1>3. /\ kind \in [Requests -> Kinds \cup {None}] /\ post \in [Requests -> Posts]
      /\ pc \in [Requests -> Labels]
  BY DEF ControlInv, TypeOK
<1> QED
  BY <1>2, <1>3 DEF At

LEMMA CountInit == Init => CountInv
<1> SUFFICES ASSUME Init PROVE CountsCovered /\ CountsCalm
  BY ControlInit DEF CountInv
<1>1. \A p, labels : At(p, labels) = {}
  BY CommentsAssumption DEF Init, At, Kinds
<1>2. Cardinality({}) = 0
  BY FS_EmptySet
<1>3. \A p \in Posts : redis[p] = 0 /\ counts[p] = 0
  BY DEF Init
<1> QED
  BY <1>1, <1>2, <1>3 DEF CountsCovered, CountsCalm

LEMMA CountNext == CountInv /\ [Next]_vars => CountInv'
<1> SUFFICES ASSUME CountInv, [Next]_vars PROVE CountsCovered' /\ CountsCalm'
  BY ControlNext DEF CountInv
<1>i. ControlInv /\ CountsCovered /\ CountsCalm
  BY DEF CountInv
<1>t. /\ kind \in [Requests -> Kinds \cup {None}] /\ post \in [Requests -> Posts]
      /\ pc \in [Requests -> Labels] /\ time \in [Requests -> 0..clock]
      /\ redis \in [Posts -> Nat] /\ counts \in [Posts -> Nat]
  BY <1>i DEF ControlInv, TypeOK
<1>k. HandlerKnows
  BY <1>i DEF ControlInv
<1> USE DEF Goto, request
<1> DEFINE Redis == {"fallback", "done"}
\* A step of a handler that counts nothing.
<1>g. ASSUME NEW r \in Requests, NEW label \in Labels, pc' = [pc EXCEPT ![r] = label],
             UNCHANGED <<kind, post, redis, counts>>, pc[r] \notin Redis,
             kind[r] = "comment" => label \notin Redis,
             disturbed \subseteq disturbed',
             \A s \in Requests \ {r} : time'[s] = time[s],
             kind[r] = "comment" /\ label = "failed" => time'[r] = 0 \/ post[r] \in disturbed'
      PROVE  CountsCovered' /\ CountsCalm'
  <2>1. \A p : \A labels \in SUBSET Redis : At(p, labels)' = At(p, labels)
    <3> TAKE p
    <3> TAKE labels \in SUBSET Redis
    <3>1. /\ At(p, labels)' \ {r} = At(p, labels) \ {r}
          /\ r \in At(p, labels)' <=> kind[r] = "comment" /\ post[r] = p /\ label \in labels
          /\ r \in At(p, labels) <=> kind[r] = "comment" /\ post[r] = p /\ pc[r] \in labels
      BY <1>g, <1>i, AtMoves
    <3> QED BY <1>g, <3>1
  <2>2. {"fallback"} \in SUBSET Redis /\ {"done"} \in SUBSET Redis /\ Redis \in SUBSET Redis
    OBVIOUS
  <2>3. CountsCovered'
    BY <1>g, <1>i, <2>1, <2>2 DEF CountsCovered
  <2>4. \A p \in Posts \ disturbed' : \A c \in At(p, {"failed"})' : time'[c] = 0
    <3> TAKE p \in Posts \ disturbed'
    <3> TAKE c \in At(p, {"failed"})'
    <3>m. /\ At(p, {"failed"})' \ {r} = At(p, {"failed"}) \ {r}
          /\ r \in At(p, {"failed"})' <=> kind[r] = "comment" /\ post[r] = p /\ label \in {"failed"}
      <4>1. ASSUME NEW labels
            PROVE  /\ At(p, labels)' \ {r} = At(p, labels) \ {r}
                   /\ r \in At(p, labels)' <=> kind[r] = "comment" /\ post[r] = p /\ label \in labels
        BY <1>g, <1>i, AtMoves
      <4> QED BY <4>1
    <3>1. CASE c = r
      <4>1. kind[r] = "comment" /\ post[r] = p /\ label = "failed"
        BY <3>1, <3>m
      <4> QED BY <3>1, <4>1, <1>g
    <3>2. CASE c # r
      <4>1. c \in At(p, {"failed"}) /\ c \in Requests
        BY <3>2, <3>m, AtFinite
      <4> QED BY <3>2, <4>1, <1>g, <1>i DEF CountsCalm
    <3> QED BY <3>1, <3>2
  <2> QED BY <1>g, <1>i, <2>1, <2>2, <2>3, <2>4 DEF CountsCalm
\* A step of no handler.
<1>u. ASSUME UNCHANGED <<kind, post, pc, time, redis, counts, disturbed>> PROVE CountsCovered' /\ CountsCalm'
  <2>1. \A p, labels : At(p, labels)' = At(p, labels)
    BY <1>u DEF At
  <2> QED BY <1>u, <1>i, <2>1 DEF CountsCovered, CountsCalm
<1>1. ASSUME NEW r \in Requests, Receive(r) PROVE CountsCovered' /\ CountsCalm'
  <2>1. UNCHANGED <<redis, counts, time, disturbed>>
    BY <1>1, <1>i, Received, TypeParts DEF ControlInv, Accept
  <2>2. \A p : \A labels \in SUBSET {"fallback", "done", "failed"} : At(p, labels)' = At(p, labels)
    BY <1>1, <1>i, AtReceived
  <2>3. \A x \in {"fallback", "done", "failed"} : {x} \in SUBSET {"fallback", "done", "failed"}
    OBVIOUS
  <2>4. Redis \in SUBSET {"fallback", "done", "failed"}
    OBVIOUS
  <2>5. CountsCovered'
    BY <2>1, <2>2, <2>3, <2>4, <1>i DEF CountsCovered
  <2>6. CountsCalm'
    BY <2>1, <2>2, <2>3, <1>i DEF CountsCalm
  <2> QED BY <2>5, <2>6
<1>2. ASSUME NEW r \in Requests, Read(r) PROVE CountsCovered' /\ CountsCalm'
  <2>1. /\ pc[r] = "read" /\ UNCHANGED <<kind, post, redis, counts, time, disturbed>>
        /\ pc' = [pc EXCEPT ![r] = IF Allowed(r) THEN "batch" ELSE "failed"]
    BY <1>2 DEF Read
  <2>2. time[r] = 0
    BY <2>1, <1>k DEF HandlerKnows
  <2>3. CASE Allowed(r)
    BY <2>1, <2>2, <2>3, <1>g DEF Labels
  <2>4. CASE ~Allowed(r)
    BY <2>1, <2>2, <2>4, <1>g DEF Labels
  <2> QED BY <2>3, <2>4
<1>3. ASSUME NEW r \in Requests, Batch(r) PROVE CountsCovered' /\ CountsCalm'
  <2>1. /\ pc[r] = "batch" /\ UNCHANGED <<kind, post, redis, counts>> /\ pc' = [pc EXCEPT ![r] = "wait"]
        /\ time' = [time EXCEPT ![r] = clock'] /\ disturbed \subseteq disturbed'
    BY <1>3 DEF Batch
  <2> QED BY <2>1, <1>g, <1>t DEF Labels
<1>4. ASSUME NEW r \in Requests, Ack(r) PROVE CountsCovered' /\ CountsCalm'
  <2>1. /\ pc[r] = "wait" /\ UNCHANGED <<kind, post, redis, counts, time, disturbed>>
        /\ \/ kind[r] = "comment" /\ pc' = [pc EXCEPT ![r] = "incr"]
           \/ kind[r] = "deletePost" /\ pc' = [pc EXCEPT ![r] = "counters"]
           \/ kind[r] # "comment" /\ pc' = [pc EXCEPT ![r] = "done"]
    BY <1>4 DEF Ack
  <2> QED BY <2>1, <1>g DEF Labels
<1>5. ASSUME NEW r \in Requests, IncrementCommentCount(r) PROVE CountsCovered' /\ CountsCalm'
  <2>1. pc[r] = "incr" /\ kind[r] = "comment" /\ UNCHANGED <<kind, post, counts, time>> /\ post[r] \in Posts
    BY <1>5, <1>k, <1>t DEF IncrementCommentCount, HandlerKnows
  <2>2. /\ redis' = redis \/ redis' = [redis EXCEPT ![post[r]] = @ + 1]
        /\ \/ /\ redis' = [redis EXCEPT ![post[r]] = @ + 1] /\ disturbed' = disturbed
              /\ pc' = [pc EXCEPT ![r] = "done"]
           \/ pc' = [pc EXCEPT ![r] = "fallback"] /\ disturbed' = disturbed \cup {post[r]}
    BY <1>5 DEF IncrementCommentCount
  <2> PICK label \in {"fallback", "done"} : pc' = [pc EXCEPT ![r] = label]
    BY <2>2
  <2>3. \A p, labels : /\ At(p, labels)' \ {r} = At(p, labels) \ {r}
                       /\ r \in At(p, labels)' <=> post[r] = p /\ label \in labels
                       /\ r \in At(p, labels) <=> post[r] = p /\ "incr" \in labels
    <3> TAKE p, labels
    <3>1. label \in Labels
      BY DEF Labels
    <3>2. /\ At(p, labels)' \ {r} = At(p, labels) \ {r}
          /\ r \in At(p, labels)' <=> kind[r] = "comment" /\ post[r] = p /\ label \in labels
          /\ r \in At(p, labels) <=> kind[r] = "comment" /\ post[r] = p /\ pc[r] \in labels
      BY <2>1, <3>1, <1>i, AtMoves
    <3> QED BY <2>1, <3>2
  <2>4. \A p \in Posts :
          Cardinality(At(p, Redis)') = Cardinality(At(p, Redis)) + (IF post[r] = p THEN 1 ELSE 0)
    BY <2>3, AtFinite, OneJoins
  <2>5. \A p \in Posts :
          Cardinality(At(p, {"done"})') = Cardinality(At(p, {"done"})) + (IF post[r] = p /\ label = "done" THEN 1 ELSE 0)
    BY <2>3, AtFinite, OneJoins
  <2>6. \A p \in Posts : redis'[p] \in {redis[p], redis[p] + (IF post[r] = p THEN 1 ELSE 0)}
    BY <2>1, <2>2, <1>t
  <2>n. \A p \in Posts : redis[p] \in Nat /\ counts[p] \in Nat /\ Cardinality(At(p, Redis)) \in Nat
                        /\ Cardinality(At(p, {"done"})) \in Nat
    BY <1>t, AtFinite
  <2>7. CountsCovered'
    BY <2>1, <2>4, <2>5, <2>6, <2>n, <1>i DEF CountsCovered
  <2>8. CountsCalm'
    <3> SUFFICES ASSUME NEW p \in Posts, p \notin disturbed'
                 PROVE  /\ counts'[p] = 0 /\ redis'[p] = Cardinality(At(p, {"done"})')
                        /\ At(p, {"fallback"})' = {}
                        /\ \A c \in At(p, {"failed"})' : time'[c] = 0
      BY DEF CountsCalm
    <3>1. p \notin disturbed /\ (post[r] = p => label = "done" /\ redis' = [redis EXCEPT ![post[r]] = @ + 1])
      BY <2>2, <1>t
    <3>2. At(p, {"fallback"})' = At(p, {"fallback"}) /\ At(p, {"failed"})' = At(p, {"failed"})
      <4>1. ASSUME NEW x \in {"fallback", "failed"} PROVE At(p, {x})' = At(p, {x})
        <5>1. /\ At(p, {x})' \ {r} = At(p, {x}) \ {r}
              /\ r \in At(p, {x})' <=> post[r] = p /\ label \in {x}
              /\ r \in At(p, {x}) <=> post[r] = p /\ "incr" \in {x}
          BY <2>3
        <5> QED BY <5>1, <3>1
      <4> QED BY <4>1
    <3>3. redis'[p] = Cardinality(At(p, {"done"})')
      BY <2>2, <2>5, <2>n, <3>1, <1>i, <1>t DEF CountsCalm
    <3> QED BY <2>1, <3>1, <3>2, <3>3, <1>i DEF CountsCalm
  <2> QED BY <2>7, <2>8
<1>6. ASSUME NEW r \in Requests, CountInCassandra(r) PROVE CountsCovered' /\ CountsCalm'
  <2>1. /\ pc[r] = "fallback" /\ kind[r] = "comment" /\ UNCHANGED <<kind, post, redis, time, disturbed>>
        /\ post[r] \in Posts /\ pc' = [pc EXCEPT ![r] = "done"]
        /\ counts' = counts \/ counts' = [counts EXCEPT ![post[r]] = @ + 1]
    BY <1>6, <1>k, <1>t DEF CountInCassandra, HandlerKnows
  <2>2. \A p, labels : /\ At(p, labels)' \ {r} = At(p, labels) \ {r}
                       /\ r \in At(p, labels)' <=> post[r] = p /\ "done" \in labels
                       /\ r \in At(p, labels) <=> post[r] = p /\ "fallback" \in labels
    <3> TAKE p, labels
    <3>1. "done" \in Labels
      BY DEF Labels
    <3>2. /\ At(p, labels)' \ {r} = At(p, labels) \ {r}
          /\ r \in At(p, labels)' <=> kind[r] = "comment" /\ post[r] = p /\ "done" \in labels
          /\ r \in At(p, labels) <=> kind[r] = "comment" /\ post[r] = p /\ pc[r] \in labels
      BY <2>1, <3>1, <1>i, AtMoves
    <3> QED BY <2>1, <3>2
  <2>3. \A p \in Posts : At(p, Redis)' = At(p, Redis)
    BY <2>2
  <2>4. \A p \in Posts :
          Cardinality(At(p, {"done"})') = Cardinality(At(p, {"done"})) + (IF post[r] = p THEN 1 ELSE 0)
    BY <2>2, AtFinite, OneJoins
  <2>5. \A p \in Posts : counts'[p] \in {counts[p], counts[p] + (IF post[r] = p THEN 1 ELSE 0)}
    BY <2>1, <1>t
  <2>n. \A p \in Posts : counts[p] \in Nat /\ Cardinality(At(p, {"done"})) \in Nat
    BY <1>t, AtFinite
  <2>6. CountsCovered'
    BY <2>1, <2>3, <2>4, <2>5, <2>n, <1>i DEF CountsCovered
  <2>7. CountsCalm'
    <3> SUFFICES ASSUME NEW p \in Posts, p \notin disturbed
                 PROVE  /\ counts'[p] = 0 /\ redis'[p] = Cardinality(At(p, {"done"})')
                        /\ At(p, {"fallback"})' = {}
                        /\ \A c \in At(p, {"failed"})' : time'[c] = 0
      BY <2>1 DEF CountsCalm
    <3>1. post[r] # p
      BY <2>1, <2>2, <1>i DEF CountsCalm
    <3>2. \A labels : At(p, labels)' = At(p, labels)
      BY <2>2, <3>1
    <3>3. counts'[p] = counts[p]
      BY <2>1, <3>1, <1>t
    <3> QED BY <2>1, <3>2, <3>3, <1>i DEF CountsCalm
  <2> QED BY <2>6, <2>7
<1>7. ASSUME NEW r \in Requests, DropCounters(r) PROVE CountsCovered' /\ CountsCalm'
  <2>1. /\ kind[r] # "comment" /\ UNCHANGED <<kind, post, redis, time, disturbed>>
        /\ pc' = [pc EXCEPT ![r] = "done"] /\ counts' = [counts EXCEPT ![post[r]] = 0]
    BY <1>7, <1>k DEF DropCounters, HandlerKnows
  <2>2. \A p, labels : At(p, labels)' = At(p, labels)
    <3> TAKE p, labels
    <3>1. "done" \in Labels
      BY DEF Labels
    <3>2. /\ At(p, labels)' \ {r} = At(p, labels) \ {r}
          /\ r \in At(p, labels)' <=> kind[r] = "comment" /\ post[r] = p /\ "done" \in labels
          /\ r \in At(p, labels) <=> kind[r] = "comment" /\ post[r] = p /\ pc[r] \in labels
      BY <2>1, <3>1, <1>i, AtMoves
    <3> QED BY <2>1, <3>2
  <2>3. \A p \in Posts : counts'[p] \in {0, counts[p]}
    BY <2>1, <1>t
  <2>n. \A p \in Posts : Cardinality(At(p, {"done"})) \in Nat
    BY AtFinite
  <2> QED BY <2>1, <2>2, <2>3, <2>n, <1>i DEF CountsCovered, CountsCalm
<1>8. ASSUME NEW r \in Requests, Fail(r) PROVE CountsCovered' /\ CountsCalm'
  <2>1. /\ UNCHANGED <<kind, post, redis, counts, time>> /\ pc[r] \in {"batch", "wait", "counters"}
        /\ pc' = [pc EXCEPT ![r] = "failed"] /\ disturbed' = disturbed \cup {post[r]}
    BY <1>8 DEF Fail
  <2> QED BY <2>1, <1>g DEF Labels
<1>9. ASSUME NEW r \in Requests, NEW t \in Tables, Apply(r, t) PROVE CountsCovered' /\ CountsCalm'
  BY <1>9, <1>u DEF Apply
<1>10. ASSUME NEW q \in Posts, Backfill(q) PROVE CountsCovered' /\ CountsCalm'
  <2>1. /\ redis' = [redis EXCEPT ![q] = counts[q]] /\ disturbed' = disturbed \cup {q}
        /\ UNCHANGED <<kind, post, pc, time, counts>>
    BY <1>10 DEF Backfill
  <2>2. \A p, labels : At(p, labels)' = At(p, labels)
    BY <2>1 DEF At
  <2>3. \A p \in Posts : Cardinality(At(p, {"done"})) <= Cardinality(At(p, Redis))
    <3>1. \A p \in Posts : At(p, {"done"}) \subseteq At(p, Redis)
      BY DEF At
    <3> QED BY <3>1, AtFinite, FS_Subset
  <2>4. \A p \in Posts : redis'[p] = IF p = q THEN counts[p] ELSE redis[p]
    BY <2>1, <1>t
  <2>n. \A p \in Posts : /\ counts[p] \in Nat /\ Cardinality(At(p, {"done"})) \in Nat
                        /\ Cardinality(At(p, Redis)) \in Nat
    BY <1>t, AtFinite
  <2>5. CountsCovered'
    BY <2>1, <2>2, <2>3, <2>4, <2>n, <1>i DEF CountsCovered
  <2>6. CountsCalm'
    BY <2>1, <2>2, <2>4, <1>i DEF CountsCalm
  <2> QED BY <2>5, <2>6
<1>11. CASE GetComments \/ GetReplies \/ NextPage
  BY <1>11, <1>u DEF GetComments, GetReplies, NextPage, StartScroll
<1>12. CASE UNCHANGED vars
  BY <1>12, <1>u DEF vars
<1> QED
  BY <1>1, <1>2, <1>3, <1>4, <1>5, <1>6, <1>7, <1>8, <1>9, <1>10, <1>11, <1>12 DEF Next, Handle

\* However the two counters fail, are filled from each other and are taken down,
\* what is shown as the count never exceeds the comments made.
THEOREM CountsNeverOver == Spec => []CountNeverOver
<1>1. CountInv => CountNeverOver
  <2> SUFFICES ASSUME CountInv, NEW p \in Posts PROVE CommentCount(p) <= Cardinality(Made(p))
    BY DEF CountNeverOver
  <2>1. At(p, {"fallback", "done"}) \subseteq Made(p) /\ At(p, {"done"}) \subseteq Made(p)
    BY DEF CountInv, ControlInv, HandlerKnows, At, Made
  <2>2. Made(p) \in SUBSET Requests
    BY DEF Made
  <2>3. IsFiniteSet(Made(p)) /\ Cardinality(Made(p)) \in Nat
    BY <2>2, CommentsAssumption, FS_Subset, FS_CardinalityType
  <2>4. /\ Cardinality(At(p, {"fallback", "done"})) <= Cardinality(Made(p))
        /\ Cardinality(At(p, {"done"})) <= Cardinality(Made(p))
    BY <2>1, <2>3, FS_Subset
  <2>5. redis[p] \in Nat /\ counts[p] \in Nat
    BY DEF CountInv, ControlInv, TypeOK
  <2> QED BY <2>3, <2>4, <2>5, AtFinite DEF CountInv, CountsCovered, CommentCount
<1> QED
  BY <1>1, CountInit, CountNext, PTL DEF Spec

\* Where nothing has failed the count is that of the comments made.
THEOREM CountsExactWhenCalm == Spec => []CountExactWhenCalm
<1>1. CountInv => CountExactWhenCalm
  <2> SUFFICES ASSUME CountInv, \A r \in Requests : pc[r] \in {"idle", "done", "failed"},
                      NEW p \in Posts \ disturbed
               PROVE  CommentCount(p) = Cardinality(Made(p))
    BY DEF CountExactWhenCalm
  <2>1. /\ counts[p] = 0 /\ redis[p] = Cardinality(At(p, {"done"}))
        /\ \A c \in At(p, {"failed"}) : time[c] = 0
    BY DEF CountInv, CountsCalm
  <2>2. ASSUME NEW c \in Requests PROVE c \in Made(p) <=> c \in At(p, {"done"})
    BY <2>1 DEF CountInv, ControlInv, HandlerKnows, At, Made
  <2>3. Made(p) = At(p, {"done"})
    BY <2>2 DEF Made, At
  <2>4. redis[p] \in Nat
    BY DEF CountInv, ControlInv, TypeOK
  <2> QED BY <2>1, <2>3, <2>4 DEF CommentCount
<1> QED
  BY <1>1, CountInit, CountNext, PTL DEF Spec

-----------------------------------------------------------------------------
(* The scroll.                                                             *)

ScrollInv == LatestInv /\ ReaderKnows

\* A request whose batch is logged is settled: what it asks for and its time do
\* not change, what has landed stays, and the deletions of a partition only move on.
LEMMA Settled ==
  ASSUME ControlInv, [Next]_vars
  PROVE  /\ \A s \in Requests : time[s] > 0 =>
              /\ kind'[s] = kind[s] /\ target'[s] = target[s] /\ post'[s] = post[s]
              /\ time'[s] = time[s] /\ created'[s] = created[s]
              /\ \A t \in Tables : <<s, t>> \notin pending => <<s, t>> \notin pending'
         /\ \A p \in Posts : tomb[p] <= tomb'[p]
<1> DEFINE Goal == /\ \A s \in Requests : time[s] > 0 =>
                        /\ kind'[s] = kind[s] /\ target'[s] = target[s] /\ post'[s] = post[s]
                        /\ time'[s] = time[s] /\ created'[s] = created[s]
                        /\ \A t \in Tables : <<s, t>> \notin pending => <<s, t>> \notin pending'
                   /\ \A p \in Posts : tomb[p] <= tomb'[p]
<1>t. /\ kind \in [Requests -> Kinds \cup {None}] /\ target \in [Requests -> Requests \cup {None}]
      /\ post \in [Requests -> Posts] /\ pc \in [Requests -> Labels]
      /\ time \in [Requests -> 0..clock] /\ tomb \in [Posts -> 0..clock] /\ clock \in Nat
      /\ created \in [Requests -> Millis \cup {0}]
  BY DEF ControlInv, TypeOK
<1>n. \A p \in Posts : tomb[p] <= tomb[p]
  BY <1>t
<1> USE DEF request
<1>u. UNCHANGED <<kind, target, post, created, time, tomb>> /\ pending' \subseteq pending => Goal
  BY <1>n
<1>1. ASSUME NEW r \in Requests, Receive(r) PROVE Goal
  <2>1. PICK k \in Kinds, c \in Requests \cup {None}, p \in Posts : Accept(r, k, c, p)
    BY <1>1, Received, TypeParts DEF ControlInv
  <2>2. /\ pc[r] = "idle" /\ kind' = [kind EXCEPT ![r] = k] /\ target' = [target EXCEPT ![r] = c]
        /\ post' = [post EXCEPT ![r] = p] /\ UNCHANGED <<created, time, tomb, pending>>
    BY <2>1 DEF Accept
  <2>3. time[r] = 0
    BY <2>2 DEF ControlInv, HandlerKnows
  <2>4. \A s \in Requests \ {r} : kind'[s] = kind[s] /\ target'[s] = target[s] /\ post'[s] = post[s]
    BY <2>2, <1>t
  <2> QED BY <2>2, <2>3, <2>4, <1>n
<1>2. ASSUME NEW r \in Requests, Batch(r) PROVE Goal
  <2>1. /\ pc[r] = "batch" /\ UNCHANGED <<kind, target, post, tomb>>
        /\ time' = [time EXCEPT ![r] = clock'] /\ pending' = pending \cup ({r} \X Parts(r))
        /\ \E m : created' = [created EXCEPT ![r] = m]
    BY <1>2 DEF Batch
  <2>2. time[r] = 0
    BY <2>1 DEF ControlInv, HandlerKnows
  <2>3. \A s \in Requests \ {r} : /\ time'[s] = time[s] /\ created'[s] = created[s]
                                 /\ \A t \in Tables : <<s, t>> \notin pending => <<s, t>> \notin pending'
    BY <2>1, <1>t
  <2> QED BY <2>1, <2>2, <2>3, <1>n
<1>3. ASSUME NEW r \in Requests,
             Read(r) \/ Ack(r) \/ IncrementCommentCount(r) \/ CountInCassandra(r) \/ DropCounters(r) \/ Fail(r)
      PROVE  Goal
  <2>1. UNCHANGED <<kind, target, post, created, time, tomb, pending>>
    BY <1>3 DEF Read, Ack, IncrementCommentCount, CountInCassandra, DropCounters, Fail
  <2> QED BY <2>1, <1>u
<1>4. ASSUME NEW r \in Requests, NEW t \in Tables, Apply(r, t) PROVE Goal
  <2>1. UNCHANGED <<kind, target, post, created, time>> /\ pending' \subseteq pending
    BY <1>4 DEF Apply
  <2>2. \A p \in Posts : tomb[p] <= tomb'[p]
    <3>1. CASE tomb' = tomb
      BY <3>1, <1>n
    <3>2. CASE tomb' = [tomb EXCEPT ![post[r]] = IF @ > time[r] THEN @ ELSE time[r]]
      BY <3>2, <1>t
    <3> QED BY <1>4, <3>1, <3>2 DEF Apply
  <2> QED BY <2>1, <2>2
<1>5. ASSUME NEW p \in Posts, Backfill(p) PROVE Goal
  BY <1>5, <1>u DEF Backfill
<1>6. CASE GetComments \/ GetReplies \/ NextPage
  BY <1>6, <1>u DEF GetComments, GetReplies, NextPage, StartScroll
<1>7. CASE UNCHANGED vars
  BY <1>7, <1>u DEF vars
<1> QED
  BY <1>1, <1>2, <1>3, <1>4, <1>5, <1>6, <1>7 DEF Next, Handle

\* The row of a comment has the time of its insert, once that has landed, and only then.
LEMMA InsertedAtItsTime ==
  ASSUME LatestInv, NEW c \in Requests,
         rows["comments"][c].ins # 0 \/ (Landed(c, "comments") /\ kind[c] = "comment")
  PROVE  Landed(c, "comments") /\ kind[c] = "comment" /\ rows["comments"][c].ins = time[c]
<1>1. "comments" \in Tables /\ "ins" \in Fields
  BY DEF Tables, Fields
<1>2. /\ \A r \in Requests : Landed(r, "comments") /\ RowOf(r) = c => Cells(r).ins <= rows["comments"][c].ins
      /\ \/ rows["comments"][c].ins = 0
         \/ \E r \in Requests : Landed(r, "comments") /\ RowOf(r) = c /\ rows["comments"][c].ins = Cells(r).ins
  BY <1>1 DEF LatestInv, RowsLatest
<1>3. rows["comments"][c].ins # 0
  <2>1. CASE Landed(c, "comments") /\ kind[c] = "comment"
    <3>1. RowOf(c) = c /\ Cells(c).ins = time[c]
      BY <2>1 DEF RowOf, Cells
    <3>2. time[c] > 0 /\ time[c] \in Nat /\ rows["comments"][c].ins \in Nat
      BY <2>1, <1>1, CellFields, TypeParts
         DEF LatestInv, ControlInv, RowsTyped, HandlersTyped, StoreTyped, Landed
    <3> QED BY <1>2, <2>1, <3>1, <3>2
  <2> QED BY <2>1
<1>4. PICK r \in Requests : Landed(r, "comments") /\ RowOf(r) = c /\ rows["comments"][c].ins = Cells(r).ins
  BY <1>2, <1>3
<1>5. kind[r] = "comment" /\ Cells(r).ins = time[r]
  BY <1>3, <1>4 DEF Cells, Landed
<1> QED
  BY <1>4, <1>5 DEF RowOf

InsertTimes ==
  \A c \in Requests :
    Landed(c, "comments") /\ kind[c] = "comment" => rows["comments"][c].ins = time[c]

LEMMA InsertTimesNow == LatestInv => InsertTimes
BY InsertedAtItsTime DEF InsertTimes

LEMMA InsertTimesNext == LatestInv' => InsertTimes'
BY InsertTimesNow, PTL

LEMMA ListedAreMade ==
  ASSUME LatestInv, NEW of, NEW on \in Posts, NEW c \in Listed(of, on)
  PROVE  /\ c \in Requests /\ Landed(c, "comments") /\ kind[c] = "comment"
         /\ rows["comments"][c].ins = time[c] /\ time[c] > 0
<1>1. c \in Requests /\ rows["comments"][c].ins > tomb[on]
  BY DEF Listed
<1>2. tomb[on] \in Nat /\ rows["comments"][c].ins \in Nat
  BY <1>1, CellFields, TypeParts DEF LatestInv, ControlInv, RowsTyped, StoreTyped, Tables, Fields
<1> QED
  BY <1>1, <1>2, InsertedAtItsTime DEF Landed

\* What is in a list has its created_at.
LEMMA ListedDated ==
  ASSUME LatestInv, NEW of, NEW on \in Posts, NEW c \in Listed(of, on)
  PROVE  created[c] # 0
BY ListedAreMade DEF LatestInv, ControlInv, HandlerKnows

\* Who has a twin keeps it.
LEMMA TwinStays ==
  ASSUME ControlInv, [Next]_vars, NEW c \in Requests, created[c] # 0, HasTwin(c)
  PROVE  HasTwin(c)'
<1>1. PICK d \in Requests \ {c} : /\ kind[d] = "comment" /\ target[d] = target[c] /\ post[d] = post[c]
                                 /\ created[d] = created[c]
  BY DEF HasTwin
<1>2. time[c] > 0 /\ time[d] > 0
  BY <1>1 DEF ControlInv, HandlerKnows
<1> QED
  BY <1>1, <1>2, Settled DEF HasTwin

\* A step of the others takes nothing from what the reader has been shown.
LEMMA ReaderStays ==
  ASSUME ScrollInv, LatestInv', [Next]_vars, reader' = reader
  PROVE  ReaderKnows'
<1>i. LatestInv /\ ControlInv /\ ReaderKnows
  BY DEF ScrollInv, LatestInv
<1>t. /\ reader.on \in Posts /\ reader.base \subseteq Requests /\ reader.seen \subseteq Requests
      /\ reader.missed \subseteq Requests
      /\ \A c \in Requests : time[c] \in Nat
  BY <1>i DEF ControlInv, TypeOK
<1>s. /\ \A c \in Requests : time[c] > 0 =>
           /\ kind'[c] = kind[c] /\ target'[c] = target[c] /\ post'[c] = post[c]
           /\ time'[c] = time[c] /\ created'[c] = created[c]
           /\ \A t \in Tables : <<c, t>> \notin pending => <<c, t>> \notin pending'
      /\ \A p \in Posts : tomb[p] <= tomb'[p]
  BY <1>i, Settled
<1>d. \A c \in Requests : created[c] # 0 => created'[c] = created[c]
  BY <1>s, <1>i DEF ControlInv, HandlerKnows
<1>b. \A c \in reader.base : /\ c \in Requests /\ Landed(c, "comments") /\ kind[c] = "comment"
                             /\ time[c] > 0 /\ created[c] # 0
  BY <1>t, <1>i DEF ReaderKnows, Landed, ControlInv, HandlerKnows
<1>1. \A c \in reader.base : /\ Landed(c, "comments")' /\ kind'[c] = "comment" /\ time'[c] = time[c]
                            /\ target'[c] = target[c] /\ post'[c] = post[c] /\ created'[c] = created[c]
  BY <1>b, <1>s DEF Landed, Tables
<1>2. ASSUME NEW c \in reader.base PROVE rows'["comments"][c].ins = rows["comments"][c].ins
  <2>1. rows["comments"][c].ins = time[c]
    BY <1>2, <1>b, <1>i, InsertedAtItsTime
  <2>2. \A x \in Requests : Landed(x, "comments")' /\ kind'[x] = "comment" => rows'["comments"][x].ins = time'[x]
    BY InsertTimesNext DEF InsertTimes
  <2> QED BY <1>1, <1>2, <1>b, <2>1, <2>2
<1>3. ASSUME NEW c \in reader.base, c \in Listed(reader.of, reader.on)'
      PROVE  c \in Listed(reader.of, reader.on)
  <2>1. /\ kind'[c] = "comment" /\ target'[c] = reader.of /\ post'[c] = reader.on
        /\ rows'["comments"][c].ins > tomb'[reader.on]
    BY <1>3 DEF Listed
  <2>2. rows["comments"][c].ins = time[c] /\ time[c] \in Nat
    BY <1>3, <1>b, <1>i, <1>t, InsertedAtItsTime
  <2>3. tomb[reader.on] \in Nat /\ tomb'[reader.on] \in Nat /\ tomb[reader.on] <= tomb'[reader.on]
    <3>1. tomb \in [Posts -> Nat] /\ tomb' \in [Posts -> Nat]
      BY <1>i, TypeParts, TypePartsNext DEF LatestInv, ControlInv, StoreTyped
    <3> QED BY <3>1, <1>t, <1>s
  <2>4. rows["comments"][c].ins > tomb[reader.on]
    BY <1>2, <1>3, <2>1, <2>2, <2>3
  <2> QED BY <1>1, <1>3, <1>b, <2>1, <2>4 DEF Listed
<1>4. ASSUME reader.at = "scrolling"
      PROVE  /\ reader.missed = {} /\ (reader.cursor = 0 => reader.seen = {})
             /\ \A c \in reader.seen : created'[c] # 0 /\ created'[c] >= reader.cursor
             /\ \A c \in reader.base : c \in Listed(reader.of, reader.on)' =>
                  (reader.cursor # 0 /\ created'[c] >= reader.cursor => c \in reader.seen \/ HasTwin(c)')
  <2>1. /\ reader.missed = {} /\ (reader.cursor = 0 => reader.seen = {})
        /\ \A c \in reader.seen : created[c] # 0 /\ created[c] >= reader.cursor
        /\ \A c \in reader.base : c \in Listed(reader.of, reader.on) =>
             (reader.cursor # 0 /\ created[c] >= reader.cursor => c \in reader.seen \/ HasTwin(c))
    BY <1>4, <1>i DEF ReaderKnows
  <2>2. \A c \in reader.seen : created'[c] = created[c]
    BY <2>1, <1>d, <1>t
  <2>3. \A c \in reader.base : HasTwin(c) => HasTwin(c)'
    BY <1>b, <1>i, TwinStays
  <2> QED BY <2>1, <2>2, <2>3, <1>1, <1>3
<1>5. \A c \in reader.missed : created'[c] # 0 /\ HasTwin(c)'
  <2>1. \A c \in reader.missed : c \in Requests /\ created[c] # 0 /\ HasTwin(c)
    BY <1>t, <1>i DEF ReaderKnows, ScrollComplete
  <2> QED BY <2>1, <1>d, <1>i, TwinStays
<1>6. ~reader.twice /\ (reader.at = "idle" => reader = Idle)
  BY <1>i DEF ReaderKnows, ScrollComplete
<1> QED
  BY <1>1, <1>4, <1>5, <1>6 DEF ReaderKnows, ScrollComplete

\* A page repeats nothing, and what it passes over has a twin in it.
LEMMA PageKnows ==
  ASSUME ScrollInv, NextPage
  PROVE  ReaderKnows'
<1>1. PICK fetched, page : Sent(fetched, page)
  BY NextPageSends
<1>i. LatestInv /\ ControlInv /\ ReaderKnows
  BY DEF ScrollInv, LatestInv
<1>u. UNCHANGED <<kind, target, post, created, time, pending, rows, tomb>>
  BY DEF NextPage, request
<1> DEFINE L == Listed(reader.of, reader.on)
           B == Before(L, reader.cursor)
           now == reader.seen \cup page
<1>t. /\ reader \in [at : {"idle", "scrolling", "end"}, of : Requests \cup {None}, on : Posts,
                    cursor : Millis \cup {0}, seen : SUBSET Requests, base : SUBSET Requests,
                    missed : SUBSET Requests, twice : BOOLEAN]
      /\ created \in [Requests -> Millis \cup {0}]
  BY <1>i DEF ControlInv, TypeOK
<1>n. reader.cursor \in Nat /\ \A c \in Requests : created[c] \in Nat
  <2>1. Millis \cup {0} \subseteq Nat
    BY CommentsAssumption
  <2> QED BY <2>1, <1>t
<1>l. \A of, on : Listed(of, on)' = {c \in Requests : /\ kind[c] = "comment" /\ target[c] = of' /\ post[c] = on'
                                                    /\ rows["comments"][c].ins > tomb[on']}
  BY <1>u DEF Listed
<1>h. \A c : HasTwin(c) => HasTwin(c)'
  BY <1>u DEF HasTwin
<1>2. /\ page \subseteq B /\ B \subseteq Requests
      /\ fetched = page => page = B
      /\ fetched # page =>
           \E g \in page : /\ NextCursor(fetched, page) = created[g]
                           /\ \A c \in page : created[g] <= created[c]
                           /\ \A c \in B \ page : created[c] <= created[g]
  BY <1>1, <1>i, PageParts
<1>3. /\ reader.cursor = 0 => reader.seen = {}
      /\ \A c \in reader.seen : created[c] # 0 /\ created[c] >= reader.cursor
      /\ \A c \in reader.base \cap L :
           reader.cursor # 0 /\ created[c] >= reader.cursor => c \in reader.seen \/ HasTwin(c)
      /\ \A c \in reader.base : Landed(c, "comments") /\ kind[c] = "comment"
      /\ ~reader.twice /\ reader.missed = {}
  <2>1. reader.at = "scrolling"
    BY <1>1 DEF Sent
  <2> QED BY <2>1, <1>i DEF ReaderKnows, ScrollComplete
<1>4. \A c \in B : c \in L /\ (reader.cursor # 0 => created[c] < reader.cursor)
  BY DEF Before
<1>5. \A c \in L : c \notin B => reader.cursor # 0 /\ created[c] >= reader.cursor
  <2>1. L \subseteq Requests
    BY DEF Listed
  <2> QED BY <2>1, <1>n DEF Before
<1>6. \A c \in L : c \in Requests /\ created[c] # 0 /\ kind[c] = "comment" /\ target[c] = reader.of /\ post[c] = reader.on
  BY <1>t, <1>i, ListedDated DEF Listed
<1>b. \A c \in reader.base : Landed(c, "comments")' /\ kind'[c] = "comment"
  BY <1>3, <1>u DEF Landed
<1> HIDE DEF L, B
<1>7. page \cap reader.seen = {}
  <2> SUFFICES ASSUME NEW c \in page, c \in reader.seen PROVE FALSE
    OBVIOUS
  <2> QED BY <1>2, <1>3, <1>4, <1>n
<1>8. CASE fetched = page
  <2>1. reader' = [Idle EXCEPT !.at = "end", !.twice = reader.twice \/ page \cap reader.seen # {},
                               !.missed = (reader.base \cap L) \ now]
    BY <1>1, <1>8 DEF Sent, Answer, L
  <2>2. /\ reader'.missed = (reader.base \cap L) \ now /\ ~reader'.twice /\ reader'.at = "end" /\ reader'.base = {}
    BY <2>1, <1>3, <1>7 DEF Idle
  <2>3. \A c \in reader'.missed : HasTwin(c) /\ created[c] # 0
    BY <2>2, <1>2, <1>3, <1>5, <1>6, <1>8
  <2> QED BY <2>2, <2>3, <1>h, <1>u DEF ReaderKnows, ScrollComplete
<1>9. CASE fetched # page
  <2>1. PICK g \in page : /\ NextCursor(fetched, page) = created[g]
                          /\ \A c \in page : created[g] <= created[c]
                          /\ \A c \in B \ page : created[c] <= created[g]
    BY <1>2, <1>9
  <2>2. reader' = [reader EXCEPT !.seen = now, !.twice = reader.twice \/ page \cap reader.seen # {},
                                 !.cursor = created[g]]
    BY <1>1, <1>9, <2>1 DEF Sent, Answer
  <2>3. /\ reader'.seen = now /\ ~reader'.twice /\ reader'.cursor = created[g]
        /\ reader'.at = "scrolling" /\ reader'.base = reader.base /\ reader'.missed = {}
        /\ reader'.of = reader.of /\ reader'.on = reader.on
    <3>1. reader.at = "scrolling"
      BY <1>1 DEF Sent
    <3> QED BY <2>2, <3>1, <1>3, <1>7, <1>t
  <2>4. Listed(reader.of, reader.on)' = L
    <3>1. Listed(reader.of, reader.on)' = {c \in Requests : /\ kind'[c] = "comment" /\ target'[c] = reader'.of /\ post'[c] = reader'.on
                                                          /\ rows'["comments"][c].ins > tomb'[reader'.on]}
      BY DEF Listed
    <3> QED BY <1>u, <2>3, <3>1 DEF Listed, L
  <2>5. g \in B /\ g \in L /\ g \in Requests /\ created[g] # 0 /\ created[g] \in Nat
    BY <1>2, <1>4, <1>6, <1>n
  <2>6. \A c \in now : created[c] # 0 /\ created[c] >= created[g]
    <3>1. \A c \in page : created[c] # 0 /\ created[c] >= created[g]
      BY <2>1, <1>2, <1>4, <1>6, <1>n
    <3>2. ASSUME NEW c \in reader.seen PROVE created[c] # 0 /\ created[c] >= created[g]
      <4>1. created[c] # 0 /\ created[c] >= reader.cursor /\ reader.cursor # 0 /\ c \in Requests
        BY <3>2, <1>3, <1>t
      <4>2. created[g] < reader.cursor
        BY <4>1, <2>5, <1>4
      <4> QED BY <4>1, <4>2, <2>5, <1>n
    <3> QED BY <3>1, <3>2
  <2>7. ASSUME NEW c \in reader.base \cap L, created[c] >= created[g]
        PROVE  c \in now \/ HasTwin(c)
    <3>1. CASE c \notin B
      BY <3>1, <2>7, <1>3, <1>5
    <3>2. CASE c \in page
      BY <3>2
    <3>3. CASE c \in B \ page
      <4>1. created[c] = created[g] /\ c # g
        BY <3>3, <2>1, <2>5, <2>7, <1>2, <1>n
      <4> QED BY <4>1, <2>5, <1>6 DEF HasTwin
    <3> QED BY <3>1, <3>2, <3>3
  <2> HIDE DEF now
  <2> QED BY <2>3, <2>4, <2>5, <2>6, <2>7, <1>b, <1>h, <1>u DEF ReaderKnows, ScrollComplete
<1> QED
  BY <1>8, <1>9

LEMMA ScrollNext == ScrollInv /\ [Next]_vars => ScrollInv'
<1> SUFFICES ASSUME ScrollInv, [Next]_vars PROVE ReaderKnows'
  BY LatestNext DEF ScrollInv
<1>i. LatestInv /\ LatestInv' /\ ControlInv
  BY LatestNext DEF ScrollInv, LatestInv
<1>1. ASSUME NEW of \in Requests \cup {None}, NEW on \in Posts, StartScroll(of, on) PROVE ReaderKnows'
  <2>1. reader' = [at |-> "scrolling", of |-> of, on |-> on, cursor |-> 0, seen |-> {},
                   base |-> Listed(of, on), missed |-> {}, twice |-> FALSE]
    BY <1>1 DEF StartScroll, Idle
  <2>2. UNCHANGED <<kind, time, pending>>
    BY <1>1 DEF StartScroll, request
  <2>3. \A c \in Listed(of, on) : Landed(c, "comments")' /\ kind'[c] = "comment"
    <3>1. \A c \in Listed(of, on) : Landed(c, "comments") /\ kind[c] = "comment"
      BY <1>i, ListedAreMade
    <3> QED BY <2>2, <3>1 DEF Landed
  <2> QED BY <2>1, <2>3 DEF ReaderKnows, ScrollComplete
<1>2. CASE GetComments \/ GetReplies
  <2>1. Stored \subseteq Requests /\ \A c \in Stored : post[c] \in Posts
    BY <1>i DEF Stored, ControlInv, TypeOK
  <2> QED BY <1>1, <1>2, <2>1 DEF GetComments, GetReplies
<1>3. CASE NextPage
  BY <1>3, PageKnows
<1>4. CASE reader' = reader
  BY <1>4, <1>i, ReaderStays
<1>5. ASSUME NEW r \in Requests, Handle(r) \/ Fail(r) \/ \E t \in Tables : Apply(r, t)
      PROVE  reader' = reader
  BY <1>5 DEF Handle, Receive, CreateComment, ReplyToComment, EditComment, DeleteComment, DeletePost, Accept,
              Read, Batch, Ack, IncrementCommentCount, CountInCassandra, DropCounters, Fail, Apply
<1>6. ASSUME NEW p \in Posts, Backfill(p) PROVE reader' = reader
  BY <1>6 DEF Backfill
<1> QED
  BY <1>2, <1>3, <1>4, <1>5, <1>6 DEF Next, vars

\* Who scrolls is shown nothing twice, and to the end all that was there when it began
\* and is there still, but for comments of one millisecond with another of the list;
\* however many write and delete meanwhile.
THEOREM ScrollsAreComplete == Spec => []ScrollComplete
<1>1. ScrollInv => ScrollComplete
  BY DEF ScrollInv, ReaderKnows
<1>2. Init => ScrollInv
  <2> SUFFICES ASSUME Init PROVE ReaderKnows
    BY LatestInit DEF ScrollInv
  <2> QED BY DEF Init, Idle, ReaderKnows, ScrollComplete
<1> QED
  BY <1>1, <1>2, ScrollNext, PTL DEF Spec
-----------------------------------------------------------------------------
(* Nothing comes back.                                                     *)

\* A cell never gets an earlier time: what is merged into it is kept or overtaken.
LEMMA RowsGrow ==
  ASSUME ControlInv, [Next]_vars, NEW t \in Tables, NEW c \in Requests, NEW f \in Fields
  PROVE  rows[t][c][f] <= rows'[t][c][f]
<1>t. clock \in Nat /\ rows \in [Tables -> [Requests -> Cell(clock)]] /\ rows[t][c][f] \in Nat
  <2>1. clock \in Nat /\ rows \in [Tables -> [Requests -> Cell(clock)]]
    BY TypeParts DEF ControlInv, StoreTyped, RowsTyped
  <2>2. rows[t][c][f] \in 0..clock
    BY <2>1, CellFields
  <2> QED BY <2>1, <2>2
<1>u. rows' = rows => rows[t][c][f] <= rows'[t][c][f]
  BY <1>t
<1>1. ASSUME NEW r \in Requests, NEW w \in Tables, Apply(r, w)
      PROVE  rows[t][c][f] <= rows'[t][c][f]
  <2>1. CASE rows' = rows
    BY <2>1, <1>u
  <2>2. CASE kind[r] # "deletePost" /\ ~(t = w /\ c = RowOf(r))
    BY <1>1, <2>2, <1>t DEF Apply
  <2>3. CASE kind[r] # "deletePost" /\ t = w /\ c = RowOf(r)
    <3>1. Cells(r) \in Cell(clock) /\ rows[t][c] \in Cell(clock)
      BY <1>1, <2>3, <1>t, OnTheWay, CellsTyped DEF Apply
    <3>2. rows'[t][c] = Merged(rows[t][c], Cells(r))
      BY <1>1, <2>3, <1>t DEF Apply
    <3>3. rows'[t][c][f] = IF rows[t][c][f] > Cells(r)[f] THEN rows[t][c][f] ELSE Cells(r)[f]
      BY <1>t, <3>1, <3>2, MergedCells
    <3>4. Cells(r)[f] \in Nat
      BY <1>t, <3>1, CellFields
    <3> QED BY <1>t, <3>3, <3>4
  <2> QED BY <1>1, <2>1, <2>2, <2>3 DEF Apply
<1>2. ASSUME NEW r \in Requests, Handle(r) \/ Fail(r) PROVE rows' = rows
  BY <1>2 DEF Handle, Receive, CreateComment, ReplyToComment, EditComment, DeleteComment, DeletePost, Accept,
              Read, Batch, Ack, IncrementCommentCount, CountInCassandra, DropCounters, Fail
<1>3. ASSUME NEW p \in Posts, Backfill(p) PROVE rows' = rows
  BY <1>3 DEF Backfill
<1>4. CASE GetComments \/ GetReplies \/ NextPage
  BY <1>4, <1>u DEF GetComments, GetReplies, NextPage, StartScroll
<1>5. CASE UNCHANGED vars
  BY <1>5, <1>u DEF vars
<1> QED
  BY <1>u, <1>1, <1>2, <1>3, <1>4, <1>5 DEF Next

\* The insert of a lost comment has landed, at its time, before the post was deleted.
LEMMA LostIsDeleted ==
  ASSUME LatestInv, NEW c \in Requests,
         kind[c] = "comment", time[c] > 0, <<c, "comments">> \notin pending
  PROVE  /\ post[c] \in Posts /\ rows["comments"][c].ins = time[c]
         /\ c \in Listed(target[c], post[c]) <=> time[c] > tomb[post[c]]
<1>1. Landed(c, "comments")
  BY DEF Landed
<1>2. rows["comments"][c].ins = time[c]
  BY <1>1, InsertedAtItsTime
<1>3. post[c] \in Posts
  BY TypeParts DEF LatestInv, ControlInv, AskTyped
<1> QED
  BY <1>2, <1>3 DEF Listed

LostKnown ==
  \A c \in Requests :
    Lost(c) <=> /\ kind[c] = "comment" /\ time[c] > 0 /\ <<c, "comments">> \notin pending
                /\ ~(time[c] > tomb[post[c]])

LEMMA LostNow == LatestInv => LostKnown
BY LostIsDeleted DEF Lost, LostKnown

LEMMA LostNext == LatestInv' => LostKnown'
BY LostNow, PTL

\* A deletion mark stays in the row it has reached, and a comment deleted with its
\* post never gets back into the list, whatever edits arrive later.
THEOREM CommentsDoNotReturn == Spec => NothingComesBack
<1> DEFINE Kept == \A c \in Requests :
                     /\ \A t \in Tables : rows[t][c].gone > 0 => rows'[t][c].gone > 0
                     /\ Lost(c) => Lost(c)'
<1>1. ASSUME LatestInv, LatestInv', [Next]_vars PROVE Kept
  <2>i. ControlInv
    BY <1>1 DEF LatestInv
  <2>1. ASSUME NEW c \in Requests, NEW t \in Tables, rows[t][c].gone > 0
        PROVE  rows'[t][c].gone > 0
    <3>1. rows[t][c].gone <= rows'[t][c].gone
      BY <1>1, <2>i, RowsGrow DEF Fields
    <3>2. rows[t][c].gone \in Nat /\ rows'[t][c].gone \in Nat
      <4>1. rows \in [Tables -> [Requests -> Cell(clock)]] /\ rows' \in [Tables -> [Requests -> Cell(clock')]]
            /\ clock \in Nat /\ clock' \in Nat
        BY <1>1 DEF LatestInv, ControlInv, TypeOK, Cell
      <4> QED BY <4>1 DEF Cell
    <3> QED BY <2>1, <3>1, <3>2
  <2>2. ASSUME NEW c \in Requests, Lost(c) PROVE Lost(c)'
    <3>1. /\ kind[c] = "comment" /\ time[c] > 0 /\ <<c, "comments">> \notin pending
          /\ ~(time[c] > tomb[post[c]]) /\ "comments" \in Tables
      BY <1>1, <2>2, LostNow DEF LostKnown, Tables
    <3>2. /\ kind'[c] = kind[c] /\ post'[c] = post[c] /\ time'[c] = time[c]
          /\ <<c, "comments">> \notin pending' /\ \A p \in Posts : tomb[p] <= tomb'[p]
      BY <1>1, <2>i, <3>1, Settled
    <3>3. /\ post[c] \in Posts /\ time[c] \in Nat /\ \A p \in Posts : tomb[p] \in Nat /\ tomb'[p] \in Nat
      BY <1>1 DEF LatestInv, ControlInv, TypeOK
    <3> QED BY <1>1, <3>1, <3>2, <3>3, LostNext DEF LostKnown
  <2> QED BY <2>1, <2>2
<1>2. LatestInv /\ LatestInv' /\ [Next]_vars => [Kept]_vars
  BY <1>1
<1> QED
  BY <1>2, LatestInit, LatestNext, PTL DEF Spec, NothingComesBack
=============================================================================
