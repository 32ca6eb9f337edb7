------------------------------- MODULE Posts -------------------------------
(***************************************************************************)
(* Posts, blocks and mutes, and the lists of posts that a client scrolls:  *)
(* internal/data/post_repo.go, moderation_repo.go, pagination.go and the   *)
(* handlers post.go and moderation.go.                                     *)
(*                                                                         *)
(* A post is three rows and a block is two, written by logged batches:     *)
(* atomic in the end, not isolated on the way.  A client asks for page     *)
(* after page with the created_at of the last post it was shown; the feed  *)
(* takes out the posts of authors it must not show after it has fetched.   *)
(*                                                                         *)
(* A request is a handler goroutine; one that creates a post is also its   *)
(* id.  One client scrolls, through the posts around one place or through  *)
(* those of one author.                                                    *)
(***************************************************************************)
EXTENDS Integers, Sequences, FiniteSets, FiniteSetsExt, Functions

CONSTANTS
  Users, Viewer,  \* who uses the service, and who scrolls
  Authors,        \* whose posts the client may list
  Old,            \* posts there are to begin with, at least one
  Requests,       \* HTTP requests; a bound on the workload
  Cells,          \* the geohash cells around the place, in the order they are read
  Places,         \* where posts are: a cell, and whether within the radius
  Limits,         \* the page sizes the client may ask for
  None,           \* not an author: the list is the feed
  MaxLimit,       \* 100 in the code
  ResetLimit,     \* 50 in the code
  Failures        \* TRUE: reads fail

ASSUME PostsAssumption ==
  /\ Viewer \in Users /\ None \notin Users /\ Authors \subseteq Users
  /\ Old \cap Requests = {} /\ Old # {} /\ IsFiniteSet(Old) /\ IsFiniteSet(Requests)
  /\ (Old \cup Requests) \cap (Users \X Users) = {} /\ Cells \in Seq(Range(Cells))
  /\ Places \subseteq Range(Cells) \X BOOLEAN /\ Places # {} /\ Limits \subseteq 1..MaxLimit
  /\ MaxLimit \in Nat /\ ResetLimit \in 1..MaxLimit /\ Failures \in BOOLEAN

Ids == Old \cup Requests
Pairs == Users \X Users
PostTables == {"byGeohash", "byId", "byUser"}
Rows == (PostTables \X Ids) \cup ({"blocks", "blockedBy", "mutes"} \X Pairs)
Kinds == {"create", "delete", "block", "unblock", "mute", "unmute"}

VARIABLES
  clock,          \* per post and pair: the write timestamps given out
  cell,           \* per row: when it was last written, and whether it is there
  author, place,  \* of every post; the author of a request is who sends it
  now, created,   \* the clock of created_at, in milliseconds; created_at of every post
  kind, target,   \* what a request does, to which post or user
  pc,             \* where its handler is
  stamp, left,    \* the timestamp of its batch, and the parts yet to arrive
  reader          \* the client and the handler that answers it

request == <<author, place, kind, target>>
batches == <<clock, now, created, stamp, left, cell>>
vars == <<batches, request, pc, reader>>

Scroll ==
  [at: {"idle", "cells", "user", "more", "end"},
   of: Authors \cup {None}, limit: Limits \cup {0}, cursor: Nat,
   excluded: SUBSET (Users \ {Viewer}),   \* read for this page
   ever: SUBSET Users,      \* read for some page
   blind: BOOLEAN,          \* one of these reads has failed
   todo: 0..Len(Cells), got: SUBSET Ids,
   page: SUBSET Ids, shown: SUBSET Ids, again: BOOLEAN,
   base: SUBSET Ids,        \* in the list when the scroll began
   barred: SUBSET Users]    \* blocked or muted when this page was asked for

TypeOK ==
  /\ clock \in [Ids \cup Pairs -> Nat] /\ cell \in [Rows -> [at: Nat, live: BOOLEAN]]
  /\ author \in [Ids -> Users] /\ place \in [Ids -> Places]
  /\ now \in Nat /\ created \in [Ids -> Nat]
  /\ kind \in [Requests -> Kinds \cup {None}]
  /\ target \in [Requests -> Ids \cup Users \cup {None}]
  /\ pc \in [Requests -> {"idle", "write", "parts", "done"}]
  /\ stamp \in [Requests -> Nat] /\ left \in [Requests -> SUBSET Rows]
  /\ reader \in Scroll

\* The old posts are there with all their rows, one after the other.
Init ==
  /\ clock = [k \in Ids \cup Pairs |-> IF k \in Old THEN 1 ELSE 0]
  /\ now = Cardinality(Old)
  /\ created \in {f \in [Ids -> 0..Cardinality(Old)] :
                    /\ \A p \in Requests : f[p] = 0
                    /\ {f[p] : p \in Old} = 1..Cardinality(Old)}
  /\ cell = [w \in Rows |-> IF w \in PostTables \X Old
                              THEN [at |-> 1, live |-> TRUE]
                              ELSE [at |-> 0, live |-> FALSE]]
  /\ \E f \in [Old -> Users] : author = [p \in Ids |-> IF p \in Old THEN f[p] ELSE Viewer]
  /\ \E f \in [Old -> Places] :
       place = [p \in Ids |-> IF p \in Old THEN f[p] ELSE CHOOSE e \in Places : TRUE]
  /\ kind = [r \in Requests |-> None] /\ target = [r \in Requests |-> None]
  /\ pc = [r \in Requests |-> "idle"]
  /\ stamp = [r \in Requests |-> 0] /\ left = [r \in Requests |-> {}]
  /\ reader = [at |-> "idle", of |-> None, limit |-> 0, cursor |-> 0,
               excluded |-> {}, ever |-> {}, blind |-> FALSE, todo |-> 0, got |-> {},
               page |-> {}, shown |-> {}, again |-> FALSE, base |-> {}, barred |-> {}]

-----------------------------------------------------------------------------
(* What the steps have in common.                                          *)

Goto(r, label) == pc' = [pc EXCEPT ![r] = label]
Keys(table) == IF table \in PostTables THEN Ids ELSE Pairs
Visible(table) == {k \in Keys(table) : cell[<<table, k>>].live}

\* A request comes in, from u, about x.
Accept(r, k, u, x) ==
  /\ pc[r] = "idle"
  /\ kind' = [kind EXCEPT ![r] = k] /\ target' = [target EXCEPT ![r] = x]
  /\ author' = [author EXCEPT ![r] = u]
  /\ UNCHANGED reader

\* ExecuteBatch is called, with the rows of x in some tables.  Writes of one row are
\* taken to have timestamps in the order of the calls: the servers' clocks agree.
Execute(r, tables, x) ==
  /\ clock' = [clock EXCEPT ![x] = @ + 1]
  /\ stamp' = [stamp EXCEPT ![r] = clock'[x]]
  /\ left' = [left EXCEPT ![r] = tables \X {x}]
  /\ Goto(r, "parts")
  /\ UNCHANGED cell

-----------------------------------------------------------------------------
(* The requests.  One that is refused changes nothing, and an error only   *)
(* keeps the answer from the caller: a batch that was not taken on is as   *)
(* if the request had stayed away, one that was is completed all the same. *)

\* A post may get the created_at of the post before it.
CreatePost(r) ==
  /\ \E u \in Users : Accept(r, "create", u, r)
  /\ \E e \in Places : place' = [place EXCEPT ![r] = e]
  /\ Execute(r, PostTables, r)
  /\ now' \in {now, now + 1}
  /\ created' = [created EXCEPT ![r] = now']

\* Mutant of MayDelete: anybody may delete a post.
IsThere(u, p) == p \in Visible("byId")

MayDelete(u, p) == p \in Visible("byId") /\ author[p] = u

\* DeletePost reads the post ...
DeletePost(r) ==
  /\ \E u \in Users : \E p \in Ids : MayDelete(u, p) /\ Accept(r, "delete", u, p)
  /\ Goto(r, "write")
  /\ UNCHANGED <<batches, place>>

\* ... and then deletes its rows.
DeleteRows(r) ==
  /\ pc[r] = "write"
  /\ Execute(r, PostTables, target[r])
  /\ UNCHANGED <<now, created, request, reader>>

\* Mutant of MayTarget: people may block themselves.
AnyTarget(k, u, x) == TRUE

\* Nobody can block or mute themselves; the endpoints that undo it do not ask.
MayTarget(k, u, x) == k \in {"unblock", "unmute"} \/ u # x

Moderate(r, k, tables) ==
  /\ \E u, x \in Users :
       MayTarget(k, u, x) /\ Accept(r, k, u, x) /\ Execute(r, tables, <<u, x>>)
  /\ UNCHANGED <<now, created, place>>

BlockUser(r) == Moderate(r, "block", {"blocks", "blockedBy"})
UnblockUser(r) == Moderate(r, "unblock", {"blocks", "blockedBy"})
MuteUser(r) == Moderate(r, "mute", {"mutes"})
UnmuteUser(r) == Moderate(r, "unmute", {"mutes"})

-----------------------------------------------------------------------------
(* The batches.                                                            *)

\* Mutant of Merged: what arrives last stays.
LastArrival(old, new) == new

\* Of two writes of a row the later one stays, in whatever order they arrive.
Merged(old, new) == IF new.at > old.at THEN new ELSE old

\* A part of a batch arrives; with the last one the request is answered.
Arrive(r, w) ==
  /\ left' = [left EXCEPT ![r] = @ \ {w}]
  /\ cell' = [cell EXCEPT ![w] =
                Merged(@, [at |-> stamp[r], live |-> kind[r] \in {"create", "block", "mute"}])]
  /\ IF left'[r] = {} THEN Goto(r, "done") ELSE UNCHANGED pc
  /\ UNCHANGED <<clock, now, created, stamp, request, reader>>

-----------------------------------------------------------------------------
(* The lists.                                                              *)

Near(p) == place[p][2]
Listed(of) ==
  IF of = None THEN {p \in Visible("byGeohash") : Near(p)}
               ELSE {p \in Visible("byUser") : author[p] = of}

\* The limit of a query: out of range, it becomes ResetLimit.
QueryLimit(n) == IF n > MaxLimit THEN ResetLimit ELSE n

\* The newest n of a set of posts; those of one time come in any order.
Newest(ps, n) ==
  {t \in SUBSET ps : /\ Cardinality(t) = IF Cardinality(ps) < n THEN Cardinality(ps) ELSE n
                     /\ \A p \in t, q \in ps \ t : created[p] >= created[q]}

\* Mutant of Before: the last post of a page opens the next one.
BeforeOrAt(ps) == {p \in ps : reader.cursor = 0 \/ created[p] <= reader.cursor}

Before(ps) == {p \in ps : reader.cursor = 0 \/ created[p] < reader.cursor}

\* Whom the answered requests have the viewer not see.
Done(k, u, x) == \E r \in Requests :
  pc[r] = "done" /\ kind[r] = k /\ author[r] = u /\ target[r] = x
Asked(k, u, x) == \E r \in Requests : kind[r] = k /\ author[r] = u /\ target[r] = x
Barred == {a \in Users :
             \/ Done("block", Viewer, a) /\ ~Asked("unblock", Viewer, a)
             \/ Done("block", a, Viewer) /\ ~Asked("unblock", a, Viewer)
             \/ Done("mute", Viewer, a) /\ ~Asked("unmute", Viewer, a)}

\* Mutant of Excluded: who has blocked the viewer is not asked for.
ExcludedByViewer ==
  {a \in Users : <<Viewer, a>> \in Visible("blocks") \cup Visible("mutes")}

Excluded ==
  {a \in Users : \/ <<Viewer, a>> \in Visible("blocks") \cup Visible("mutes")
                 \/ <<a, Viewer>> \in Visible("blockedBy")}

\* GetBlockedAndMutedUsers: three reads, of rows that no two requests share.  One
\* that fails is passed over.
ExcludedAsRead == IF Failures THEN SUBSET Excluded ELSE {Excluded}

\* The client asks for a page, the first or the one that follows; for the feed, the
\* handler first reads whom to leave out.
Ask(of, n, base) ==
  \E some \in IF of = None THEN ExcludedAsRead ELSE {{}} :
    reader' = [reader EXCEPT
      !.at = IF of = None THEN "cells" ELSE "user", !.of = of, !.limit = n,
      !.base = base, !.page = {}, !.barred = Barred, !.todo = 1,
      !.excluded = some, !.ever = @ \cup some,
      !.blind = @ \/ (of = None /\ some # Excluded)]

StartScroll ==
  /\ reader.at = "idle"
  /\ \E of \in Authors \cup {None}, n \in Limits : Ask(of, n, Listed(of))
  /\ UNCHANGED <<batches, request, pc>>

NextPage ==
  /\ reader.at = "more"
  /\ Ask(reader.of, reader.limit, reader.base)
  /\ UNCHANGED <<batches, request, pc>>

Fetch ==
  QueryLimit(IF reader.excluded = {} THEN reader.limit + 1 ELSE 2 * reader.limit + 1)

\* Mutant of CellLimit: no more is read of a cell than is wanted in all.
CellLimitBare == Fetch

CellLimit == 2 * Fetch

\* The page of the posts left, whether there are more, and the next cursor.
Paged(ps) ==
  \E page \in Newest(ps, reader.limit) :
    reader' = [reader EXCEPT
      !.at = IF Cardinality(ps) > reader.limit THEN "more" ELSE "end",
      !.cursor = IF Cardinality(ps) > reader.limit
                   THEN Min({created[p] : p \in page}) ELSE @,
      !.got = {}, !.excluded = {}, !.todo = 0,
      !.page = page, !.shown = @ \cup page, !.again = @ \/ page \cap reader.shown # {}]

\* The newest posts of the next cell, of which the near ones are kept.
NearIn(c) ==
  {{p \in ps : Near(p)} :
     ps \in Newest(Before({p \in Visible("byGeohash") : place[p][1] = c}), CellLimit)}

\* GetNearbyPosts, cell by cell ...
ReadCell ==
  /\ reader.at = "cells" /\ reader.todo < Len(Cells)
  /\ \E ps \in NearIn(Cells[reader.todo]) :
       reader' = [reader EXCEPT !.todo = @ + 1, !.got = @ \cup ps]
  /\ UNCHANGED <<batches, request, pc>>

\* ... and what it does after the last one: the newest of all are taken, and then
\* those of excluded authors left out.
GetFeed ==
  /\ reader.at = "cells" /\ reader.todo = Len(Cells)
  /\ \E ps \in NearIn(Cells[reader.todo]) : \E newest \in Newest(reader.got \cup ps, Fetch) :
       Paged({p \in newest : author[p] \notin reader.excluded})
  /\ UNCHANGED <<batches, request, pc>>

GetUserPosts ==
  /\ reader.at = "user"
  /\ \E ps \in Newest(Before(Listed(reader.of)), QueryLimit(reader.limit + 1)) : Paged(ps)
  /\ UNCHANGED <<batches, request, pc>>

Handle(r) ==
  \/ CreatePost(r) \/ DeletePost(r) \/ DeleteRows(r)
  \/ BlockUser(r) \/ UnblockUser(r) \/ MuteUser(r) \/ UnmuteUser(r)
  \/ \E w \in left[r] : Arrive(r, w)

Read ==
  StartScroll \/ NextPage \/ ReadCell \/ GetFeed \/ GetUserPosts

Next == Read \/ \E r \in Requests : Handle(r)

Spec == Init /\ [][Next]_vars

-----------------------------------------------------------------------------
(* Properties.                                                             *)

\* A post whose deletion was answered is in no table, although parts of its creation,
\* or of another deletion, may still be on their way.
DeletedIsGone ==
  \A r \in Requests :
    pc[r] = "done" /\ kind[r] = "delete" =>
      \A table \in PostTables : target[r] \notin Visible(table)

\* A post that was answered, and so announced to the followers of its place and to
\* the index, is in every table until its author asks for its deletion.
PostsStay ==
  \A p \in Ids :
    (p \in Old \/ (kind[p] = "create" /\ pc[p] = "done")) /\ ~Asked("delete", author[p], p)
      => \A table \in PostTables : p \in Visible(table)

\* A list that has lost a post does not get it back, nor one that a deletion has
\* reached before the creation did, in whatever order their parts arrive: each table
\* shows a post for one span of time, or never.
ShownForOneSpan ==
  [][\A table \in PostTables : \A p \in Visible(table)' :
       p \in Visible(table) \/ cell[<<table, p>>].at = 0]_vars

\* No page repeats what an earlier one has shown, while posts come and go.
ShownOnce == ~reader.again

\* Who is blocked or muted when a page is asked for is not on it, on either side of
\* a block, unless the read of the blocks has failed.
BarredUnseen ==
  reader.of = None /\ ~reader.blind =>
    \A p \in reader.page : author[p] \notin reader.barred \cap Barred

Hidden == {p \in Ids : author[p] \in reader.ever /\ created[p] # 0}
Far(c) == {p \in Ids : created[p] # 0 /\ place[p][1] = c /\ ~Near(p)}
Widest == IF reader.ever = {} THEN reader.limit + 1 ELSE 2 * reader.limit + 1
Distinct == \A p, q \in Ids : created[p] = created[q] /\ created[p] # 0 => p = q

\* docs/api/README.md: "Repeat until `has_more` is `false`".  Who does so has seen
\* every post that was in the list all the time, if no query exceeds MaxLimit, no
\* two posts are of one millisecond, and, in the feed, the posts that are left out
\* are no more than a page and no cell holds more than a page and one out of reach.
NothingMissed ==
  /\ reader.at = "end" /\ Distinct
  /\ IF reader.of = None
       THEN /\ Widest <= MaxLimit /\ Cardinality(Hidden) <= reader.limit
            /\ \A c \in Range(Cells) : Cardinality(Far(c)) <= reader.limit + 1
       ELSE reader.limit + 1 <= MaxLimit
  => \A p \in reader.base \cap Listed(reader.of) :
       p \in reader.shown \/ (reader.of = None /\ author[p] \in reader.ever)

\* A scroll is complete: it shows nothing twice, and in the end it has shown all.
ScrollComplete == ShownOnce /\ NothingMissed
=============================================================================
