---------------------------- MODULE SearchIndex ----------------------------
(***************************************************************************)
(* One user or one post and its copy in the search index: the publishing   *)
(* handlers, internal/search (producer, index_user, hydrator, service),    *)
(* the indexer (cmd/indexer), cmd/backfill-search and the search handlers  *)
(* (internal/handlers/search.go).                                          *)
(*                                                                         *)
(* The row is in Cassandra.  Each save publishes a snapshot of it from a   *)
(* goroutine; the indexer writes snapshots over one another in the order   *)
(* of the topic, in the loop of ConsumerGroup, and the backfill writes     *)
(* what it has scanned.  A search asks the index for ids and then reads    *)
(* the rows.  Nothing ever removes a document or a suggested name.         *)
(***************************************************************************)
EXTENDS ConsumerGroup, Sequences

CONSTANTS
  Saves,        \* requests that save the entity; the first creates it
  IndexFaults   \* the faults of the environment, a subset of IndexFaultKinds

IndexFaultKinds == {"lose", "cassandra", "es", "redis", "crash", "rebalance", "commit"}

ASSUME IndexAssumption == IndexFaults \subseteq IndexFaultKinds

VARIABLES
  isPost,      \* a post, which is not edited, or else a user
  stored,      \* the version of the row, 0 before it is created
  gone,        \* the post is deleted, or the account (and its row anonymous)
  saving,      \* where a request is
  snapshot,    \* the version it publishes
  topic,       \* the entity's messages in posts.created or users.indexed
  doc,         \* the version of the document, 0 where there is none
  suggested,   \* the user name is in users:autocomplete
  works,       \* where the handler of an indexer process is
  scan,        \* where the backfill is
  scanned,     \* the version it has read
  search,      \* a search: idle, or between the index and the rows
  asked,       \* the version of the row, and gone, when it began
  misled,      \* history: a search has shown what was out of date when it began
  passed,      \* history: the reader of the partition has last gone past a message
               \* that was still to be written
  outOfTurn,   \* history: the last to write the document had a message the reader
               \* had gone past, or was the backfill
  nameLost     \* history: a name has not been added for an error

entity == <<isPost, stored, gone, saving, snapshot>>
copies == <<doc, suggested>>
backfill == <<scan, scanned>>
searching == <<search, asked, misled>>
lapses == <<passed, outOfTurn, nameLost>>
indexVars == <<groupVars, entity, topic, copies, works, backfill, searching, lapses>>

IndexTypeOK ==
  /\ GroupTypeOK
  /\ isPost \in BOOLEAN /\ stored \in Nat /\ gone \in BOOLEAN
  /\ saving \in [Saves -> {"new", "reread", "publish", "done"}]
  /\ snapshot \in [Saves -> 0..stored] /\ topic \in Seq(1..stored)
  /\ doc \in 0..stored /\ suggested \in BOOLEAN
  /\ works \in [Consumers -> {"idle", "index", "name", "commit"}]
  /\ \A c \in Consumers : works[c] = "idle" <=> inHand[c] = 0
  /\ scan \in {"ready", "index", "done"} /\ scanned \in 0..stored
  /\ search \in {"idle", "hydrate"}
  /\ asked \in [stored : 0..stored, gone : BOOLEAN] /\ misled \in BOOLEAN
  /\ passed \in BOOLEAN /\ outOfTurn \in BOOLEAN /\ nameLost \in BOOLEAN

\* A deleted post has no row; a deleted account has an anonymous one.
Absent == isPost /\ gone

\* The row before it is created.
Nothing == [stored |-> 0, gone |-> FALSE]

IndexInit ==
  /\ GroupInit
  /\ isPost \in BOOLEAN /\ stored = 0 /\ gone = FALSE
  /\ saving = [s \in Saves |-> "new"] /\ snapshot = [s \in Saves |-> 0]
  /\ topic = <<>> /\ doc = 0 /\ suggested = FALSE
  /\ works = [c \in Consumers |-> "idle"]
  /\ scan = "ready" /\ scanned = 0
  /\ search = "idle" /\ asked = Nothing /\ misled = FALSE
  /\ passed = FALSE /\ outOfTurn = FALSE /\ nameLost = FALSE

-----------------------------------------------------------------------------
(* The handlers that save.                                                 *)

SaveStep(s, from, to) == saving[s] = from /\ saving' = [saving EXCEPT ![s] = to]

\* CreateUser and CreatePost: the event is made of what was written.
Create(s) ==
  /\ stored = 0
  /\ stored' = 1
  /\ snapshot' = [snapshot EXCEPT ![s] = 1]
  /\ SaveStep(s, "new", "publish")
  /\ UNCHANGED <<groupVars, isPost, gone, topic, copies, works, backfill, searching,
                 lapses>>

\* UpdateProfile: UPDATE, of the anonymous row as well,
Update(s) ==
  /\ ~isPost /\ stored > 0
  /\ stored' = stored + 1
  /\ SaveStep(s, "new", "reread")
  /\ UNCHANGED <<groupVars, isPost, gone, snapshot, topic, copies, works, backfill,
                 searching, lapses>>

\* then GetUserByID, which may see a later UPDATE too;
Reread(s) ==
  /\ SaveStep(s, "reread", "publish")
  /\ snapshot' = [snapshot EXCEPT ![s] = stored]
  /\ UNCHANGED <<groupVars, isPost, stored, gone, topic, copies, works, backfill,
                 searching, lapses>>

\* its error ends the handler, with the row saved and no event.
RereadFails(s) ==
  /\ "cassandra" \in IndexFaults
  /\ SaveStep(s, "reread", "done")
  /\ UNCHANGED <<groupVars, isPost, stored, gone, snapshot, topic, copies, works,
                 backfill, searching, lapses>>

\* PublishUserIndexedAsync: the goroutines of two saves run in either order.  (A
\* batch that is written twice is an event handled again, as after a rebalance.)
Publish(s) ==
  /\ SaveStep(s, "publish", "done")
  /\ \/ topic' = Append(topic, snapshot[s])
     \/ "lose" \in IndexFaults /\ UNCHANGED topic
  /\ UNCHANGED <<groupVars, isPost, stored, gone, snapshot, copies, works, backfill,
                 searching, lapses>>

\* Neither publishes anything.
DeletePost ==
  /\ isPost /\ stored > 0 /\ ~gone
  /\ gone' = TRUE
  /\ UNCHANGED stored

\* The anonymous row is another version.
DeleteAccount ==
  /\ ~isPost /\ stored > 0 /\ ~gone
  /\ gone' = TRUE
  /\ stored' = stored + 1

Delete ==
  /\ DeletePost \/ DeleteAccount
  /\ UNCHANGED <<groupVars, isPost, saving, snapshot, topic, copies, works, backfill,
                 searching, lapses>>

-----------------------------------------------------------------------------
(* processUserMessage and processPostMessage in process c of the indexer.  *)

WorkStep(c, from, to) == works[c] = from /\ works' = [works EXCEPT ![c] = to]

FetchEvent(c) ==
  /\ FetchMessage(c, Len(topic))
  /\ WorkStep(c, "idle", "index")
  /\ UNCHANGED <<entity, topic, copies, backfill, searching, lapses>>

\* Whether c passes its message matters as long as it has the partition.
Passes(c, fails) == passed' = IF owner = c THEN fails ELSE passed

\* A reader that starts anew, at the committed offset, passes what it had still to
\* write when somebody else, who had lost the partition, has committed that.
StartsPast ==
  \/ committed > position
  \/ committed = position /\ works[owner] = "index" /\ inHand[owner] = position

\* Mutant of IndexEvent: a document that exists is not written over.
IndexNew(c) ==
  /\ WorkStep(c, "index", "name")
  /\ doc' = IF doc = 0 THEN topic[inHand[c]] ELSE doc
  /\ Passes(c, FALSE)
  /\ outOfTurn' = (inHand[c] < position)
  /\ UNCHANGED <<groupVars, entity, topic, suggested, backfill, searching,
                 nameLost>>

\* IndexDocument: PUT under the id of the entity, whatever is there.
IndexEvent(c) ==
  /\ WorkStep(c, "index", "name")
  /\ doc' = topic[inHand[c]] /\ Passes(c, FALSE)
  /\ outOfTurn' = (inHand[c] < position)
  /\ UNCHANGED <<groupVars, entity, topic, suggested, backfill, searching,
                 nameLost>>

\* An error, of a PUT that may have taken effect, is the error of the handler:
\* "will retry on next fetch", but the loop fetches the next message.
IndexEventFails(c) ==
  /\ "es" \in IndexFaults
  /\ WorkStep(c, "index", "idle")
  /\ HandlerError(c)
  /\ Passes(c, TRUE)
  /\ \/ UNCHANGED <<doc, outOfTurn>>
     \/ doc' = topic[inHand[c]] /\ outOfTurn' = (inHand[c] < position)
  /\ UNCHANGED <<entity, topic, suggested, backfill, searching, nameLost>>

\* ZADD users:autocomplete; its error is logged.  Of an author who could not be
\* read the event of a post has no name.
NameFails == "redis" \in IndexFaults \/ (isPost /\ "cassandra" \in IndexFaults)

AddsName ==
  \/ suggested' = TRUE /\ UNCHANGED nameLost
  \/ NameFails /\ nameLost' = TRUE /\ UNCHANGED suggested

NameEvent(c) ==
  /\ WorkStep(c, "name", "commit")
  /\ AddsName
  /\ UNCHANGED <<groupVars, entity, topic, doc, backfill, searching, passed,
                 outOfTurn>>

CommitEvent(c) ==
  /\ WorkStep(c, "commit", "idle")
  /\ CommitMessages(c)
  /\ "commit" \in IndexFaults \/ UNCHANGED disruptions
  /\ UNCHANGED <<entity, topic, copies, backfill, searching, lapses>>

CrashIndexer(c) ==
  /\ "crash" \in IndexFaults
  /\ Crash(c)
  /\ works' = [works EXCEPT ![c] = "idle"]
  /\ passed' = (passed \/ (owner = c /\ StartsPast))
  /\ UNCHANGED <<entity, topic, copies, backfill, searching, outOfTurn, nameLost>>

ReassignTopic(c) ==
  /\ "rebalance" \in IndexFaults
  /\ Rebalance(c)
  /\ passed' = (passed \/ StartsPast)
  /\ UNCHANGED <<entity, topic, copies, works, backfill, searching, outOfTurn, nameLost>>

-----------------------------------------------------------------------------
(* backfillUsers and backfillPosts, run once beside the rest.              *)

\* The scan has the row, unless it is deleted.
Scan ==
  /\ scan = "ready" /\ stored > 0 /\ ~gone
  /\ scan' = "index" /\ scanned' = stored
  /\ UNCHANGED <<groupVars, entity, topic, copies, works, searching, lapses>>

\* IndexDocument and, after it, ZADD; a failure is counted and passed over.
ScanIndex ==
  /\ scan = "index"
  /\ scan' = "done" /\ scanned' = 0
  /\ \/ doc' = scanned /\ outOfTurn' = TRUE /\ AddsName
     \/ /\ "es" \in IndexFaults
        /\ UNCHANGED <<doc, outOfTurn>> \/ (doc' = scanned /\ outOfTurn' = TRUE)
        /\ UNCHANGED <<suggested, nameLost>>
  /\ UNCHANGED <<groupVars, entity, topic, works, searching, passed>>

-----------------------------------------------------------------------------
(* SearchHandler and SearchNearbyHandler.                                  *)

\* SearchUsers or SearchPosts of the service: the ids of the hits.
Hit == doc > 0

\* Where there is none, or the query has failed beside the other, the list is empty.
Ask ==
  /\ search = "idle" /\ Hit
  /\ search' = "hydrate" /\ asked' = [stored |-> stored, gone |-> gone]
  /\ UNCHANGED <<groupVars, entity, topic, copies, works, backfill, misled, lapses>>

\* The answer shows a version of the row: the history compares it with the row at
\* the beginning of the search.
Show(version) ==
  /\ search = "hydrate"
  /\ search' = "idle" /\ asked' = Nothing
  /\ misled' = (misled \/ version < asked.stored \/ (isPost /\ asked.gone))
  /\ UNCHANGED <<groupVars, entity, topic, copies, works, backfill, lapses>>

\* Mutant of Hydrate: the answer is made of the document.
HydrateFromHit == Show(doc)

\* HydrateUsers or HydratePosts: the row as it is now, the anonymous one of a
\* deleted account included.
Hydrate == ~Absent /\ Show(stored)

\* A row that is not there or cannot be read is left out.
HydrateNone ==
  /\ search = "hydrate"
  /\ Absent \/ "cassandra" \in IndexFaults
  /\ search' = "idle" /\ asked' = Nothing
  /\ UNCHANGED <<groupVars, entity, topic, copies, works, backfill, misled, lapses>>

IndexNext ==
  \/ \E s \in Saves : Create(s) \/ Update(s) \/ Reread(s) \/ RereadFails(s) \/ Publish(s)
  \/ Delete
  \/ \E c \in Consumers :
       \/ FetchEvent(c) \/ IndexEvent(c) \/ IndexEventFails(c) \/ NameEvent(c)
       \/ CommitEvent(c) \/ CrashIndexer(c) \/ ReassignTopic(c)
  \/ Scan \/ ScanIndex
  \/ Ask \/ Hydrate \/ HydrateNone

IndexSpec == IndexInit /\ [][IndexNext]_indexVars

-----------------------------------------------------------------------------
(* Properties.                                                             *)

\* The indexer has nothing left to do, and nothing is under way.
IndexAtRest ==
  /\ \A s \in Saves : saving[s] \in {"new", "done"}
  /\ position = Len(topic) /\ \A c \in Consumers : works[c] = "idle"
  /\ scan \in {"ready", "done"}

\* Redelivered, and moved between processes, the messages leave in the index what
\* the topic has last, and a suggested name with it: the document is the row.  What
\* breaks this is named: the last to change the row was a deletion, or the event of
\* the last save was lost, or overtaken by that of an earlier one; its handling
\* failed, which nobody repeats; who had lost the partition committed past what was
\* to be written again; or it wrote, late, what the reader had gone past, or the
\* backfill did.  The next save whose event is handled puts it right.
IndexFollowsRow ==
  (IndexAtRest /\ topic # <<>> /\ topic[Len(topic)] = stored /\ ~passed)
    => (outOfTurn \/ doc = stored) /\ (nameLost \/ suggested)

\* However old the document, a search shows the row as it was when the search
\* began, or later, and no post that was deleted by then.
AnswersFollowRow == ~misled

SearchFollowsRow == IndexFollowsRow /\ AnswersFollowRow
=============================================================================
