# Geoloc, specified

Geoloc is a location-based social backend in Go: an HTTP API (gin), Cassandra for
everything that lasts, Redis for counters, locks and pub/sub, Kafka between the API
processes and their consumers, Elasticsearch for search, FCM for push. This directory
holds TLA+ modules of its core logic, TLC configurations that check them on small
instances, and theorems about them checked by TLAPS.

What makes the program hard is the same nearly everywhere: one operation is several
calls to stores that know nothing of each other, and any two requests, any two
processes, and a failure between any two calls may interleave. Nothing holds a lock
across calls. So almost every module has the same form: **a request is a handler
goroutine with a program point; one action is one call to a store**, guarded by what the
code looks at and followed by what the code does with the answer.

Contents: [1 Inventory](#1-inventory), [2 Plan](#2-plan), [3 Modules](#3-modules-and-the-code),
[4 Runs](#4-runs), [5 Proofs](#5-proofs), [6 Disagreements](#6-where-the-code-and-its-documents-disagree),
[7 Not modelled](#7-what-is-not-modelled).

## 1 Inventory

Line numbers and files are in `PROJECT.json` (`components`, `map`, `hazards`).

| Component | State | Operations | Talks to |
|---|---|---|---|
| **Likes** `like_repo.go`, `like_counter.go` | `like_state` (LWT), mirrors `likes` and `likes_by_user`, Redis `like_count:*` | toggle, explicit like / unlike, legacy endpoints, counter repair | dispatcher |
| **Consumer loop** `kafka/consumer.go` | offset of the group, position of the reader | fetch, handle, commit; rebalance, restart | every consumer below |
| **Persister** `dispatcher.go`, `consumer_persister.go` | dedupe keys in Redis, `notifications_by_user`, `notif:unread:*` | claim, block check, insert, count, publish, queue a push | inbox, SSE, push, moderation |
| **Push** `consumer_push.go`, `push/` | per-token locks in Redis, two topics, the retry budget in the message | lock, send, mark, release, requeue | FCM, devices |
| **Direct messages** `dm_repository.go`, `dm_handler.go` | `dm_conversations`, `dm_conversations_by_user` (ordered by time), `dm_messages`, receipts, public keys | open, send, hide, delete message, read receipt, publish key | moderation, SSE, push |
| **Comments** `comment_repo.go`, `comment_counter.go` | `comments` and `comments_by_id` (logged batches), Redis counter, `comment_counts` | comment, reply, edit, delete, page | posts, dispatcher |
| **Accounts** `user_repo.go`, `password_reset_repo.go`, `auth/` | `users` (key: id), reset tokens with TTL, key backup | register, social sign-in, login, forgot / reset, update, delete | all |
| **Inbox** `notification_query.go` | `notifications_by_user` (90 days), Redis unread counter | list, mark one, mark all, delete, count and reload | persister |
| **Posts and feed** `post_repo.go`, `handlers/post.go` | `posts_by_geohash`, `posts_by_id`, `posts_by_user` | create, nearby feed, user feed, delete | comments, search, moderation |
| **Follows** `follow_repo.go` | `follows`, `followers`, two counters | follow, unfollow, lists | dispatcher, feed |
| **Location follows, nearby fan-out** `location_follow_query.go`, `consumer_nearby.go` | followers per cell | subscribe; one event per follower of a new post's cell | persister |
| **Moderation** `moderation_repo.go` | `blocks`, `mutes`, reports | block, mute, report | persister, DM, feed |
| **SSE** `sse/handler.go` | one presence key per person, with a lease | connect, relay, heartbeat, clean up | persister, DM |
| **Search** `internal/search`, `cmd/indexer`, `cmd/backfill-search` | Elasticsearch documents, suggested names in Redis | publish, index (consumer), backfill, query, hydrate, rank | posts, users |
| **Devices, media, tokens, middleware, locations, tools** | tokens per user; objects; JWT; rate-limit keys; geocode cache | see `PROJECT.json` | |

Where it is hard, and what is correct:

* *Likes.* Three stores and a counter moved one after another. Correct: an answer "changed"
  is given once per change; the count never loses a like; an author hears of a like once.
* *Consumer loop and its handlers.* At-least-once delivery, a handler error that does not
  stop the loop, a rebalance while a handler runs. Correct: an event has one row, nothing
  is announced that is not saved, a commit passes only what is settled, a device is shown a
  notification at most once, a failed send is retried until the budget is spent.
* *Direct messages.* The inbox row is keyed by the very time it must follow, so each send
  is read-then-move. Correct: a conversation is never lost from an inbox;
  blocks and key rotation in mid-send do no harm; a deleted conversation stays away.
* *Comments.* Two copies per comment, written by batches that are atomic but not isolated;
  two counters of which one is read; lists that are scrolled while they change.
  Correct: the copies converge; a deletion is final; a scroll is complete.
* *Accounts.* Uniqueness of mails and of registered usernames, and finality of deletion, rest on
  reads made before writes. Correct: a deleted account stays closed and anonymous, a reset token that
  has been marked is dead, a mail that was taken is refused, and so is a username by a registration.
* *Posts, feed, blocks and mutes.* Three rows per post and two per block; pages cut after the
  filter. Correct: a deletion leaves no row, whatever of the creation is still on its
  way; no post is shown twice or left out of a scroll; who is blocked is not seen.
* *Inbox, follows, presence.* A count or a flag beside the rows it is about, moved by separate
  calls and never compared with them again. Correct: it is only ever wrong for a reason that can
  be named, and what repairs it repairs it: a read-all the badge, the next heartbeat the presence key.
* *Nearby fan-out.* Nine cells read one after another while people come and go, in a handler that
  may run again. Correct: nobody is told twice by one handling, who stays is told.
* *Search.* A second copy of a row, written by goroutines and consumers in any order, that is
  never told of a deletion. Correct: the last event handled in turn is what the index has; what
  a search shows is the row, not the copy.

`PROJECT.json` lists the hazards at their lines with the properties that watch them. A hazard
without a property says why. Smaller ones that belong to parts not modelled: a report may be filed
twice; an old picture is deleted from the store before the row that points to it is updated;
a device token that a second person registers stays a token of the first as well; concurrent misses
of one cell queue behind the geocoder's ticker.

## 2 Plan

Order: first what everything else relies on or what loses user data silently.

1. `Likes`, with the atomic register `LikeRegister` it implements and `LikesProofs`. *Done.*
2. `ConsumerGroup`, and on top of it `Persister` and `PushDelivery`: the notification
   pipeline from event to device. *Done.*
3. `DirectMessages`: one conversation. *Done.*
4. `Comments`: two tables, counters, pages. *Done.*
5. `Accounts`, with `AccountsProofs`. *Done.*
6. `Posts`: creation and deletion over three tables, blocks and mutes, the nearby page with its
   filter and its limits, with `PostsProofs`. *Done.*
7. `Inbox`, `Follows`, `Presence`: counts and flags beside rows. *Done.*
8. `NearbyFanout` and `SearchIndex`: two more handlers on the loop of `ConsumerGroup`. *Done.*
9. The theorems of §5: every safety property that a run checks and finds to hold, for all values of
   the constants. *Done.*
10. The pipeline as a whole: `Pipeline`, which joins `Persister` and `PushDelivery`, and what the two promise
    (`NotificationFate`, `DeviceChannel`), with the proofs that they implement it. *Done.*
11. Left for later, of less weight: reports, the rate limiter, the location cache, device registration.

Abstract specifications: the register behind a toggle (`LikeRegister`), the fate of a notification
event (`NotificationFate`), the lossy channel to a device (`DeviceChannel`). `BadgeInStep` and
`FollowTablesAgree` say of the inbox and of follows what an abstract "set of rows with an exact
count" would, together with when the code does not keep to it.

## 3 Modules and the code

### `Likes`, `LikeRegister`

One target; targets share no key. `likeState` is `like_state`, changed by `TryAddLike` and
`TryRemoveLike` (the two lightweight transactions, applied or not), `counter` the Redis key,
`likes` and `byUser` the mirrors. `pc[r]` follows `ToggleLike`: read what is wanted
(`ResolveWantLiked`, only where the body does not say), transact, move the counter, then
`Finish`: start the mirroring goroutines and dispatch the event. `replica` holds what a
lagging replica answers at consistency ONE, since the `SELECT` before the delete is no
transaction. Faults are a constant: Redis errors (applied or not, with the goroutine of
`SyncCounterFromCassandra` that follows), Cassandra errors (applied or not), stale reads, a
crash anywhere, Redis losing its data. `likes_by_user` is never cleaned: Cassandra refuses
the `DELETE`, and the code drops the error; the module does what the code then does.

`LikeRegister` is the promise: each request takes effect at one instant and its answer says
whether it changed anything. `Linearizable` says that `Likes` implements it, with the mapping
`liked <- likeState, answer <- changed, wanted <- want`: the transaction, or the read that
made it needless, is the instant.

### `ConsumerGroup`, `Persister`, `PushDelivery`, `Pipeline`

`ConsumerGroup` is `RunConsumerGroup` over one partition: the broker's `committed` offset,
the `position` in the memory of the reader that owns the partition, the message `inHand`.
`HandlerError` is what the loop does on an error: nothing, the reader has already
advanced. `Crash` and `Rebalance` send the next owner back to `committed`, while the old one
may still be in its handler and commit late. A commit may also fail, which the loop only logs
(`CommitMessages` with the offset unchanged).

`Persister` EXTENDS it with `PersisterHandler.Handle`, one action per call: `Claim` (SETNX),
`CheckBlocks`, `Insert`, `IncrUnread`, `PublishSSE`, `QueuePush`, `Commit`. What the handler does to
the badge on its way, the INCR and the `GetUnreadCount` that fills in the number of the push and sets a
missing key, is a matter of `Inbox`; here `IncrUnread` is only a call that is made or not. Upstream,
`Dispatch` may lose a batch or write it twice (an asynchronous writer), and the two people
block and unblock each other as long as there is something to handle.

`PushDelivery` has two INSTANCEs of `ConsumerGroup`, one per topic, in the same processes, and
between them the retry budget: `AcquireLock`, `SendSucceeds` or `SendFails`,
`MarkDelivered` or `ReleaseLock`, `QueueRetry`, and in the other topic `NotTimeYet`, `Requeue`.
The push service is external: it acknowledges or fails.

`NotificationFate` is what the persister promises of an event: suppressed or saved, not both; then announced at
most once, and handed on at most once, in this order. `DeviceChannel` is what the two push topics promise a
device: what is delivered was produced, and is delivered once. Both `Waive` what a key lost by Redis
stood for, since the code promises nothing there. `OneFate` and `OnceToDevice` say that `Persister` and
`PushDelivery` implement them; the mappings count only what is not waived.

`Pipeline` EXTENDS `Persister` with an INSTANCE of `PushDelivery`, whose readers are a set of their own
(`PushConsumers`, declared with the other parameters of the push topics in `PushConstants`). The two meet in
one action, `QueueJob`: the call of `ProducePushDispatch` that is a counter in `Persister` and an event from
nowhere in `PushDelivery` is there one step of both. Every other step is a step of one side. A process has
a reader for each topic, in a goroutine of its own, and they are lost one by one: a process that goes down is
several of these steps. The job of an event that Redis has let be claimed twice is written a second time only
while the topic has fewer than `MaxLog` jobs.

### `DirectMessages`

One conversation of two people, whose requests (any number of devices) run
`GetOrCreateConversation`, `SendMessage`, `DeleteConversation`, `SoftDeleteMessage`, `MarkRead`,
`putPublicKey`. Every check of the blocks is a call of its own (`MayOpen`, `CheckBlock`). A key that replaces
one of the same version is not told from it. `inbox` is the set of rows `<<user, last_message_at>>`: that a person can hold
two rows for one conversation is the point. A logged batch is one step here: only one row
of the inbox matters to a reader, and convergence of batch parts is the subject of
`Comments`. `Ties` allows two requests the same millisecond; the runs keep it `FALSE`, because
with it the delete and the insert of one batch carry the same key and the tombstone wins.

### `Comments`

`rows[table][comment]` holds, per cell, the time of the latest write that has reached it;
`pending` the parts of logged batches still under way; `Apply` delivers one, and `Merged` is
Cassandra's last-write-wins. Readers of a single comment see `comments_by_id`, lists see
`comments`. `redis` and `counts` are the two counters: the second is only moved when the first
fails, and only read when the first is zero. `Backfill` is `cmd/backfill-comment-counts`. A client
scrolls one list to the end (`StartScroll`, `NextPage`), a page at a time. `clock` orders the writes, as
Cassandra's microseconds do; `created` is `created_at`, the handler's time cut to milliseconds, and
comes from the small set `Millis`: two comments may share one, and a later write may have an earlier one. The
cursor is such a time, and a page has what is strictly before it.
Left out are a process that started without Redis, where `CommentRepository` has no counter and moves
only `comment_counts`, and the retries that the Redis client makes of an INCR whose answer was lost.

### `Accounts`

`mail`, `name`, `hash`, `deleted`, `profile` are columns of `users`, whose only key is the id. A request
that creates an account is its id, one that creates a token is that token. A registration looks up its
username (`LookName`) and then its mail (`Look`). A social sign-in looks up the mail only: its username is made
from the mail's local part and the time, and stored without a lookup, so that `CreateUser` gives it any
(`Usernames`). Where a lookup fails, `Register` and the social sign-ins go on as if nobody
had the mail or the name, and the request is remembered in `blind`. The insert may answer with an error
although the row is there. `goneAt`, `takenBy`, `namedBy`, `spent` are history: what was so when a request came in.

### `Posts`

`cell[<<table, key>>]` is a row of `posts_by_geohash`, `posts_by_id`, `posts_by_user` (key: a post) or of `blocks`,
`blocked_by`, `mutes` (key: a pair of users): the time of the latest write that has reached it, and
whether that write made or removed it. `Execute` is `ExecuteBatch`, `Arrive` the arrival of one part,
`Merged` the comparison of write times. A deletion reads `posts_by_id` (`DeletePost`) and then writes
(`DeleteRows`); the other requests write at once. (`MayTarget`: nobody
blocks or mutes themselves, but one may unblock or unmute oneself, which removes nothing.) Writes of one row have write times in the order
of the calls, which is to assume that the servers' clocks agree; `created_at`, which
orders the lists, has only milliseconds, and two posts may share one.

`reader` is a client that scrolls and the handler that answers it. A page of the feed is `Ask` (with
`GetBlockedAndMutedUsers`, whose failed reads are passed over), one `ReadCell` per geohash cell, in the
order in which the rows arrive, and `GetFeed` (the last cell, the sort, the cut, the exclusion of
authors, the next cursor). A page of a user's posts is `Ask` and `GetUserPosts`. `barred` remembers who
was blocked or muted when the page was asked for, `base` what was listed when the scroll began.
The events that `CreatePost` leaves to goroutines (in `NearbyFanout` and `SearchIndex`), and what
deletion does to comments (in `Comments`), are not here.

### `Inbox`, `Follows`, `Presence`

`Inbox` is one person's notifications. `stored`, `read`, `hidden` are the rows of
`notifications_by_user` and their flags, `badge` is `notif:unread:<user>`. A device runs one request
after another, without a bound on their number; each step of `call` is one call to a store. The callers are
the devices and the handlers of the persister: after its INCR such a handler may go on to `GetUnreadCount`
(`GoOn`), and where the key is missing or GET fails it counts the rows and sets the key, however old its count is by
then. The direct dispatch, which has no such reading, is a handler that stops after the INCR. A process that
started without Redis is one whose every call to it fails without effect (`RedisFails`, `CountNotificationLost`).
A row's inserted cells `lapse` after 90 days, while the cell of a later `UPDATE` keeps the row findable.
`tidy` is history: it falls when something happens that the code does not make up for, and rises
again with a read-all, or a reload of a lost key by a request, that ran undisturbed.

`Follows` is the set of one person's followers: `follows` (one row per fan), `followers` (one row per
follow, keyed by its time), written by a logged batch whose parts arrive one by one (`ArriveFollows`
compares write times; `buried` are tombstones), and the two counters, moved by a second batch that
may fail half way.

`Presence` is `sse:online:<user>`. Time passes in ticks, and not past a heartbeat that is due. `missing` and
`lonely` measure for how long `recipientOnline` has been wrong in either direction.

### `NearbyFanout`, `SearchIndex`

Both extend `ConsumerGroup`. `NearbyFanout` reads the cell of a post and its neighbours one by one
(`ReadCell`), tells one person after another (`Tell`), and commits whatever has failed. `told[<<job, person>>]`
counts the events made, `handled[job]` the handlings. `steady` and
`promised` are history: whom a handling that could read every cell had to tell.

`SearchIndex` is one user or post. `stored` is the version of its row; a save takes a `snapshot` (after an
update, what it reads back) and publishes it from a goroutine. The indexer has the loop of
`ConsumerGroup` (`cmd/indexer` has its own copy of it, of the same shape); it writes `doc` and then the
suggested name. The deletion of
an account is one more version of its row, which nobody publishes (`DeleteAccount`). The backfill writes what it has scanned. A search is two steps, the index (`Ask`) and
the rows (`Hydrate`). Three variables are history, and name what the document may be stale from: the reader went past a
message that was still to be written, by an error or because somebody who had lost the
partition committed it (`passed`, `StartsPast`); the last to write had such a message, or was the backfill (`outOfTurn`);
a name was not added (`nameLost`). A search that has shown less than it had to is `misled`.

### `Counters`, `Delivery`

They put modules side by side that do not meet, for one run and one typing theorem each: `Counters` has `Likes`,
`Inbox`, `Follows` and `Presence`, `Delivery` has `DirectMessages`, `NearbyFanout` and `SearchIndex`.

## 4 Runs

| Run | Question | Bounds | Answer |
|---|---|---|---|
| `counters` | Is the toggle a register, under concurrency alone? Are the unread badge, the follow tables and counts, and the presence key in step with what they are about? | likes: 2 people, 3 requests, no faults; inbox: 2 notifications with the handlers of the persister, 2 devices, all faults, at most three of requests, handlers, arrivals and lapsed rows at a time; follows: 2 fans, 3 requests, failures; presence: 2 streams, heartbeat 2, lease 6, 2 failed calls | holds |
| `likes_faults` | Do the answers add up under every fault? | 1 person (the author is another), 3 requests, all faults | holds |
| `likes_total` | Is the count the number of likes? | as the first | **no**, §6 |
| `persister` | Is nothing announced that is not saved, nothing lost but by interruption? Does an event have one fate (`NotificationFate`)? | 1 event, written up to twice, 2 processes, all faults, 2 crashes, rebalances or failed commits | holds |
| `persister_retry` | Does a commit pass only what is settled? | 2 events, 1 process, only Cassandra errors | **no**, §6 |
| `pipeline` | From event to phone: is what rings saved? Are the topics a channel to a device (`DeviceChannel`), and is no token forgotten? | 1 event, 1 device, retry budget 1, topics of 2. Whole: one reader per topic, Cassandra and push errors, blocks, expiring keys, 1 crash, rebalance or failed commit of the persister. Topics: two readers each, all faults, batches written twice or 1 disruption | holds |
| `push_retry` | Is a retry sent once its time has come? | 1 event, 1 device, 1 process, only failing sends, budget 3 | **no**, §6 |
| `delivery` | Conversations and blocks; the fan-out; the index and what a search shows | messages: 3 requests of any kind, 2 people, 2 key versions, failures; fan-out: 1 post, 2 cells, 2 people, 1 follow or unfollow meanwhile; search: 2 saves, 1 backfill; both with 2 processes, 1 disruption, all faults | holds |
| `dm_deleted` | Does a deleted conversation stay away? | 4 requests to open, send or hide, no failures | **no**, §6 |
| `comments` | Convergence, finality, counters, scrolling; does anything deleted come back? | 3 requests of any kind, 1 post, depth 2, page of 1, 2 milliseconds, failures | holds |
| `accounts` | Deletion, tokens, mails and usernames, anonymity | 3 requests of any kind and the account there was, 2 mails, 1 username, 1 password, failures | holds |
| `posts` | Deletion, blocks, and scrolling while posts come, go and get barred; is a post shown for one span? | 1 post there was, 2 requests of any kind, 2 people, 2 cells and 3 places, pages of 1 and 2, `MaxLimit` 3 and `ResetLimit` 1 (100 and 50), failing reads | holds |

`counters` and `delivery` put several modules side by side. The parts share no state, so in each
behaviour one of them moves (`scene`) and the others stay in one of their initial states: TLC visits
the sum of their states and not the product, and a property of a part is checked in all of that part's
behaviours. Where two parts are handlers of different topics (`NearbyFanout`, `SearchIndex`) they have the
variables of `ConsumerGroup` in common, each in its own scene; `AllTypesOK` asks of each the type of its
scene. `pipeline` has scenes as well, which do share their state: all of it, with one reader for each topic;
and the push topics alone with two readers each, from the state in which the persister has come to its last
call, which `PushDelivery` lets it make as often as it may ever be made. In these, either batches are written
twice (`doubled`) or readers lose their partition (`disrupted`), to keep the run short: the theorems have both.

Why the bounds are enough to meet the interesting cases:

* *Three requests* is the least number at which one request can fall between two steps
  of a second while a third has already changed what they read; every race of §6 and every
  mutant of `PROJECT.json` shows itself with three (`dm_deleted` needs a fourth: open, send,
  send, hide). In `likes_faults` one person suffices, since no step of one touches the row
  of another and the shared counter is the subject of `counters`.
* *Two processes* is what a rebalance needs; a third would stand where one of the two
  is. One event suffices for `OneFate` because dedupe keys, rows and announcements are
  per event, and it may be in the log twice; the *order* of different events, and the commit
  that passes an earlier one, is `persister_retry`.
* One reader per topic in the whole pipeline: the races of two processes for one event are the subject of
  `persister`, those for one job of the other scene. What is asked of the whole is how the two sides go together,
  and the persister meets its own earlier work again after a crash. The theorems have any number of both.
* `MaxDisruptions`, `MaxLog`, `MaxRetries`, `MaxCommentDepth` bound counters that the code bounds
  too (`MaxRetries`, `MaxCommentDepth`, there 3) or that only lengthen a run. A depth of 2 has the
  first comment allowed, the reply allowed and the reply to a reply refused. A page of one
  makes every list longer than one need the cursor.
* One user in `comments`: what a request is refused for not being the author changes
  nothing; the interleavings that matter are between requests that are allowed.
* Two requests in `posts` give up to three posts, or a creation overlapped by its own
  deletion, or a block and its lifting. The order of the races is within a batch (three parts,
  in any order, with the other batch's) and between a page and the next. `MaxLimit` 3 lies between
  the queries of the two page sizes, so that one page stays within the limit and the other
  does not. Three places are one near post per cell and one in a cell but out of reach.
* In `Inbox` the number of requests is unbounded; two notifications tell "one" from "all" and let the badge be
  off by one in either direction. Two fans, three requests: follow, unfollow and follow again of one of them
  overlap in every order. Two cells of nine, since a person is either in the next cell read or not; the
  subscriptions at the start are arbitrary, and one more change may fall between any two steps.
  Two saves are an update behind a creation, or two updates at once of a row that is there.
* One username in `accounts`, which an account either has or not; with two mails, whoever wants the same
  name may have another mail. One password, since a wrong one only ends the request.
* Two milliseconds in `comments` let two comments share one or not, and a comment written later be dated earlier.
* Three runs leave out behaviours by a `CONSTRAINT`, each where the parts left out do not meet.
  `ScrollOrCounterFaults` (`comments`): a scroll reads no counter and a counter no list, so a behaviour has a scroll
  or has faults of the counters. `ScrollOrOthers` (`posts`): requests about oneself, mutes of another than the viewer,
  and the undoing of what nobody has asked for change nothing that a page reads, nor do places, blocks and mutes
  matter to the list of one author; they are followed, but not beside such a scroll, and a scroll not beyond its end. `ThreeAtOnce` (`counters`): in `Inbox` at
  most three requests, handlers, arrivals and lapsed rows at one time; two that overlap and a third thing
  that happens meanwhile. The theorems know none of these.
* Heartbeat 2 and lease 6 have the ratio of 30 and 90 seconds; two failing calls leave the key to
  expire beside an open stream.
* Requests are interchangeable before they come in, as are the processes, the notifications and devices, the mails, the posts
  there were and the two people of a conversation: the symmetry sets of the MC modules permute only these (in `pipeline` the readers of
  the push topics), and no run
  with a liveness property uses symmetry (`persister` starts with one of its two processes as the owner of the
  partition instead, which is no loss).

`CHECK_DEADLOCK FALSE` everywhere: the workload is a finite set of requests and events, and
the system stops when they are served.

Every property of every passing run has a mutant in `PROJECT.json`: a definition of the module
with a plausible bug (the unguarded insert, the ignored SETNX, the swallowed error, the
forgotten table, the row written back whole ...), under which TLC finds that property violated.

**Fairness.** Safety needs none: nor do the refinements (`Linearizable`, `OneFate`, `OnceToDevice`) and the
action properties (`ShownForOneSpan`, `NothingComesBack`), which say what a step may do. Two properties are
about what must happen. `EveryEventSettles` and
`RetriedOnceReady` assume weak fairness of each process's consumer loop, one condition per
process and topic: a loop that can fetch, make its next call or commit does so
in the end, which is what the Go scheduler gives a goroutine that is not blocked for ever;
every call in the handlers has a time-out or returns an error. Crashes, rebalances, losses and
expiries are never fair: they may, and need not, happen. `RetriedOnceReady` also assumes that
time passes (`RetryFallsDue`).

## 5 Proofs

Checked by `tlapm` from the assumptions on the constants alone: nothing else is taken on
trust, and no step is left out. Every inductive invariant holds in TLC too, on the
instances of §4 (it was checked there before it was proved). A module of proofs is laid out as: types; the invariant, in
named parts; one lemma per kind of step, or per part; the theorems.

| Module | Theorem | Property, for all values of the constants |
|---|---|---|
| `LikesProofs` | `TypeCorrect`, `AnswersAddUp`, `EventsFollowChanges` | `TypeOK`, `AnswersMatchRow`, `NotifiedOncePerLike`, under every fault |
| | `NoUndercount`, `MirrorAgrees` | `NeverUndercounts`, `MirrorAgreesUnlessReversed`, when no call fails |
| | `SerialCountIsTotal` | `CountIsTotal`, when moreover people wait for answers |
| | `LikesLinearizable` | `Linearizable`: `Likes` implements `LikeRegister`, when no call fails |
| `PersisterProofs` | `PersisterTypeCorrect`, `EventsHaveOneRow`, `AnnouncedAreSaved`, `BlockedAreSilent` | `TypeOK`, `OneRowPerEvent`, `AnnouncedOnlyIfSaved`, `BlockedStaysSilent` |
| | `EventsHaveOneFate` | `OneFate`: `Persister` implements `NotificationFate` |
| | `PipelineKeepsItsSpecs` | `Pipeline` implements `Persister` and `PushDelivery`, each as it stands |
| | `PipelineTypesCorrect`, `PushedAreSaved`, `BlockedDoNotRing`, `PhonesRingOnce`, `PipelineForgetsNone` | of `Pipeline`: `PipelineTypeOK`, `PushedIsSaved`, `BlockedNeverRings`, `OnceToDevice`, `NoTokenForgotten` |
| `PushDeliveryProofs` | `PushTypeCorrect`, `DeliveredAtMostOnce`, `NoPushForgotten` | `TypeOK`, `AtMostOneDelivery`, `NoTokenForgotten` |
| | `OnlyProducedIsPushed` | the topics hold, and devices show, only what was produced |
| | `PushIsAChannel` | `OnceToDevice`: `PushDelivery` implements `DeviceChannel` |
| `CommentsProofs` | `CommentsTypeCorrect`, `CommentTablesAgree`, `DeletionsAreFinal`, `CountsNeverOver`, `CountsExactWhenCalm`, `ScrollsAreComplete`, `CommentsDoNotReturn` | `TypeOK`, `TablesAgree`, `DeletedIsFinal`, `CountNeverOver`, `CountExactWhenCalm`, `ScrollComplete`, `NothingComesBack` |
| `AccountsProofs` | `AccountsTypeCorrect`, `DeletedAccountsStayClosed`, `MarkedTokensAreDead`, `TakenIsRefused`, `DeletedStayAnonymous` | `TypeOK`, `DeletedStaysOut`, `TokenUsedOnce`, `TakenOnce`, `AnonymousForGood` |
| `PostsProofs` | `PostsTypeCorrect`, `DeletedPostsAreGone`, `AnsweredPostsStay`, `PagesDoNotRepeat`, `BarredAreUnseen`, `ScrollsMissNothing`, `PostsDoNotReturn` | `TypeOK`, `DeletedIsGone`, `PostsStay`, `ShownOnce`, `BarredUnseen`, `ScrollComplete`, `ShownForOneSpan` |
| `DeliveryProofs` | `MessagesTypeCorrect`, `StoredHaveKeys`, `BlocksStop`, `InboxesKeepConversation` | of `DirectMessages`: the types, `StoredForKnownKeys`, `BlockStopsTraffic`; and, unless `Ties`, `NeverLostFromInbox` |
| | `FanoutTypeCorrect`, `EachIsReachedOnce` | of `NearbyFanout`: the types, `FanoutReachesEachOnce` |
| | `IndexTypeCorrect`, `SearchShowsRow` | of `SearchIndex`: the types, `SearchFollowsRow` |
| | `DeliveryTypesCorrect` | `AllTypesOK` of `Delivery`, from the three above |
| `CountersProofs` | `PresenceTypeCorrect`, `PresenceAlwaysHeals` | of `Presence`: the types, `PresenceHeals` |
| | `InboxTypeCorrect`, `BadgeStaysInStep` | of `Inbox`: the types, `BadgeInStep` |
| | `FollowsTypeCorrect`, `FollowTablesStayAgreed` | of `Follows`: the types, `FollowTablesAgree` |
| | `PartsKeepTheirSpecs`, `CountersTypesCorrect` | each part of `Counters` behaves as it does alone; `AllTypesOK` of `Counters` |

Not every property in this table is asked by a run of its own. TLC checks `OneFate`, which implies `OneRowPerEvent`;
`OnceToDevice`, which implies `AtMostOneDelivery`; `ScrollComplete`, which is `ShownOnce` and `NothingMissed`;
`PushedIsSaved` and `BlockedStaysSilent`, which give `BlockedNeverRings`. `StoredForKnownKeys` is only
proved, and `CountIsTotal` is refuted in general (§6).

### What the proofs assume

Only the named assumptions of the modules. Sets whose elements are counted are finite (users and requests
of `Likes`, requests of `Comments`, fans and their calls, notifications, consumer processes), as they are
in any run of the program up to a given time. A partition has a process to own it, a push a device (so
also in `Pipeline`: `PushConstants` holds what both assume), a count of followers somebody who may
follow. Ids are not names of other things, and nobody receives mail at `deleted.local` or is called as a deleted account is. A lease is longer
than a heartbeat (90 and 30 seconds), a page has room for a post. Two hypotheses are in statements and
not assumptions: "no call fails", without which a count does drift (the code has a repair for it, §6
shows where it does not help), and `~Ties`, that no two requests of a conversation read the same
millisecond: with a tie the delete and the insert of one batch have the same key, and the property is
false.

### `LikesProofs`

* `NoUndercount` is inductive together with the types and with "no repair goroutine exists"; the work
  is in `Accounting`, which states for each kind of step how the four terms (rows, counter, increments
  owed, decrements owed) move, from lemmas on cardinalities when one element joins or leaves.
* `SerialCountIsTotal`: the strengthening `ExactInv` says that no
  person has two requests in progress and that whoever owes an increment has the row that
  earned it; so the increments owed inject into the rows (`IncrsAreLikes`), and the decrement
  never meets the floor. This is the exact complement of the counterexample of `likes_total`.
* `LikesLinearizable`: every step is `Want`, `Apply` or a stutter under the mapping.
* `AnswersAddUp` holds whatever fails. `ControlInv` has what a request knows at its program point:
  undecided before the transaction (`Undecided`), applied where it owes a call to the counter (`OwedIsApplied`) or
  has sent an event (`EventsAreLikes`). A step then either leaves the row and the answers of a
  person alone (`NothingNew`), or decides one request (`Joins`), and the difference between likes
  and withdrawals moves with the row.
* `MirrorAgrees`: a like that was applied is on its way to the legacy table, in it, or was taken back.

### `PersisterProofs`

* `EventsHaveOneRow`: as long as Redis has not forgotten the key of an event, `OneClaim`: a row or a handler
  past its claim means that the key is there, and two handlers past the claim of one event are one. Nothing is said of the
  log, which may hold the event twice, nor of who owns the partition: that is why it survives rebalances.
* `AnnouncedAreSaved`: `RowsPay`: rows pay for what was announced (on the stream, to the push topic) *and* for what handlers
  are still to announce, so that each call moves one unit from "to come" to "done". Of the badge it says nothing:
  with a reload of a client between INSERT and INCR it counts one row twice, and `Inbox` tells when it is right.
* `BlockedAreSilent`: `BlockHolds`: an event produced under a block that stands has no row and no handler
  past the check, unless its check itself failed (`unchecked`), which the code passes over.

* `EventsHaveOneFate`: what is counted of an event whose claim stands is its fate (`FateOf`): undecided, suppressed,
  saved, announced, handed on. `FateInv` says which of these a handler past its claim can meet, by the call
  it is at; each call then is one step of `NotificationFate` or none. A lost claim waives the event, and a
  handler that still works on it moves only what is not counted.
* `PipelineKeepsItsSpecs`: `QueueJob` is a step of both specifications, every other step one of one and a stutter
  of the other. So whatever is proved of the parts holds in `Pipeline`, by citing it: `PhonesRingOnce`, `PipelineForgetsNone`, and the types.
* `PushedAreSaved`, `BlockedDoNotRing` need a link between the sides: a job is in the topic of one exactly as
  the other has counted it (`JobsCounted`), and the topics hold nothing else (`OnlyProducedIsPushed`). Then
  `RowsPay` and `BlockHolds` of the persister speak for the phones.

### `PushDeliveryProofs`

* `DeliveredAtMostOnce`: `OneHolder`: while Redis keeps the lock of a pair, at most one process is between
  the lock and its release, and a delivery leaves the lock with nobody who may release it.
* `OnlyProducedIsPushed`, `PushIsAChannel`: messages are copied between the topics and never invented; with `OneHolder`,
  who sends holds the lock of a pair that nobody has delivered, and that is `Deliver` of the channel.
* `NoPushForgotten`: for every job that lies behind what is committed, read, or in a handler's hand, each of its
  tokens is `Settled`: delivered, given up for a named reason, in some handler's hands, waiting in the retry topic,
  or carried by a *later* job. The last disjunct is what makes the invariant inductive: a lock that a job meets may
  stand for somebody at work on a later message about the same pair. In the end there is no
  later one (the greatest element of a finite set), so the last job about a pair speaks for all. `LocksStand`,
  `Marked` and `Done` say what a lock stands for and what a handler has behind it.

### `CommentsProofs`

* `CommentTablesAgree`: `RowsLatest`: a cell holds the latest of the writes that have *landed* in that table, and
  one of them. Once all parts have landed both tables are the latest of the same set; no induction over
  the order of arrival is needed.
* `DeletionsAreFinal`: who came in after a deletion was answered reads the deletion (`ReadMeetsDeletion`, from
  `RowsLatest`) and gets no further than that read (`LateKnow`).
* `CountsNeverOver`, `CountsExactWhenCalm`: the two counters are covered by the comments that are past the
  step which moves them (`CountsCovered`); where no call failed, nothing was
  backfilled and the post was not deleted, they are equal (`CountsCalm`).
* `ScrollsAreComplete`: `ReaderKnows`: what is seen is not below the cursor, and what is not below it and was listed
  from the beginning has been seen, or has a twin of the same millisecond. `Newest` picks a page by time and cuts
  a millisecond anywhere (`NewestTaken`); `PageParts` says what is sent and what is left for the next page, and
  that the query of one more than the page is short only when it has everything; `PageKnows` is the step of the
  client. A comment keeps its time and hence its twin (`ListedDated`, `TwinStays`), and one that is no longer
  listed does not come back.

* `CommentsDoNotReturn`: a cell only gets later times (`RowsGrow`), so a mark stays. A comment that has landed and is not listed
  has its one insert before the deletion of the partition (`LostIsDeleted`), the row has no other insert whatever is
  written into it afterwards (`InsertedAtItsTime`), and deletions of the partition only move on (`Settled`).

### `AccountsProofs`

Failures included, for any number of requests, mails, usernames and passwords. `IInv` adds

* `RowsAreFinished`: an account or a token belongs to a request that is finished, so no handler can
  yet make that row again; a deleted account has the anonymized mail;
* `HandlerKnows`: at each program point, which endpoint it is, and that the account and
  the token it acts on exist;
* `GoneStaysGone`: deletion is never undone, and who is granted a login was not deleted when it
  came in (`Login` looks at `is_deleted`; the social sign-ins look by mail, which a deleted
  account no longer has);
* `SpentStaysSpent`: no action takes a token from used back to fresh;
* `MailStaysFree`: between the lookup that found a mail free and the insert, no account
  that existed when the request came in takes it, since a mail only ever changes to the
  anonymized one. (An account made meanwhile may: that is the race of two registrations.)
* `NameStaysFree`: the same of the username of a registration. Nothing like it holds of a social sign-in, so the
  property does not speak of its username.

### `PostsProofs`

`IInv` has two halves. Of the store:

* `RowsHaveOrigin`: a row is what *one* batch has written (or was there to begin with), so whether
  it is there tells what kind of request was the last to reach it;
* `BatchesLand`: a part that has arrived leaves a row at least as late as its batch; a creation has the
  first time stamp of its post, a deletion a later one;
* `HandlerKnows`, `ClocksStart`: a deletion that was let through has found a post of its own author, whose
  creation had begun.

With these a row that was removed after its creation stays away (`DeletionIsLast`), and a row
that someone has made and nobody asks to remove is there (`RowStays`), which gives `DeletedIsGone`,
`PostsStay` and, for blocks, `BarredAreExcluded`. Of the scroll: `CursorBetween` (what was shown is not
older than the cursor, what was fetched is) and `BarredLeftOut`; the requests cannot disturb them,
since a post keeps its time and its author (`PostsAreFixed`).

`ScrollsMissNothing` has an invariant of its own, `ScrollInv`. What `ScrollComplete` supposes can only have been
true earlier if it is true now (`BoundsWereThere`: posts and people left out only become more), and a post
that is gone does not come back (`RowsDoNotReturn`), so it is enough, for `NothingMissed`, to follow the posts that are *still* sought; `PagesDoNotRepeat` is the other half.
Such a post was shown if it is not below the cursor (`SeenAbove`); and if its cell has been read for this page, it is among
what was got, or that has as many posts as new as the fetch will take (`CellsRead`, `Outdone`). This is where the numbers
of the code come in: a cell is read to twice the fetch, so that a page and one more out of reach leave a whole
fetch of near posts (`NextCellIsReached`); a fetch is twice a page and one where somebody is left out, so that a page of
hidden posts leaves more than a page (`FeedReaches`). Whatever is left out then lies below the next cursor
(`PageOrBelow`), strictly, since no two posts have one time.

`PostsDoNotReturn` is `RowsDoNotReturn` for each of the tables: a post is shown from its creation, and never again once it is gone.

### `DeliveryProofs`

* *Messages.* `InOrder` is what a request has read by the time it is at a program point.
  `StoredHaveKeys` follows from `KeysChecked`: the versions are those that were looked up, and keys are
  never removed. `BlocksStop` follows from `BlockInTheWay`: a request that came in under a block that stands gets
  no further than its check. `InboxesKeepConversation` needs `TimesDiffer`, that a batch never deletes the row it inserts.
* *Fan-out.* `OncePerHandling`: how often a person was told of a job, with the handlers that may still tell them, is at most
  how often the job was handled. `PromisesKept`: `HandlerKnows` follows a subscriber through
  the cells (read and to be told, or told) to the commit.
* *Search index.* `DocumentInTurn` follows the owner of the partition: the document is that of the message it is at, or
  of a later one where it has gone back. The attempt to prove the property found it false beyond the single
  disruption that TLC is given: a process that lost the partition may commit past what the new owner has still to write,
  and a reader that starts there has passed it. The histories `passed` and `outOfTurn` of the module now name
  exactly that, and the theorem holds for any number of disruptions.

### `CountersProofs`

* *Presence.* A potential: while the key is missing, `missing` and the time to any open stream's next beat stay
  within `Patience`, one heartbeat and one more for each call that failed; without a stream `lonely + ttl` never exceeds a lease.
* *Inbox.* `BadgeInv`: the badge and the arrivals not yet counted are the rows shown as unread, and one more while a decrement
  is owed. It is kept by a request that runs alone (`AloneInv`, `CallInStep`), and `tidy` says when that was so. A
  handler of the persister that nothing has disturbed finds the key its own INCR has just made (`AloneInv`), and only reads it; one
  that has to fill the key is never alone, and falls or leaves `tidy` as any other late count does.
* *Follows.* `TablesInv`: a fan's row is of the latest batch that has reached it (`RowInv`), an entry of the list is there or
  has been removed by an `Unfollow` that names it (`ListInv`), and batches have the order of the log (`BatchInv`).
  `CountsInv`: the counts with what is still to be raised or lowered are the followers, by one fan and in all; fans who repeat a
  call are left out, since the code counts a repetition.

### Model-checked only

Every invariant, action property and refinement that a passing run checks is a theorem, the one liveness property is not:

* Liveness: `EveryEventSettles` of `Persister`, which `persister` finds to hold, and `RetriedOnceReady` of
  `PushDelivery`, which the code does not satisfy (§6). Fairness speaks of `ENABLED`, out of reach of these provers.
* The properties of §6, which TLC refutes. Beside `CountIsTotal` stands a theorem on when it does hold.

## 6 Where the code and its documents disagree

Each is a run that TLC ends with a counterexample; `PROJECT.json` quotes the lines.

* **`likes_total`** — "Total likes for this post" is not what `like_count` is. Counter calls are made
  after the transactions, and the decrement stops at zero. A like and an unlike of one
  person that overlap can decrement first (nothing happens) and increment then: one like
  too many for good, with no failure. `SerialCountIsTotal` (§5) says when it cannot happen.
* **`persister_retry`** — "don't commit → retry" does not retry. The loop fetches the next
  message, whose commit passes the failed one; and a redelivery would meet the dedupe key
  that the failed attempt has left.
* **`push_retry`** — a retry fetched before its `RetryAfter` is refused, and the reader moves
  past it: with the process alive and the partition its own, it is not looked at again.
  With 5 minutes of delay this is the ordinary case.
* **`dm_deleted`** — `DELETE /dm/conversations/:id` removes the inbox row at the time it has read. A
  second row, left by a send that fell between the two calls of the conversation's creation or by
  two sends that read the same time, keeps listing the conversation.

Some properties that hold are narrower than a reader may hope, because the code is: two
overlapping registrations with one mail or username both succeed (`TakenOnce` is about those that
do not overlap), and a social sign-in stores a username that nobody looked up: two of the same local part in
the same second, or 100,000 seconds apart, have the same one; two resets may both validate a token before either marks it (`TokenUsedOnce`
is about those that come after the mark); an edit under way when a comment is deleted still
puts its text into the deleted comment (`DeletedIsFinal` is about those that come after the
answer); a profile update with an old access token writes a name into a deleted account
(`AnonymousForGood` is about its mail and username); the badge, the follow counts and
the presence key are right only until something puts them out of step, which `BadgeInStep`,
`FollowTablesAgree` and `PresenceHeals` name (the persister's own reading of a missing badge may set an old count behind a
read-all, which nothing repairs but the next one; a second follow counts twice and leaves a row in
`followers` that no unfollow finds; a stream that ends takes the key of the other with it); a
fan-out job that is handled twice tells everybody twice (`FanoutReachesEachOnce` is about one handling); the
index keeps an old document when an event was lost, overtaken or could not be written ("will retry on
next fetch", `cmd/indexer/main.go`, is not what its loop does: compare `persister_retry`), and is never told
of a deletion, of a post or of an account: a search then finds a row that is gone, leaves the post out, and shows the
anonymous row of the account (`SearchFollowsRow`); and a scroll of the feed sees everything
(`ScrollComplete`) only while its pages are less than 100 posts, or less than 50 once an author is
excluded, while those left out are no more than a page, no cell is crowded by posts out of
reach, and no two posts are of one millisecond. A scroll of comments passes over the second of two comments of one
millisecond if a page ends between them (`ScrollComplete` of `Comments` allows just that). The hazards list says so at each line.

## 7 What is not modelled

* Data the properties do not tell apart: text, names, coordinates, ciphertexts, wording of
  answers, log lines. A message is its request; a mail is a model value.
* Clocks that disagree between servers. Times are drawn from one clock; `DirectMessages` lets a
  message be stored out of the order of its time.
* Cassandra's consistency levels, except the stale replica of `Likes`; Redis persistence, except its
  loss there; Kafka's replication.
* In `Comments`: the client's own retries of an INCR, which may count a comment twice, and the branch without a
  comment counter (`comment_repo.go`, where Redis was absent at start), which moves `comment_counts` alone.
* Partitions and keys that do not interact: one target, one recipient, one conversation.
* Signatures, password hashing, social token verification, presigned URLs: library calls.
* Ranking (floating point), geohash arithmetic, HTTP routing, start-up and shutdown
  (a shutdown is a crash of the consumers), search by content, reports, the fields that
  `EnrichPosts` adds, which documents a query matches, hashtag suggestions, the forwarding of published
  messages to streams (which keeps nothing), one-off tools other than the backfills of counts and of the index.
* The components with status `not_modelled` or `partly` in `PROJECT.json`: see the plan.

The liveness properties are TLC's alone: the prover handles neither fairness nor ENABLED.
No module declares a RECURSIVE operator.
