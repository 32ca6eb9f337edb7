------------------------------- MODULE Inbox -------------------------------
(***************************************************************************)
(* One person's notifications and their unread count:                      *)
(* internal/data/notification_query.go, internal/handlers/notification.go, *)
(* and PersisterHandler.Handle (notifications/kafka/consumer_persister.go) *)
(* as far as it touches the badge.                                         *)
(*                                                                         *)
(* The rows of notifications_by_user are marked and hidden, never removed  *)
(* but by their time to live.  The badge is a Redis key that every         *)
(* operation moves after the row; GetUnreadCount answers with the key, or  *)
(* counts the rows and sets the key where there is none.                   *)
(*                                                                         *)
(* A device sends one request after the other, as many as it likes; two    *)
(* devices may have requests under way at the same time.  The handler of a *)
(* notification stores and counts it and may go on to read the badge for a *)
(* push, which sets a missing key as a request does.                       *)
(***************************************************************************)
EXTENDS Integers, FiniteSets

CONSTANTS
  Notifications,  \* the notifications that may arrive
  Devices,        \* from which the person sends requests
  InboxFaults,    \* the faults of the environment, a subset of InboxFaultKinds
  NoKey           \* the badge of somebody who has no key in Redis

InboxFaultKinds == {"redis", "cassandra", "flush", "ttl", "crash"}

ASSUME InboxAssumption ==
  /\ IsFiniteSet(Notifications) /\ Devices \cap Notifications = {}
  /\ InboxFaults \subseteq InboxFaultKinds
  /\ NoKey \notin Int

VARIABLES
  stored,   \* notifications with a row
  arriving, \* those whose INCR has still to come
  read,     \* rows with is_read
  hidden,   \* rows with is_deleted
  lapsed,   \* rows whose inserted cells have reached default_time_to_live
  badge,    \* notif:unread:<user>
  call,     \* the request of a device, or the reading of the badge by the handler of
            \* a notification: its step, the rows it is about, a count
  alone,    \* history: nothing has run beside the present call, or failed in it
  tidy      \* history: nothing has put the badge out of step since it was right

records == <<stored, read, hidden, lapsed>>
inboxVars == <<records, arriving, badge, call, alone, tidy>>

InboxSteps == {"idle", "findToMark", "mark", "findToHide", "hideUnread", "hideRead",
               "decr", "scan", "markEach", "get", "count", "fill"}

Callers == Devices \cup Notifications

InboxTypeOK ==
  /\ stored \subseteq Notifications /\ arriving \subseteq stored
  /\ read \subseteq stored /\ hidden \subseteq stored /\ lapsed \subseteq stored
  /\ badge \in Nat \cup {NoKey}
  /\ call \in [Callers -> [step : InboxSteps, on : SUBSET stored, found : Nat]]
  /\ alone \in BOOLEAN /\ tidy \in BOOLEAN

InboxInit ==
  /\ stored = {} /\ arriving = {} /\ read = {} /\ hidden = {} /\ lapsed = {}
  /\ badge = NoKey
  /\ call = [k \in Callers |-> [step |-> "idle", on |-> {}, found |-> 0]]
  /\ alone = TRUE /\ tidy = TRUE

-----------------------------------------------------------------------------

\* What a query with is_read = false returns, deleted rows included.
Unread == stored \ (read \cup lapsed)

\* A row that has lapsed is found as long as an UPDATE has left a cell in it.
Findable == stored \ (lapsed \ (read \cup hidden))

On(k, step) == call[k].step = step
About(k, n) == n \in call[k].on

NoRequests == \A d \in Devices : On(d, "idle")
Resting == arriving = {} /\ \A k \in Callers : On(k, "idle")

\* The next step of a handler, with the rows and the count it still needs.
Then(k, step, on, found) ==
  call' = [call EXCEPT ![k] = [step |-> step, on |-> on, found |-> found]]
Answer(k) == Then(k, "idle", {}, 0)

\* A request that begins while something is under way may put the badge out of
\* step; so does an arrival beside a request.
Begins ==
  /\ alone' = Resting
  /\ tidy' = (tidy /\ Resting)
Disturbs == alone' = FALSE /\ tidy' = FALSE
Calm == UNCHANGED <<alone, tidy>>

-----------------------------------------------------------------------------
(* Arrivals: CreateNotification, by the persister or the direct dispatch,  *)
(* and what the persister does with the badge afterwards.                  *)

StoreNotification(n) ==
  /\ n \notin stored
  /\ stored' = stored \cup {n} /\ arriving' = arriving \cup {n}
  /\ IF NoRequests THEN Calm ELSE Disturbs
  /\ UNCHANGED <<read, hidden, lapsed, badge, call>>

\* The persister asks for the badge of the push; the direct dispatch does not, nor
\* the persister where GetDeviceTokens finds no device or fails.
GoOn(n) == Then(n, "get", {}, 0) \/ UNCHANGED call

\* INCR of a missing key makes it 1, whatever the rows say.
CountNotification(n) ==
  /\ n \in arriving
  /\ arriving' = arriving \ {n}
  /\ badge' = IF badge = NoKey THEN 1 ELSE badge + 1
  /\ GoOn(n)
  /\ Calm
  /\ UNCHANGED records

\* The error of INCR is not looked at; or the handler ends before it, its process
\* dying or the INSERT answering with an error although the row is there.
CountNotificationLost(n) ==
  /\ n \in arriving
  /\ arriving' = arriving \ {n}
  /\ \/ "redis" \in InboxFaults /\ GoOn(n)
     \/ InboxFaults \cap {"crash", "cassandra"} # {} /\ UNCHANGED call
  /\ Disturbs
  /\ UNCHANGED <<records, badge>>

-----------------------------------------------------------------------------
(* The requests of the person.                                             *)

\* A client names a notification it has been shown.  One that is deleted can
\* only be named again, by a retry or another device: out of step.
NameNotification(d, n) ==
  /\ On(d, "idle") /\ n \in stored
  /\ \E step \in {"findToMark", "findToHide"} : Then(d, step, {n}, 0)
  /\ IF n \in hidden THEN Disturbs ELSE Begins
  /\ UNCHANGED <<records, arriving, badge>>

\* read-all, or the list and the count.
AskForAll(d) ==
  /\ On(d, "idle")
  /\ \E step \in {"scan", "get"} : Then(d, step, {}, 0)
  /\ Begins
  /\ UNCHANGED <<records, arriving, badge>>

\* MarkAsRead: SELECT created_at, is_read; what is read already is not marked.
FindToMark(d, n) ==
  /\ On(d, "findToMark") /\ About(d, n)
  /\ IF n \notin Findable THEN Answer(d)
     ELSE IF n \in read THEN Then(d, "get", {}, 0) ELSE Then(d, "mark", {n}, 0)
  /\ Calm
  /\ UNCHANGED <<records, arriving, badge>>

MarkRow(d, n) ==
  /\ On(d, "mark") /\ About(d, n)
  /\ read' = read \cup {n}
  /\ Then(d, "decr", {}, 0)
  /\ Calm
  /\ UNCHANGED <<stored, hidden, lapsed, arriving, badge>>

\* Mutant of FindToHide: deleting does not look at is_read.
FindToHideAny(d, n) ==
  /\ On(d, "findToHide") /\ About(d, n)
  /\ IF n \notin Findable THEN Answer(d) ELSE Then(d, "hideUnread", {n}, 0)
  /\ Calm
  /\ UNCHANGED <<records, arriving, badge>>

\* DeleteNotification: the same SELECT; is_read decides about the decrement, and
\* is_deleted is not asked for.
FindToHide(d, n) ==
  /\ On(d, "findToHide") /\ About(d, n)
  /\ IF n \notin Findable THEN Answer(d)
     ELSE Then(d, IF n \in read THEN "hideRead" ELSE "hideUnread", {n}, 0)
  /\ Calm
  /\ UNCHANGED <<records, arriving, badge>>

HideRow(d, n) ==
  /\ About(d, n)
  /\ \/ On(d, "hideUnread") /\ Then(d, "decr", {}, 0)
     \/ On(d, "hideRead") /\ Then(d, "get", {}, 0)
  /\ hidden' = hidden \cup {n}
  /\ Calm
  /\ UNCHANGED <<stored, read, lapsed, arriving, badge>>

\* The Lua script: DECR, but not below zero and not of a missing key.
Lowered == IF badge \in {NoKey, 0} THEN badge ELSE badge - 1

DecrementBadge(d) ==
  /\ On(d, "decr")
  /\ badge' = Lowered
  /\ Then(d, "get", {}, 0)
  /\ Calm
  /\ UNCHANGED <<records, arriving>>

\* MarkAllAsRead: one scan of the unread rows, an UPDATE for each, SET 0.
ScanUnread(d) ==
  /\ On(d, "scan")
  /\ Then(d, "markEach", Unread, 0)
  /\ Calm
  /\ UNCHANGED <<records, arriving, badge>>

MarkEach(d, n) ==
  /\ On(d, "markEach") /\ About(d, n)
  /\ Then(d, "markEach", call[d].on \ {n}, 0)
  /\ read' = read \cup {n}
  /\ Calm
  /\ UNCHANGED <<stored, hidden, lapsed, arriving, badge>>

\* Undisturbed, it puts everything right.
ZeroBadge(d) ==
  /\ On(d, "markEach") /\ call[d].on = {}
  /\ badge' = 0
  /\ Answer(d)
  /\ tidy' = (tidy \/ alone)
  /\ UNCHANGED <<records, arriving, alone>>

\* Mutant of ReadBadge: a badge of zero is taken for a missing one.
ReadZeroAsMissing(k) ==
  /\ On(k, "get")
  /\ IF badge \in {NoKey, 0} THEN Then(k, "count", {}, 0) ELSE Answer(k)
  /\ Calm
  /\ UNCHANGED <<records, arriving, badge>>

\* GetUnreadCount, also called for the answers of the other endpoints and by the
\* persister: the key,
ReadBadge(k) ==
  /\ On(k, "get")
  /\ IF badge = NoKey THEN Then(k, "count", {}, 0) ELSE Answer(k)
  /\ Calm
  /\ UNCHANGED <<records, arriving, badge>>

\* or else a count of the rows,
CountUnread(k) ==
  /\ On(k, "count")
  /\ Then(k, "fill", {}, Cardinality(Unread))
  /\ Calm
  /\ UNCHANGED <<records, arriving, badge>>

\* which becomes the key, unread rows that are deleted included, however old the
\* count is by now.  (A handler of the persister is never alone when it is here.)
FillBadge(k) ==
  /\ On(k, "fill")
  /\ badge' = call[k].found
  /\ Answer(k)
  /\ tidy' = (tidy \/ (alone /\ hidden \subseteq read \cup lapsed))
  /\ UNCHANGED <<records, arriving, alone>>

-----------------------------------------------------------------------------
(* Faults.                                                                 *)

\* A Redis call returns an error, having taken effect or not: the errors of the
\* script, of SET 0 and of the filling are ignored, that of GET is a miss.  In a
\* process that has started without Redis every call goes as if it had failed.
RedisFails(k) ==
  /\ "redis" \in InboxFaults
  /\ \/ On(k, "decr") /\ Then(k, "get", {}, 0) /\ badge' \in {badge, Lowered}
     \/ On(k, "markEach") /\ call[k].on = {} /\ Answer(k) /\ badge' \in {badge, 0}
     \/ On(k, "fill") /\ Answer(k) /\ badge' \in {badge, call[k].found}
     \/ On(k, "get") /\ Then(k, "count", {}, 0) /\ UNCHANGED badge
  /\ Disturbs
  /\ UNCHANGED <<records, arriving>>

\* A Cassandra call fails: the handler ends, with a row written or not, except
\* that MarkAllAsRead passes over a row it could not mark.
CassandraFails(k) ==
  /\ "cassandra" \in InboxFaults
  /\ \/ /\ call[k].step \in {"findToMark", "findToHide", "scan", "count"}
        /\ Answer(k)
        /\ UNCHANGED records
     \/ /\ On(k, "mark") /\ Answer(k)
        /\ read' \in {read, read \cup call[k].on}
        /\ UNCHANGED <<stored, hidden, lapsed>>
     \/ /\ On(k, "hideUnread") \/ On(k, "hideRead")
        /\ Answer(k)
        /\ hidden' \in {hidden, hidden \cup call[k].on}
        /\ UNCHANGED <<stored, read, lapsed>>
     \/ /\ On(k, "markEach")
        /\ \E n \in call[k].on : Then(k, "markEach", call[k].on \ {n}, 0)
        /\ UNCHANGED records
  /\ Disturbs
  /\ UNCHANGED <<arriving, badge>>

\* The process ends, or the client goes away and its context with it.
CallCutShort(k) ==
  /\ "crash" \in InboxFaults
  /\ ~On(k, "idle")
  /\ Answer(k)
  /\ Disturbs
  /\ UNCHANGED <<records, arriving, badge>>

\* Redis restarts without its data.
BadgeLost ==
  /\ "flush" \in InboxFaults
  /\ badge # NoKey
  /\ badge' = NoKey
  /\ Disturbs
  /\ UNCHANGED <<records, arriving, call>>

\* 90 days after the INSERT its cells are gone; the cell of an UPDATE is younger.
RowLapses(n) ==
  /\ "ttl" \in InboxFaults
  /\ n \in stored \ lapsed
  /\ lapsed' = lapsed \cup {n}
  /\ Disturbs
  /\ UNCHANGED <<stored, read, hidden, arriving, badge, call>>

Arrive(n) ==
  StoreNotification(n) \/ CountNotification(n) \/ CountNotificationLost(n)

Serve(d) ==
  \/ AskForAll(d) \/ ScanUnread(d) \/ ZeroBadge(d) \/ DecrementBadge(d)
  \/ \E n \in Notifications :
       \/ NameNotification(d, n) \/ FindToMark(d, n) \/ MarkRow(d, n)
       \/ FindToHide(d, n) \/ HideRow(d, n) \/ MarkEach(d, n)

GetUnreadCount(k) == ReadBadge(k) \/ CountUnread(k) \/ FillBadge(k)
Mishap(k) == RedisFails(k) \/ CassandraFails(k) \/ CallCutShort(k)

InboxNext ==
  \/ \E n \in Notifications : Arrive(n) \/ RowLapses(n)
  \/ \E d \in Devices : Serve(d)
  \/ \E k \in Callers : GetUnreadCount(k) \/ Mishap(k)
  \/ BadgeLost

InboxSpec == InboxInit /\ [][InboxNext]_inboxVars

-----------------------------------------------------------------------------
(* Properties.                                                             *)

\* What GetUnreadCount answers, and what the list shows as unread.
ShownBadge == IF badge = NoKey THEN Cardinality(Unread) ELSE badge
ShownUnread == Unread \ hidden

\* notifications-list-frontend.md: unread_count is the "Total unread for current
\* user".  With nothing under way it is, as long as nothing has put it out of step:
\* calls that ran side by side, a call that failed, a key or a row that was lost,
\* a call about a notification that was deleted before.  Whatever has, a read-all
\* that runs undisturbed puts it right again, and so does a reload of a lost key,
\* unless a deleted notification was never read.
BadgeInStep == Resting /\ tidy => ShownBadge = Cardinality(ShownUnread)
=============================================================================
