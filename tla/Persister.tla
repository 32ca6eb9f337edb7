----------------------------- MODULE Persister -----------------------------
(***************************************************************************)
(* From the dispatcher to the inbox: the events a handler hands to         *)
(* NotificationDispatcher (internal/notifications/dispatcher.go), the      *)
(* topic notification.events, and PersisterHandler.Handle                  *)
(* (internal/notifications/kafka/consumer_persister.go) in every API       *)
(* process, for one recipient (the key of the topic) and one actor.        *)
(* The badge, notif:unread:<recipient>, is the subject of Inbox: the steps  *)
(* in which Handle touches it write nothing else.                          *)
(***************************************************************************)
EXTENDS ConsumerGroup, Sequences

CONSTANTS
  Events,   \* notification events, by EventID
  Faults    \* the faults of the environment, a subset of FaultKinds

FaultKinds ==
  {"dup", "lose", "redis", "expire", "cassandra", "blocks", "crash", "rebalance", "commit"}

ASSUME PersisterAssumption == Faults \subseteq FaultKinds

VARIABLES
  log,         \* the partition of notification.events
  emitted,     \* events given to the producer
  claimed,     \* events with a key notif:dedupe:persister:<id> in Redis
  blocked,     \* a row in blocks, in either direction
  covered,     \* events produced under a block that still stands
  pc,          \* where the handler of a process is
  rows,        \* how many rows of notifications_by_user an event has
  live,        \* how often an event was published to sse:user:<recipient>
  pushJobs,    \* how many push jobs were produced for an event
  suppressed,  \* events dropped because of a block
  interrupted, \* events one of whose handlers failed or crashed
  unguarded,   \* events let through by an error of Redis, or a key that expired
  unchecked    \* events whose blocks could not be read

handlerVars == <<claimed, rows, live, pushJobs, suppressed, unguarded, unchecked>>
vars == <<groupVars, log, emitted, blocked, covered, pc, handlerVars, interrupted>>

Labels == {"claim", "blocks", "insert", "incr", "publish", "push", "commit"}

TypeOK ==
  /\ GroupTypeOK
  /\ log \in Seq(Events)
  /\ emitted \subseteq Events /\ claimed \subseteq Events
  /\ covered \subseteq Events /\ suppressed \subseteq Events
  /\ interrupted \subseteq Events /\ unguarded \subseteq Events
  /\ unchecked \subseteq Events
  /\ blocked \in BOOLEAN
  /\ pc \in [Consumers -> Labels \cup {"idle"}]
  /\ \A c \in Consumers : pc[c] = "idle" <=> inHand[c] = 0
  /\ rows \in [Events -> Nat] /\ live \in [Events -> Nat]
  /\ pushJobs \in [Events -> Nat]

Init ==
  /\ GroupInit
  /\ log = <<>> /\ emitted = {} /\ claimed = {} /\ suppressed = {}
  /\ blocked = FALSE /\ covered = {} /\ interrupted = {}
  /\ unguarded = {} /\ unchecked = {}
  /\ pc = [c \in Consumers |-> "idle"]
  /\ rows = [e \in Events |-> 0] /\ live = [e \in Events |-> 0]
  /\ pushJobs = [e \in Events |-> 0]

-----------------------------------------------------------------------------
(* The producer, and the people.                                           *)

\* Dispatch with Kafka: the writer is asynchronous, its caller learns nothing.
\* The batch may be lost, or written twice when an acknowledgement is.
Dispatch(e) ==
  /\ e \notin emitted
  /\ emitted' = emitted \cup {e}
  /\ \/ log' = Append(log, e)
     \/ "dup" \in Faults /\ log' = log \o <<e, e>>
     \/ "lose" \in Faults /\ log' = log
  /\ covered' = IF blocked THEN covered \cup {e} ELSE covered
  /\ UNCHANGED <<groupVars, blocked, pc, handlerVars, interrupted>>

\* BlockUser and UnblockUser, by either of the two; a bound: as long as there is
\* something that is not handled.
Unhandled == emitted # Events \/ committed < Len(log)

BlockUser ==
  /\ ~blocked /\ Unhandled
  /\ blocked' = TRUE
  /\ UNCHANGED <<groupVars, log, emitted, covered, pc, handlerVars, interrupted>>

UnblockUser ==
  /\ blocked /\ Unhandled
  /\ blocked' = FALSE /\ covered' = {}
  /\ UNCHANGED <<groupVars, log, emitted, pc, handlerVars, interrupted>>

-----------------------------------------------------------------------------
(* PersisterHandler.Handle in process c.                                   *)

Event(c) == log[inHand[c]]
Goto(c, label) == pc' = [pc EXCEPT ![c] = label]

Handling(c, label) ==
  /\ pc[c] = label
  /\ UNCHANGED <<groupVars, log, emitted, blocked, covered, interrupted>>

Fetch(c) ==
  /\ FetchMessage(c, Len(log))
  /\ Goto(c, "claim")
  /\ UNCHANGED <<log, emitted, blocked, covered, handlerVars, interrupted>>

\* Mutant of Claim: the answer of SETNX is taken the wrong way round.
ClaimInverted(c) ==
  /\ Handling(c, "claim")
  /\ claimed' = claimed \cup {Event(c)}
  /\ Goto(c, IF Event(c) \in claimed THEN "blocks" ELSE "commit")
  /\ UNCHANGED <<rows, live, pushJobs, suppressed, unguarded, unchecked>>

\* SETNX: an event claimed before is done with; an error counts as a claim.
Claim(c) ==
  /\ Handling(c, "claim")
  /\ \/ /\ claimed' = claimed \cup {Event(c)}
        /\ Goto(c, IF Event(c) \in claimed THEN "commit" ELSE "blocks")
        /\ UNCHANGED unguarded
     \/ /\ "redis" \in Faults
        /\ claimed' \in {claimed, claimed \cup {Event(c)}}
        /\ Goto(c, "blocks")
        /\ unguarded' = unguarded \cup {Event(c)}
  /\ UNCHANGED <<rows, live, pushJobs, suppressed, unchecked>>

\* Mutant of CheckBlocks: the block does not end the handler.
BlocksIgnored(c) ==
  /\ Handling(c, "blocks")
  /\ suppressed' = suppressed
  /\ Goto(c, "insert")
  /\ UNCHANGED <<claimed, rows, live, pushJobs, unguarded, unchecked>>

\* IsBlocked, in both directions; its errors read as "not blocked".
CheckBlocks(c) ==
  /\ Handling(c, "blocks")
  /\ \/ /\ suppressed' = IF blocked THEN suppressed \cup {Event(c)} ELSE suppressed
        /\ Goto(c, IF blocked THEN "commit" ELSE "insert")
        /\ UNCHANGED unchecked
     \/ /\ "blocks" \in Faults
        /\ Goto(c, "insert")
        /\ unchecked' = unchecked \cup {Event(c)}
        /\ UNCHANGED suppressed
  /\ UNCHANGED <<claimed, rows, live, pushJobs, unguarded>>

\* CreateNotification: the INSERT ...
Insert(c) ==
  /\ Handling(c, "insert")
  /\ rows' = [rows EXCEPT ![Event(c)] = @ + 1]
  /\ Goto(c, "incr")
  /\ UNCHANGED <<claimed, live, pushJobs, suppressed, unguarded, unchecked>>

\* Mutant of InsertFails: the error is swallowed and the handler goes on.
InsertErrorSwallowed(c) ==
  /\ "cassandra" \in Faults
  /\ Handling(c, "insert")
  /\ Goto(c, "incr")
  /\ UNCHANGED handlerVars

\* Mutant of InsertFails: the claim is given back, for a retry.
InsertFailsReleasing(c) ==
  /\ "cassandra" \in Faults
  /\ pc[c] = "insert"
  /\ rows' \in {rows, [rows EXCEPT ![Event(c)] = @ + 1]}
  /\ claimed' = claimed \ {Event(c)}
  /\ HandlerError(c)
  /\ Goto(c, "idle")
  /\ interrupted' = interrupted \cup {Event(c)}
  /\ UNCHANGED <<log, emitted, blocked, covered, live, pushJobs, suppressed,
                 unguarded, unchecked>>

\* ... which may fail, having taken effect or not: the handler returns the error.
InsertFails(c) ==
  /\ "cassandra" \in Faults
  /\ pc[c] = "insert"
  /\ rows' \in {rows, [rows EXCEPT ![Event(c)] = @ + 1]}
  /\ HandlerError(c)
  /\ Goto(c, "idle")
  /\ interrupted' = interrupted \cup {Event(c)}
  /\ UNCHANGED <<log, emitted, blocked, covered, claimed, live, pushJobs,
                 suppressed, unguarded, unchecked>>

\* ... and the INCR of the badge, whose error is not looked at.
IncrUnread(c) ==
  /\ Handling(c, "incr")
  /\ Goto(c, "publish")
  /\ UNCHANGED handlerVars

PublishSSE(c) ==
  /\ Handling(c, "publish")
  /\ \/ live' = [live EXCEPT ![Event(c)] = @ + 1]
     \/ "redis" \in Faults /\ UNCHANGED live
  /\ Goto(c, "push")
  /\ UNCHANGED <<claimed, rows, pushJobs, suppressed, unguarded, unchecked>>

\* GetDeviceTokens, GetUnreadCount for the badge of the push, ProducePushDispatch:
\* "fire and forget".
QueuePush(c) ==
  /\ Handling(c, "push")
  /\ \/ pushJobs' = [pushJobs EXCEPT ![Event(c)] = @ + 1]
     \/ Faults \cap {"lose", "cassandra"} # {} /\ UNCHANGED pushJobs
  /\ Goto(c, "commit")
  /\ UNCHANGED <<claimed, rows, live, suppressed, unguarded, unchecked>>

Commit(c) ==
  /\ pc[c] = "commit"
  /\ CommitMessages(c)
  /\ "commit" \in Faults \/ UNCHANGED disruptions
  /\ Goto(c, "idle")
  /\ UNCHANGED <<log, emitted, blocked, covered, handlerVars, interrupted>>

CrashIn(c) ==
  /\ "crash" \in Faults
  /\ Crash(c)
  /\ Goto(c, "idle")
  /\ interrupted' = interrupted \cup {Event(c)}
  /\ UNCHANGED <<log, emitted, blocked, covered, handlerVars>>

Reassign(c) ==
  /\ "rebalance" \in Faults
  /\ Rebalance(c)
  /\ UNCHANGED <<log, emitted, blocked, covered, pc, handlerVars, interrupted>>

\* The dedupe key lives 24 hours.
DedupeExpires(e) ==
  /\ "expire" \in Faults
  /\ e \in claimed
  /\ claimed' = claimed \ {e}
  /\ unguarded' = unguarded \cup {e}
  /\ UNCHANGED <<groupVars, log, emitted, blocked, covered, pc, rows, live,
                 pushJobs, suppressed, interrupted, unchecked>>

Handle(c) ==
  \/ Fetch(c) \/ Claim(c) \/ CheckBlocks(c) \/ Insert(c) \/ InsertFails(c)
  \/ IncrUnread(c) \/ PublishSSE(c) \/ QueuePush(c) \/ Commit(c)

Next ==
  \/ \E e \in Events : Dispatch(e) \/ DedupeExpires(e)
  \/ BlockUser \/ UnblockUser
  \/ \E c \in Consumers : Handle(c) \/ CrashIn(c) \/ Reassign(c)

Spec == Init /\ [][Next]_vars

\* Each process runs its consumer goroutine for as long as it lives.
FairSpec == Spec /\ \A c \in Consumers : WF_vars(Handle(c))

-----------------------------------------------------------------------------
(* Properties.                                                             *)

\* "Idempotency guard for at-least-once Kafka delivery"
\* (consumer_persister.go:40): duplicated messages, redelivery after a crash and
\* two processes on the same message give an event one row in the inbox, as long
\* as Redis answers and remembers.
OneRowPerEvent == \A e \in Events \ unguarded : rows[e] <= 1

\* Nothing is announced that the inbox does not hold: every live message and
\* every push stands for a row.
\* "the in-app notification is already saved" (consumer_persister.go:127).
AnnouncedOnlyIfSaved == \A e \in Events : live[e] <= rows[e] /\ pushJobs[e] <= rows[e]

\* An event produced while a block stood that has not been lifted since leaves
\* no trace, whatever is redelivered, as long as the blocks can be read.
BlockedStaysSilent ==
  \A e \in covered \ unchecked : rows[e] = 0 /\ live[e] = 0 /\ pushJobs[e] = 0

\* The handlers give every event one fate: suppressed or saved, published live at
\* most once and only then queued for push at most once, whoever handles it how
\* often.  Nothing is promised of an event whose claim Redis failed on or forgot.
Kept(count) == [e \in Events |-> IF e \in unguarded THEN 0 ELSE count[e]]
Fate == INSTANCE NotificationFate WITH
  suppressed <- suppressed \ unguarded, rows <- Kept(rows), live <- Kept(live),
  pushJobs <- Kept(pushJobs), waived <- unguarded
OneFate == Fate!Spec

\* Every event in the topic is settled in the end: it has its row, or a block
\* suppressed it, or a handler was interrupted while it worked on it.  However
\* the partition moves between the processes, nothing else loses an event.
EveryEventSettles ==
  \A e \in Events :
    (\E o \in 1..Len(log) : log[o] = e)
      ~> (rows[e] > 0 \/ e \in suppressed \/ e \in interrupted)

\* consumer_persister.go:81, "don't commit -> retry", and consumer.go:56, "if we
\* don't commit, it will be retried when the consumer restarts or rebalances":
\* the offset only passes an event that is settled or still being handled.
CommittedIsSettled ==
  \A o \in 1..committed :
    \/ rows[log[o]] > 0
    \/ log[o] \in suppressed
    \/ \E c \in Consumers : inHand[c] # 0 /\ Event(c) = log[o]
=============================================================================
