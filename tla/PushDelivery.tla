---------------------------- MODULE PushDelivery ----------------------------
(***************************************************************************)
(* Push notifications: the topics notification.push.dispatch and           *)
(* notification.push.retry, and their handlers PushDispatchHandler and     *)
(* PushRetryHandler (internal/notifications/kafka/consumer_push.go) in     *)
(* every API process, for one user (the key of both topics).               *)
(***************************************************************************)
EXTENDS PushConstants, Sequences, FiniteSets

CONSTANT Events   \* the notifications pushed

VARIABLES
  jobs,        \* the partition of notification.push.dispatch
  dCommitted, dOwner, dPosition, dInHand, dDisruptions,
  retries,     \* the partition of notification.push.retry
  due,         \* the first messages of it whose RetryAfter has passed
  rCommitted, rOwner, rPosition, rInHand, rDisruptions,
  returned,    \* processes whose retry handler is done with its message
  produced,    \* events the persister has produced a job for
  pc,          \* where the dispatch handler of a process is
  todo,        \* the tokens of its job that it has still to look at
  token,       \* the one it is at
  locked,      \* dedupeLocked
  locks,       \* <<event, token>> with a key notif:dedupe:push:... in Redis
  delivered,   \* how many sends the push service has acknowledged
  exhausted,   \* <<event, token>> given up after the last retry
  requeued,    \* messages of the retry topic sent back to dispatch
  unguarded,   \* <<event, token>> sent without the lock, or whose key expired
  excused      \* <<event, token>> a crash or a failed call has cut short

Dispatching == INSTANCE ConsumerGroup WITH
  Consumers <- PushConsumers, MaxDisruptions <- PushDisruptions,
  committed <- dCommitted, owner <- dOwner, position <- dPosition,
  inHand <- dInHand, disruptions <- dDisruptions
Retrying == INSTANCE ConsumerGroup WITH
  Consumers <- PushConsumers, MaxDisruptions <- PushDisruptions,
  committed <- rCommitted, owner <- rOwner, position <- rPosition,
  inHand <- rInHand, disruptions <- rDisruptions

dGroup == <<dCommitted, dOwner, dPosition, dInHand, dDisruptions>>
rGroup == <<rCommitted, rOwner, rPosition, rInHand, rDisruptions, returned>>
handler == <<pc, todo, token, locked>>
history == <<delivered, exhausted, requeued, unguarded, excused>>
vars == <<jobs, dGroup, retries, due, rGroup, produced, handler, locks, history>>

Pairs == Events \X Tokens
Job == [event : Events, tokens : SUBSET Tokens, retry : 0..MaxRetries]

TypeOK ==
  /\ Dispatching!GroupTypeOK /\ Retrying!GroupTypeOK
  /\ jobs \in Seq(Job) /\ retries \in Seq(Job)
  /\ due \in 0..Len(retries)
  /\ returned \subseteq PushConsumers /\ produced \subseteq Events
  /\ pc \in [PushConsumers -> {"idle", "lock", "send", "mark", "release", "retry"}]
  /\ \A c \in PushConsumers : pc[c] = "idle" <=> dInHand[c] = 0
  /\ todo \in [PushConsumers -> SUBSET Tokens] /\ token \in [PushConsumers -> Tokens]
  /\ locked \in [PushConsumers -> BOOLEAN]
  /\ locks \subseteq Pairs /\ delivered \in [Pairs -> Nat]
  /\ exhausted \subseteq Pairs /\ requeued \subseteq 1..Len(retries)
  /\ unguarded \subseteq Pairs /\ excused \subseteq Pairs

Init ==
  /\ Dispatching!GroupInit /\ Retrying!GroupInit
  /\ jobs = <<>> /\ retries = <<>> /\ due = 0 /\ produced = {} /\ returned = {}
  /\ pc = [c \in PushConsumers |-> "idle"]
  /\ todo = [c \in PushConsumers |-> {}]
  /\ token = [c \in PushConsumers |-> CHOOSE t \in Tokens : TRUE]
  /\ locked = [c \in PushConsumers |-> FALSE]
  /\ locks = {} /\ exhausted = {} /\ requeued = {}
  /\ unguarded = {} /\ excused = {}
  /\ delivered = [p \in Pairs |-> 0]

-----------------------------------------------------------------------------
(* The producers, and time.                                                *)

\* A batch of an asynchronous writer arrives, arrives twice, or is lost.
Write(log, job) ==
  {Append(log, job)}
    \cup (IF "dup" \in PushFaults /\ Len(log) + 2 <= MaxLog THEN {log \o <<job, job>>} ELSE {})
    \cup (IF "lose" \in PushFaults THEN {log} ELSE {})

\* ProducePushDispatch of the persister: one job for all tokens of the user, and
\* another one when the event comes to the persister again and its claim is gone.
ProduceJob(e) ==
  /\ e \in produced => Len(jobs) < MaxLog
  /\ produced' = produced \cup {e}
  /\ jobs' \in Write(jobs, [event |-> e, tokens |-> Tokens, retry |-> 0])
  /\ UNCHANGED <<dGroup, retries, due, rGroup, handler, locks, history>>

\* Five minutes have passed since a retry was written; they pass in order.
RetryFallsDue ==
  /\ due < Len(retries)
  /\ due' = due + 1
  /\ UNCHANGED <<jobs, dGroup, retries, rGroup, produced, handler, locks, history>>

\* The lock lives 10 minutes, the mark of a delivery 24 hours.
LockExpires(p) ==
  /\ "expire" \in PushFaults
  /\ p \in locks
  /\ locks' = locks \ {p}
  /\ unguarded' = unguarded \cup {p}
  /\ UNCHANGED <<jobs, dGroup, retries, due, rGroup, produced, handler, delivered,
                 exhausted, requeued, excused>>

-----------------------------------------------------------------------------
(* PushDispatchHandler.Handle in process c.                                *)

TheJob(c) == jobs[dInHand[c]]
Pair(c) == <<TheJob(c).event, token[c]>>
Goto(c, label) == pc' = [pc EXCEPT ![c] = label]

Handling(c, label) ==
  /\ pc[c] = label
  /\ UNCHANGED <<jobs, dGroup, due, rGroup, produced, requeued>>

Fetch(c) ==
  /\ Dispatching!FetchMessage(c, Len(jobs))
  /\ Goto(c, "lock")
  /\ todo' = [todo EXCEPT ![c] = jobs[dPosition + 1].tokens]
  /\ UNCHANGED <<jobs, retries, due, rGroup, produced, token, locked, locks, history>>

\* acquirePushDedupeLock for the next token: SETNX "inflight".  A key that is
\* there skips the token, an error of Redis sends without the lock (and nobody
\* will release a key that was set all the same).
AcquireLock(c, t) ==
  /\ Handling(c, "lock")
  /\ t \in todo[c]
  /\ token' = [token EXCEPT ![c] = t]
  /\ todo' = [todo EXCEPT ![c] = @ \ {t}]
  /\ LET p == <<TheJob(c).event, t>> IN
     \/ /\ locks' = locks \cup {p}
        /\ locked' = [locked EXCEPT ![c] = p \notin locks]
        /\ Goto(c, IF p \in locks THEN "lock" ELSE "send")
        /\ UNCHANGED <<unguarded, excused>>
     \/ /\ "redis" \in PushFaults
        /\ locks' \in {locks, locks \cup {p}}
        /\ locked' = [locked EXCEPT ![c] = FALSE]
        /\ Goto(c, "send")
        /\ unguarded' = unguarded \cup {p}
        /\ excused' = excused \cup ({p} \cap locks')
  /\ UNCHANGED <<retries, delivered, exhausted>>

SendSucceeds(c) ==
  /\ Handling(c, "send")
  /\ delivered' = [delivered EXCEPT ![Pair(c)] = @ + 1]
  /\ Goto(c, "mark")
  /\ UNCHANGED <<retries, todo, token, locked, locks, exhausted, unguarded, excused>>

SendFails(c) ==
  /\ "fcm" \in PushFaults
  /\ Handling(c, "send")
  /\ Goto(c, "release")
  /\ UNCHANGED <<retries, todo, token, locked, locks, delivered, exhausted,
                 unguarded, excused>>

\* Mutant of MarkDelivered: the lock is released after a delivery, too.
MarkReleases(c) ==
  /\ Handling(c, "mark")
  /\ locks' = locks \ {Pair(c)}
  /\ Goto(c, "lock")
  /\ UNCHANGED <<retries, todo, token, locked, delivered, exhausted, unguarded, excused>>

\* markPushDedupeDelivered: SET "sent", where the lock was taken (the key may
\* have expired in the meantime).  An error leaves what is there.
MarkDelivered(c) ==
  /\ Handling(c, "mark")
  /\ \/ locks' = IF locked[c] THEN locks \cup {Pair(c)} ELSE locks
     \/ "redis" \in PushFaults /\ UNCHANGED locks
  /\ Goto(c, "lock")
  /\ UNCHANGED <<retries, todo, token, locked, delivered, exhausted, unguarded, excused>>

\* Mutant of ReleaseLock: a failed send keeps its lock.
ReleaseForgotten(c) ==
  /\ Handling(c, "release")
  /\ Goto(c, "retry")
  /\ UNCHANGED <<retries, todo, token, locked, locks, delivered, exhausted,
                 unguarded, excused>>

\* releasePushDedupeLock: DEL, where the lock was taken, whoever's it is by now.
ReleaseLock(c) ==
  /\ Handling(c, "release")
  /\ \/ /\ locks' = IF locked[c] THEN locks \ {Pair(c)} ELSE locks
        /\ UNCHANGED excused
     \/ /\ "redis" \in PushFaults
        /\ excused' = excused \cup {Pair(c)}
        /\ UNCHANGED locks
  /\ Goto(c, "retry")
  /\ UNCHANGED <<retries, todo, token, locked, delivered, exhausted, unguarded>>

Retry(c) == [event |-> TheJob(c).event, tokens |-> {token[c]},
             retry |-> TheJob(c).retry + 1]

\* Mutant of QueueRetry: the limit is not looked at.
RetryUncounted(c) ==
  /\ Handling(c, "retry")
  /\ retries' \in Write(retries, Retry(c))
  /\ Goto(c, "lock")
  /\ UNCHANGED <<todo, token, locked, locks, delivered, exhausted, unguarded, excused>>

\* A failed send below the limit goes to the retry topic, with its token only.
QueueRetry(c) ==
  /\ Handling(c, "retry")
  /\ IF TheJob(c).retry < MaxRetries
       THEN /\ retries' \in Write(retries, Retry(c))
            /\ excused' = IF retries' = retries THEN excused \cup {Pair(c)} ELSE excused
            /\ UNCHANGED exhausted
       ELSE /\ exhausted' = exhausted \cup {Pair(c)}
            /\ UNCHANGED <<retries, excused>>
  /\ Goto(c, "lock")
  /\ UNCHANGED <<todo, token, locked, locks, delivered, unguarded>>

\* The bound is one for the two topics.
Disruptible == dDisruptions + rDisruptions < PushDisruptions
MayFailToCommit == "commit" \in PushFaults /\ Disruptible

\* All tokens are done: the handler returns nil, whatever became of them.
Commit(c) ==
  /\ pc[c] = "lock" /\ todo[c] = {}
  /\ Dispatching!CommitMessages(c)
  /\ MayFailToCommit \/ UNCHANGED dDisruptions
  /\ Goto(c, "idle")
  /\ locked' = [locked EXCEPT ![c] = FALSE]
  /\ UNCHANGED <<jobs, retries, due, rGroup, produced, todo, token, locks, history>>

Handle(c) ==
  \/ Fetch(c) \/ (\E t \in Tokens : AcquireLock(c, t)) \/ SendSucceeds(c)
  \/ SendFails(c) \/ MarkDelivered(c) \/ ReleaseLock(c) \/ QueueRetry(c) \/ Commit(c)

-----------------------------------------------------------------------------
(* PushRetryHandler.Handle in process c.                                   *)

FetchRetry(c) ==
  /\ Retrying!FetchMessage(c, Len(retries))
  /\ UNCHANGED <<jobs, dGroup, retries, due, returned, produced, handler, locks,
                 history>>

\* RetryAfter lies ahead: "return error to prevent commit, will consume again".
NotTimeYet(c) ==
  /\ rInHand[c] > due
  /\ Retrying!HandlerError(c)
  /\ UNCHANGED <<jobs, dGroup, retries, due, returned, produced, handler, locks,
                 history>>

\* RetryAfter has passed: back to the dispatch topic.
Requeue(c) ==
  /\ rInHand[c] \in 1..due /\ c \notin returned
  /\ jobs' \in Write(jobs, retries[rInHand[c]])
  /\ returned' = returned \cup {c}
  /\ requeued' = requeued \cup {rInHand[c]}
  /\ excused' = IF jobs' # jobs THEN excused
                ELSE excused \cup ({retries[rInHand[c]].event} \X retries[rInHand[c]].tokens)
  /\ UNCHANGED <<dGroup, retries, due, rCommitted, rOwner, rPosition, rInHand,
                 rDisruptions, produced, handler, locks, delivered, exhausted,
                 unguarded>>

CommitRetry(c) ==
  /\ c \in returned
  /\ Retrying!CommitMessages(c)
  /\ MayFailToCommit \/ UNCHANGED rDisruptions
  /\ returned' = returned \ {c}
  /\ UNCHANGED <<jobs, dGroup, retries, due, produced, handler, locks, history>>

HandleRetry(c) == FetchRetry(c) \/ NotTimeYet(c) \/ Requeue(c) \/ CommitRetry(c)

-----------------------------------------------------------------------------
(* The processes of the group.                                             *)

\* The tokens a process is in the middle of.
InProgress(c) ==
  IF pc[c] \in {"send", "mark", "release", "retry"} THEN {Pair(c)} ELSE {}

CrashDispatch(c) ==
  /\ "crash" \in PushFaults /\ Disruptible
  /\ Dispatching!Crash(c)
  /\ Goto(c, "idle")
  /\ excused' = excused \cup InProgress(c)
  /\ todo' = [todo EXCEPT ![c] = {}]
  /\ locked' = [locked EXCEPT ![c] = FALSE]
  /\ UNCHANGED <<jobs, retries, due, rGroup, produced, token, locks, delivered,
                 exhausted, requeued, unguarded>>

CrashRetry(c) ==
  /\ "crash" \in PushFaults /\ Disruptible
  /\ Retrying!Crash(c)
  /\ returned' = returned \ {c}
  /\ UNCHANGED <<jobs, dGroup, retries, due, produced, handler, locks, history>>

Reassign(c) ==
  /\ "rebalance" \in PushFaults /\ Disruptible
  /\ \/ /\ Dispatching!Rebalance(c)
        /\ UNCHANGED <<rCommitted, rOwner, rPosition, rInHand, rDisruptions>>
     \/ /\ Retrying!Rebalance(c)
        /\ UNCHANGED dGroup
  /\ UNCHANGED <<jobs, retries, due, returned, produced, handler, locks, history>>

Next ==
  \/ \E e \in Events : ProduceJob(e)
  \/ RetryFallsDue
  \/ \E p \in Pairs : LockExpires(p)
  \/ \E c \in PushConsumers : Handle(c) \/ HandleRetry(c) \/ CrashDispatch(c)
                             \/ CrashRetry(c) \/ Reassign(c)

Spec == Init /\ [][Next]_vars

\* Each process runs its two consumer goroutines, and time passes.
FairSpec ==
  /\ Spec
  /\ WF_vars(RetryFallsDue)
  /\ \A c \in PushConsumers : WF_vars(Handle(c)) /\ WF_vars(HandleRetry(c))

-----------------------------------------------------------------------------
(* Properties.                                                             *)

\* A message of either topic is about the event and device of p.
Carries(job, p) == job.event = p[1] /\ p[2] \in job.tokens

\* A device is not shown a notification twice: the push service acknowledges at
\* most one send per event and token, whatever is duplicated, redelivered or
\* retried, unless Redis failed or forgot ("push duplicate skipped",
\* consumer_push.go:42).
AtMostOneDelivery == \A p \in Pairs \ unguarded : delivered[p] <= 1

\* Together the two topics and their handlers are a channel that delivers to a device
\* only what was produced, and that once: duplicates, retries and redelivered jobs
\* are steps in which nothing happens to it.  Nothing is promised of a pair whose
\* lock Redis failed on or forgot.
Channel == INSTANCE DeviceChannel WITH
  delivered <- [p \in Pairs |-> IF p \in unguarded THEN 0 ELSE delivered[p]],
  waived <- unguarded
OnceToDevice == Channel!Spec

\* Committing a job whose sends failed (Handle always returns nil) forgets no
\* token: each was delivered, is being tried, was given up after the last retry,
\* or has a message of its own ahead of it in one of the two topics; only a crash
\* in the middle of it, or a call that failed, excuses the loss.
NoTokenForgotten ==
  \A o \in 1..dCommitted : \A p \in Pairs : Carries(jobs[o], p) =>
    \/ delivered[p] > 0
    \/ p \in exhausted \cup excused
    \/ \E c \in PushConsumers : p \in InProgress(c)
    \/ \E i \in 1..Len(retries) \ requeued : Carries(retries[i], p)
    \/ \E q \in (dCommitted + 1)..Len(jobs) : Carries(jobs[q], p)

\* system_design.md:103 of the retry consumer: "Once ready, it pushes it back to
\* the main dispatch queue".
RetriedOnceReady ==
  \A i \in 1..Cardinality(Pairs) : (i <= due) ~> (i \in requeued)
=============================================================================
