------------------------------ MODULE Pipeline ------------------------------
(***************************************************************************)
(* From the topic notification.events to the phones: Persister and         *)
(* PushDelivery together, for one recipient.  The two meet where the       *)
(* persister's handler calls ProducePushDispatch: what is one counter to   *)
(* Persister and an event that may be produced at any time to PushDelivery *)
(* is here one step of both.                                               *)
(*                                                                         *)
(* Every process has a reader of each of the three topics, which crashes   *)
(* or loses its partition on its own; that a process takes all three with  *)
(* it is several such steps.                                               *)
(***************************************************************************)
EXTENDS Persister, PushConstants

VARIABLES
  jobs, dCommitted, dOwner, dPosition, dInHand, dDisruptions,
  retries, due, rCommitted, rOwner, rPosition, rInHand, rDisruptions, returned,
  produced, pushing, todo, token, locked, locks,
  delivered, exhausted, requeued, unlocked, excused

Push == INSTANCE PushDelivery WITH pc <- pushing, unguarded <- unlocked

pushVars ==
  <<jobs, dCommitted, dOwner, dPosition, dInHand, dDisruptions, retries, due,
    rCommitted, rOwner, rPosition, rInHand, rDisruptions, returned, produced,
    pushing, todo, token, locked, locks, delivered, exhausted, requeued, unlocked,
    excused>>
pipelineVars == <<vars, pushVars>>

PipelineTypeOK == TypeOK /\ Push!TypeOK

PipelineInit == Init /\ Push!Init

\* ProducePushDispatch takes effect: the persister's last step before its commit
\* puts a job into the topic of the dispatcher.
QueueJob(c) ==
  /\ QueuePush(c) /\ pushJobs' # pushJobs
  /\ Push!ProduceJob(Event(c))

\* Everything else is a step of one side.
PersisterAlone == Next /\ pushJobs' = pushJobs /\ UNCHANGED pushVars

PushAlone ==
  /\ \/ Push!RetryFallsDue
     \/ \E p \in Push!Pairs : Push!LockExpires(p)
     \/ \E c \in PushConsumers : \/ Push!Handle(c) \/ Push!HandleRetry(c)
                                 \/ Push!CrashDispatch(c) \/ Push!CrashRetry(c)
                                 \/ Push!Reassign(c)
  /\ UNCHANGED vars

PipelineNext == PersisterAlone \/ PushAlone \/ \E c \in Consumers : QueueJob(c)

PipelineSpec == PipelineInit /\ [][PipelineNext]_pipelineVars

-----------------------------------------------------------------------------
(* Properties.                                                             *)

\* "the in-app notification is already saved" (consumer_persister.go:127): no push
\* is acknowledged, or waits in either topic, for a notification whose row is not in
\* the inbox, however the topics are delivered.
PushedIsSaved ==
  /\ \A p \in Push!Pairs : delivered[p] > 0 => rows[p[1]] > 0
  /\ \A i \in 1..Len(jobs) : rows[jobs[i].event] > 0
  /\ \A i \in 1..Len(retries) : rows[retries[i].event] > 0

\* What was produced under a block that still stands reaches no phone and lies in
\* neither push topic, as long as the blocks can be read.
BlockedNeverRings ==
  \A e \in covered \ unchecked :
    /\ \A t \in Tokens : delivered[<<e, t>>] = 0
    /\ \A i \in 1..Len(jobs) : jobs[i].event # e
    /\ \A i \in 1..Len(retries) : retries[i].event # e

\* To a device the pipeline is a channel that delivers an event once, although the
\* persister may have produced its job again: where the claim of the event was lost,
\* the lock of the push still holds.
OnceToDevice == Push!OnceToDevice

\* What the persister has produced is not forgotten when its job is committed.
NoTokenForgotten == Push!NoTokenForgotten
=============================================================================
