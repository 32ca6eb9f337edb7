------------------------- MODULE PushDeliveryProofs -------------------------
(***************************************************************************)
(* Proofs about PushDelivery, for any notifications, devices and           *)
(* processes, any number of crashes and rebalances and every set of        *)
(* faults: type correctness, at most one delivery, and no token forgotten. *)
(***************************************************************************)
EXTENDS PushDelivery, SequenceTheorems, WellFoundedInduction, TLAPS

-----------------------------------------------------------------------------
(* Type correctness.                                                       *)

\* Nobody has read or committed past the end of a topic.
WithinTopics ==
  /\ dCommitted <= Len(jobs) /\ dPosition <= Len(jobs)
  /\ rCommitted <= Len(retries) /\ rPosition <= Len(retries)
  /\ \A c \in PushConsumers : dInHand[c] <= Len(jobs) /\ rInHand[c] <= Len(retries)

TypeInv == TypeOK /\ WithinTopics

\* A topic grows at its end, unless the batch is lost.
LEMMA WriteGrows ==
  ASSUME NEW log \in Seq(Job), NEW job \in Job, NEW after \in Write(log, job)
  PROVE  /\ after \in Seq(Job) /\ Len(log) \in Nat /\ Len(after) \in Nat
         /\ Len(log) <= Len(after)
         /\ \A o \in 1..Len(log) : o \in 1..Len(after) /\ after[o] = log[o]
         /\ after = log \/ (Len(log) < Len(after) /\ after[Len(log) + 1] = job)
<1>1. CASE after = Append(log, job)
  BY <1>1
<1>2. CASE after = log \o <<job, job>>
  <2>1. <<job, job>> \in Seq(Job) /\ Len(<<job, job>>) = 2 /\ <<job, job>>[1] = job
    OBVIOUS
  <2>2. after \in Seq(Job) /\ Len(after) = Len(log) + 2 /\ Len(log) \in Nat
        /\ \A i \in 1..Len(log) + 2 :
             after[i] = IF i <= Len(log) THEN log[i] ELSE <<job, job>>[i - Len(log)]
    BY <1>2, <2>1, ConcatProperties, LenProperties
  <2>3. Len(log) + 1 \in 1..Len(log) + 2 /\ ~ (Len(log) + 1 <= Len(log)) /\ (Len(log) + 1) - Len(log) = 1
    BY <2>2
  <2> QED BY <2>1, <2>2, <2>3
<1>3. CASE after = log
  BY <1>3, LenProperties
<1> QED
  BY <1>1, <1>2, <1>3 DEF Write

LEMMA Lengths == TypeInv => Len(jobs) \in Nat /\ Len(retries) \in Nat
BY LenProperties DEF TypeInv, TypeOK

\* The dispatch handlers' jobs, and the retries they make of them.
LEMMA JobTyped ==
  ASSUME TypeInv, NEW c \in PushConsumers, pc[c] # "idle"
  PROVE  /\ dInHand[c] \in 1..Len(jobs) /\ TheJob(c) \in Job
         /\ TheJob(c).event \in Events /\ TheJob(c).tokens \subseteq Tokens
         /\ TheJob(c).retry \in 0..MaxRetries
         /\ Pair(c) \in Pairs /\ \A t \in Tokens : <<TheJob(c).event, t>> \in Pairs
         /\ TheJob(c).retry < MaxRetries => Retry(c) \in Job
<1>1. dInHand[c] \in 1..Len(jobs) /\ TheJob(c) \in Job /\ token[c] \in Tokens
  BY Lengths DEF TypeInv, TypeOK, WithinTopics, TheJob, Dispatching!GroupTypeOK
<1>2. /\ TheJob(c).event \in Events /\ TheJob(c).tokens \subseteq Tokens
      /\ TheJob(c).retry \in 0..MaxRetries
  BY <1>1 DEF Job
<1>3. TheJob(c).retry < MaxRetries => TheJob(c).retry + 1 \in 0..MaxRetries
  BY <1>2, PushAssumption
<1> QED
  BY <1>1, <1>2, <1>3 DEF Retry, Job, Pair, Pairs

\* A message of the retry topic.
LEMMA RetryTyped ==
  ASSUME TypeInv, NEW i \in 1..Len(retries)
  PROVE  /\ retries[i] \in Job
         /\ {retries[i].event} \X retries[i].tokens \subseteq Pairs
<1>1. retries[i] \in Job
  BY DEF TypeInv, TypeOK
<1> QED
  BY <1>1 DEF Job, Pairs

\* The types, by what they are about: the two topics, the handlers, the histories.
DispatchTyped ==
  /\ Dispatching!GroupTypeOK /\ jobs \in Seq(Job)
  /\ dCommitted <= Len(jobs) /\ dPosition <= Len(jobs)
  /\ \A c \in PushConsumers : dInHand[c] <= Len(jobs)
RetryingTyped ==
  /\ Retrying!GroupTypeOK /\ retries \in Seq(Job)
  /\ due \in 0..Len(retries) /\ requeued \subseteq 1..Len(retries)
  /\ rCommitted <= Len(retries) /\ rPosition <= Len(retries)
  /\ returned \subseteq PushConsumers /\ \A c \in PushConsumers : rInHand[c] <= Len(retries)
HandlersTyped ==
  /\ pc \in [PushConsumers -> {"idle", "lock", "send", "mark", "release", "retry"}]
  /\ \A c \in PushConsumers : pc[c] = "idle" <=> dInHand[c] = 0
  /\ todo \in [PushConsumers -> SUBSET Tokens] /\ token \in [PushConsumers -> Tokens]
  /\ locked \in [PushConsumers -> BOOLEAN]
PairsTyped ==
  /\ locks \subseteq Pairs /\ delivered \in [Pairs -> Nat] /\ exhausted \subseteq Pairs
  /\ unguarded \subseteq Pairs /\ excused \subseteq Pairs /\ produced \subseteq Events

LEMMA TypeParts == TypeInv <=> DispatchTyped /\ RetryingTyped /\ HandlersTyped /\ PairsTyped
BY DEF TypeInv, TypeOK, WithinTopics, DispatchTyped, RetryingTyped, HandlersTyped, PairsTyped

LEMMA TypePartsNext ==
  TypeInv' <=> DispatchTyped' /\ RetryingTyped' /\ HandlersTyped' /\ PairsTyped'
BY TypeParts, PTL

LEMMA TypeNext == TypeInv /\ [Next]_vars => TypeInv'
<1> SUFFICES ASSUME TypeInv, [Next]_vars
             PROVE  DispatchTyped' /\ RetryingTyped' /\ HandlersTyped' /\ PairsTyped'
  BY TypePartsNext
<1>l. Len(jobs) \in Nat /\ Len(retries) \in Nat
  BY Lengths
<1>t. DispatchTyped /\ RetryingTyped /\ HandlersTyped /\ PairsTyped
  BY TypeParts
<1> USE DEF Goto, Handling, dGroup, rGroup, handler, history
\* What most steps leave alone.
<1>d. UNCHANGED <<jobs, dGroup>> => DispatchTyped'
  BY <1>t DEF DispatchTyped, Dispatching!GroupTypeOK
<1>r. UNCHANGED <<retries, due, requeued, rGroup>> => RetryingTyped'
  BY <1>t DEF RetryingTyped, Retrying!GroupTypeOK
<1>h. UNCHANGED <<dInHand, handler>> => HandlersTyped'
  BY <1>t DEF HandlersTyped
<1>p. UNCHANGED <<locks, delivered, exhausted, unguarded, excused, produced>> => PairsTyped'
  BY <1>t DEF PairsTyped
<1>1. ASSUME NEW e \in Events, ProduceJob(e)
      PROVE  DispatchTyped' /\ RetryingTyped' /\ HandlersTyped' /\ PairsTyped'
  <2>1. [event |-> e, tokens |-> Tokens, retry |-> 0] \in Job
    BY PushAssumption DEF Job
  <2>2. jobs' \in Seq(Job) /\ Len(jobs') \in Nat /\ Len(jobs) <= Len(jobs')
    BY <1>1, <1>t, <2>1, WriteGrows DEF ProduceJob, DispatchTyped
  <2>3. DispatchTyped'
    BY <1>1, <1>t, <1>l, <2>2 DEF ProduceJob, DispatchTyped, Dispatching!GroupTypeOK
  <2>4. PairsTyped'
    BY <1>1, <1>t DEF ProduceJob, PairsTyped
  <2> QED BY <1>1, <2>3, <2>4, <1>r, <1>h DEF ProduceJob
<1>2. CASE RetryFallsDue
  <2>1. RetryingTyped'
    BY <1>2, <1>l, <1>t DEF RetryFallsDue, RetryingTyped, Retrying!GroupTypeOK
  <2> QED BY <1>2, <2>1, <1>d, <1>h, <1>p DEF RetryFallsDue
<1>3. ASSUME NEW p \in Pairs, LockExpires(p)
      PROVE  DispatchTyped' /\ RetryingTyped' /\ HandlersTyped' /\ PairsTyped'
  <2>1. PairsTyped'
    BY <1>3, <1>t DEF LockExpires, PairsTyped
  <2> QED BY <1>3, <2>1, <1>d, <1>r, <1>h DEF LockExpires
<1>4. ASSUME NEW c \in PushConsumers, Fetch(c)
      PROVE  DispatchTyped' /\ RetryingTyped' /\ HandlersTyped' /\ PairsTyped'
  <2>1. dPosition + 1 \in 1..Len(jobs)
    BY <1>4, <1>l, <1>t DEF Fetch, Dispatching!FetchMessage, DispatchTyped, Dispatching!GroupTypeOK
  <2>2. jobs[dPosition + 1] \in Job
    BY <2>1, <1>t DEF DispatchTyped
  <2>3. jobs[dPosition + 1].tokens \subseteq Tokens
    BY <2>2 DEF Job
  <2>4. DispatchTyped'
    BY <1>4, <2>1, <1>t, <1>l
    DEF Fetch, Dispatching!FetchMessage, DispatchTyped, Dispatching!GroupTypeOK
  <2>5. HandlersTyped'
    BY <1>4, <2>1, <2>3, <1>t, <1>l
    DEF Fetch, Dispatching!FetchMessage, DispatchTyped, Dispatching!GroupTypeOK, HandlersTyped
  <2> QED BY <1>4, <2>4, <2>5, <1>r, <1>p DEF Fetch
<1>5. ASSUME NEW c \in PushConsumers, NEW t \in Tokens, AcquireLock(c, t)
      PROVE  DispatchTyped' /\ RetryingTyped' /\ HandlersTyped' /\ PairsTyped'
  <2>1. pc[c] = "lock" /\ <<TheJob(c).event, t>> \in Pairs
    BY <1>5, JobTyped DEF AcquireLock
  <2>2. HandlersTyped'
    <3>1. /\ locked' \in [PushConsumers -> BOOLEAN]
          /\ pc' = [pc EXCEPT ![c] = "lock"] \/ pc' = [pc EXCEPT ![c] = "send"]
      BY <1>5, <1>t DEF AcquireLock, HandlersTyped
    <3>2. /\ token' = [token EXCEPT ![c] = t] /\ todo' = [todo EXCEPT ![c] = @ \ {t}]
          /\ dInHand' = dInHand
      BY <1>5 DEF AcquireLock
    <3> QED BY <2>1, <3>1, <3>2, <1>t DEF HandlersTyped
  <2>3. PairsTyped'
    BY <1>5, <2>1, <1>t DEF AcquireLock, PairsTyped
  <2> QED BY <1>5, <2>2, <2>3, <1>d, <1>r DEF AcquireLock
<1>6. ASSUME NEW c \in PushConsumers, SendSucceeds(c)
      PROVE  DispatchTyped' /\ RetryingTyped' /\ HandlersTyped' /\ PairsTyped'
  <2>1. Pair(c) \in Pairs
    BY <1>6, JobTyped DEF SendSucceeds
  <2>2. PairsTyped'
    BY <1>6, <2>1, <1>t DEF SendSucceeds, PairsTyped
  <2>3. HandlersTyped'
    BY <1>6, <1>t DEF SendSucceeds, HandlersTyped
  <2> QED BY <1>6, <2>2, <2>3, <1>d, <1>r DEF SendSucceeds
<1>7. ASSUME NEW c \in PushConsumers, SendFails(c)
      PROVE  DispatchTyped' /\ RetryingTyped' /\ HandlersTyped' /\ PairsTyped'
  <2>1. HandlersTyped'
    BY <1>7, <1>t DEF SendFails, HandlersTyped
  <2> QED BY <1>7, <2>1, <1>d, <1>r, <1>p DEF SendFails
<1>8. ASSUME NEW c \in PushConsumers, MarkDelivered(c) \/ ReleaseLock(c)
      PROVE  DispatchTyped' /\ RetryingTyped' /\ HandlersTyped' /\ PairsTyped'
  <2>1. Pair(c) \in Pairs
    BY <1>8, JobTyped DEF MarkDelivered, ReleaseLock
  <2>2. PairsTyped'
    BY <1>8, <2>1, <1>t DEF MarkDelivered, ReleaseLock, PairsTyped
  <2>3. HandlersTyped'
    BY <1>8, <1>t DEF MarkDelivered, ReleaseLock, HandlersTyped
  <2> QED BY <1>8, <2>2, <2>3, <1>d, <1>r DEF MarkDelivered, ReleaseLock
<1>10. ASSUME NEW c \in PushConsumers, QueueRetry(c)
       PROVE  DispatchTyped' /\ RetryingTyped' /\ HandlersTyped' /\ PairsTyped'
  <2>1. Pair(c) \in Pairs
    BY <1>10, JobTyped DEF QueueRetry
  <2>2. retries' \in Seq(Job) /\ Len(retries') \in Nat /\ Len(retries) <= Len(retries')
    <3>1. CASE TheJob(c).retry < MaxRetries
      <4>1. Retry(c) \in Job /\ retries' \in Write(retries, Retry(c))
        BY <1>10, <3>1, JobTyped DEF QueueRetry
      <4> QED BY <4>1, <1>t, WriteGrows DEF RetryingTyped
    <3>2. CASE ~ (TheJob(c).retry < MaxRetries)
      BY <1>10, <3>2, <1>l, <1>t DEF QueueRetry, RetryingTyped
    <3> QED BY <3>1, <3>2
  <2>3. PairsTyped'
    BY <1>10, <2>1, <1>t DEF QueueRetry, PairsTyped
  <2>4. HandlersTyped'
    BY <1>10, <1>t DEF QueueRetry, HandlersTyped
  <2>5. RetryingTyped'
    <3>1. UNCHANGED <<due, rGroup, requeued>>
      BY <1>10 DEF QueueRetry
    <3> QED BY <2>2, <3>1, <1>t, <1>l DEF RetryingTyped, Retrying!GroupTypeOK
  <2> QED BY <1>10, <2>3, <2>4, <2>5, <1>d DEF QueueRetry
<1>11. ASSUME NEW c \in PushConsumers, Commit(c)
       PROVE  DispatchTyped' /\ RetryingTyped' /\ HandlersTyped' /\ PairsTyped'
  <2>1. DispatchTyped'
    BY <1>11, <1>t, <1>l, PushAssumption
    DEF Commit, Dispatching!CommitMessages, Dispatching!Disrupt, DispatchTyped,
        Dispatching!GroupTypeOK
  <2>2. HandlersTyped'
    BY <1>11, <1>t DEF Commit, Dispatching!CommitMessages, DispatchTyped, Dispatching!GroupTypeOK,
       HandlersTyped
  <2> QED BY <1>11, <2>1, <2>2, <1>r, <1>p DEF Commit
<1>12. ASSUME NEW c \in PushConsumers, FetchRetry(c) \/ NotTimeYet(c) \/ CommitRetry(c) \/ CrashRetry(c)
       PROVE  DispatchTyped' /\ RetryingTyped' /\ HandlersTyped' /\ PairsTyped'
  <2>1. CASE FetchRetry(c)
    <3>1. RetryingTyped'
      BY <2>1, <1>l, <1>t DEF FetchRetry, Retrying!FetchMessage, RetryingTyped, Retrying!GroupTypeOK
    <3> QED BY <2>1, <3>1, <1>d, <1>h, <1>p DEF FetchRetry
  <2>2. CASE NotTimeYet(c)
    <3>1. RetryingTyped'
      BY <2>2, <1>l, <1>t DEF NotTimeYet, Retrying!HandlerError, RetryingTyped, Retrying!GroupTypeOK
    <3> QED BY <2>2, <3>1, <1>d, <1>h, <1>p DEF NotTimeYet
  <2>3. CASE CommitRetry(c)
    <3>1. RetryingTyped'
      BY <2>3, <1>l, <1>t, PushAssumption
      DEF CommitRetry, Retrying!CommitMessages, Retrying!Disrupt, RetryingTyped,
          Retrying!GroupTypeOK
    <3> QED BY <2>3, <3>1, <1>d, <1>h, <1>p DEF CommitRetry
  <2>4. CASE CrashRetry(c)
    <3>1. RetryingTyped'
      BY <2>4, <1>l, <1>t, PushAssumption
      DEF CrashRetry, Retrying!Crash, Retrying!Disrupt, RetryingTyped, Retrying!GroupTypeOK
    <3> QED BY <2>4, <3>1, <1>d, <1>h, <1>p DEF CrashRetry
  <2> QED BY <1>12, <2>1, <2>2, <2>3, <2>4
<1>14. ASSUME NEW c \in PushConsumers, Requeue(c)
       PROVE  DispatchTyped' /\ RetryingTyped' /\ HandlersTyped' /\ PairsTyped'
  <2>1. rInHand[c] \in 1..Len(retries)
    BY <1>14, <1>l, <1>t DEF Requeue, RetryingTyped
  <2>2. retries[rInHand[c]] \in Job
        /\ {retries[rInHand[c]].event} \X retries[rInHand[c]].tokens \subseteq Pairs
    BY <2>1, RetryTyped
  <2>3. jobs' \in Seq(Job) /\ Len(jobs') \in Nat /\ Len(jobs) <= Len(jobs')
    BY <1>14, <1>t, <2>2, WriteGrows DEF Requeue, DispatchTyped
  <2>4. DispatchTyped'
    BY <1>14, <1>t, <1>l, <2>3 DEF Requeue, DispatchTyped, Dispatching!GroupTypeOK
  <2>5. RetryingTyped'
    BY <1>14, <1>t, <2>1 DEF Requeue, RetryingTyped, Retrying!GroupTypeOK
  <2>6. PairsTyped'
    BY <1>14, <1>t, <2>2 DEF Requeue, PairsTyped
  <2> QED BY <1>14, <2>4, <2>5, <2>6, <1>h DEF Requeue
<1>16. ASSUME NEW c \in PushConsumers, CrashDispatch(c)
       PROVE  DispatchTyped' /\ RetryingTyped' /\ HandlersTyped' /\ PairsTyped'
  <2>1. InProgress(c) \subseteq Pairs
    BY JobTyped DEF InProgress
  <2>2. PairsTyped'
    BY <1>16, <2>1, <1>t DEF CrashDispatch, PairsTyped
  <2>3. DispatchTyped'
    BY <1>16, <1>t, <1>l, PushAssumption
    DEF CrashDispatch, Dispatching!Crash, Dispatching!Disrupt, DispatchTyped, Dispatching!GroupTypeOK
  <2>4. HandlersTyped'
    BY <1>16, <1>t DEF CrashDispatch, Dispatching!Crash, DispatchTyped, Dispatching!GroupTypeOK,
       HandlersTyped
  <2> QED BY <1>16, <2>2, <2>3, <2>4, <1>r DEF CrashDispatch
<1>18. ASSUME NEW c \in PushConsumers, Reassign(c)
       PROVE  DispatchTyped' /\ RetryingTyped' /\ HandlersTyped' /\ PairsTyped'
  <2>1. CASE Dispatching!Rebalance(c)
    <3>1. DispatchTyped'
      BY <1>18, <2>1, <1>t, <1>l, PushAssumption
      DEF Reassign, Dispatching!Rebalance, Dispatching!Disrupt, DispatchTyped, Dispatching!GroupTypeOK
    <3>2. dInHand' = dInHand
      BY <2>1 DEF Dispatching!Rebalance
    <3>3. CASE UNCHANGED <<rCommitted, rOwner, rPosition, rInHand, rDisruptions>>
      BY <1>18, <3>1, <3>2, <3>3, <1>r, <1>h, <1>p DEF Reassign
    <3>4. CASE Retrying!Rebalance(c) /\ UNCHANGED dGroup
      <4>1. RetryingTyped'
        BY <1>18, <3>4, <1>t, <1>l, PushAssumption
        DEF Reassign, Retrying!Rebalance, Retrying!Disrupt, RetryingTyped, Retrying!GroupTypeOK
      <4> QED BY <1>18, <3>1, <3>2, <4>1, <1>h, <1>p DEF Reassign
    <3> QED BY <1>18, <3>3, <3>4 DEF Reassign
  <2>2. CASE Retrying!Rebalance(c) /\ UNCHANGED dGroup
    <3>1. RetryingTyped'
      BY <1>18, <2>2, <1>t, <1>l, PushAssumption
      DEF Reassign, Retrying!Rebalance, Retrying!Disrupt, RetryingTyped, Retrying!GroupTypeOK
    <3> QED BY <1>18, <2>2, <3>1, <1>d, <1>h, <1>p DEF Reassign
  <2> QED BY <1>18, <2>1, <2>2 DEF Reassign
<1>19. CASE UNCHANGED vars
  BY <1>19, <1>d, <1>r, <1>h, <1>p DEF vars
<1> QED
  BY <1>1, <1>2, <1>3, <1>4, <1>5, <1>6, <1>7, <1>8, <1>10, <1>11, <1>12,
     <1>14, <1>16, <1>18, <1>19 DEF Next, Handle, HandleRetry

LEMMA TypeInit == Init => TypeInv
<1> SUFFICES ASSUME Init PROVE TypeInv
  OBVIOUS
<1>1. jobs \in Seq(Job) /\ Len(jobs) = 0 /\ retries \in Seq(Job) /\ Len(retries) = 0
  BY DEF Init
<1>2. (CHOOSE t \in Tokens : TRUE) \in Tokens
  BY PushAssumption
<1>3. DispatchTyped
  BY <1>1, PushAssumption
  DEF Init, DispatchTyped, Dispatching!GroupInit, Dispatching!GroupTypeOK
<1>4. RetryingTyped
  BY <1>1, PushAssumption
  DEF Init, RetryingTyped, Retrying!GroupInit, Retrying!GroupTypeOK
<1>5. HandlersTyped
  BY <1>2 DEF Init, HandlersTyped, Dispatching!GroupInit
<1>6. PairsTyped
  BY DEF Init, PairsTyped
<1> QED
  BY <1>3, <1>4, <1>5, <1>6, TypeParts

\* Every reachable state is well typed: in particular no job is tried more often than
\* MaxRetries allows, and a handler is idle exactly when it has no message.
THEOREM PushTypeCorrect == Spec => []TypeOK
<1>1. TypeInv => TypeOK
  BY DEF TypeInv
<1> QED
  BY <1>1, TypeInit, TypeNext, PTL DEF Spec

-----------------------------------------------------------------------------
(* At most one delivery.                                                   *)

Active == {"send", "mark", "release"}
Labels == Active \cup {"lock", "retry"}

\* The dispatch handler of c is at one of the labels, with p.
Holds(c, p, labels) == pc[c] \in labels /\ Pair(c) = p

\* As long as Redis has kept the lock of p: who is at p has it, alone, and a delivery
\* leaves it there with nobody who may release it.
Guarded(p) ==
  /\ \A c \in PushConsumers : Holds(c, p, Active) =>
       /\ p \in locks /\ locked[c]
       /\ \A d \in PushConsumers : Holds(d, p, Active) => d = c
  /\ delivered[p] <= 1
  /\ delivered[p] > 0 =>
       p \in locks /\ \A c \in PushConsumers : ~Holds(c, p, {"send", "release"})

OneHolder == \A p \in Pairs \ unguarded : Guarded(p)

\* What was in a topic stays where it was.
LEMMA TopicsGrow ==
  ASSUME TypeInv, [Next]_vars
  PROVE  /\ \A o \in 1..Len(jobs) : o \in 1..Len(jobs') /\ jobs'[o] = jobs[o]
         /\ \A i \in 1..Len(retries) : i \in 1..Len(retries') /\ retries'[i] = retries[i]
<1>t. jobs \in Seq(Job) /\ retries \in Seq(Job)
  BY DEF TypeInv, TypeOK
<1>1. ASSUME NEW e \in Events, ProduceJob(e) PROVE
        \A o \in 1..Len(jobs) : o \in 1..Len(jobs') /\ jobs'[o] = jobs[o]
  <2>1. [event |-> e, tokens |-> Tokens, retry |-> 0] \in Job
    BY PushAssumption DEF Job
  <2> QED BY <1>1, <1>t, <2>1, WriteGrows DEF ProduceJob
<1>2. ASSUME NEW c \in PushConsumers, Requeue(c) PROVE
        \A o \in 1..Len(jobs) : o \in 1..Len(jobs') /\ jobs'[o] = jobs[o]
  <2>1. rInHand[c] \in 1..Len(retries)
    BY <1>2, Lengths DEF Requeue, TypeInv, TypeOK
  <2> QED BY <1>2, <1>t, <2>1, RetryTyped, WriteGrows DEF Requeue
<1>3. ASSUME NEW c \in PushConsumers, QueueRetry(c) PROVE
        \A i \in 1..Len(retries) : i \in 1..Len(retries') /\ retries'[i] = retries[i]
  <2>1. CASE TheJob(c).retry < MaxRetries
    <3>1. Retry(c) \in Job /\ retries' \in Write(retries, Retry(c))
      BY <1>3, <2>1, JobTyped DEF QueueRetry, Handling
    <3> QED BY <3>1, <1>t, WriteGrows
  <2>2. CASE ~ (TheJob(c).retry < MaxRetries)
    BY <1>3, <2>2 DEF QueueRetry
  <2> QED BY <2>1, <2>2
<1>4. \/ jobs' = jobs
      \/ \E e \in Events : ProduceJob(e)
      \/ \E c \in PushConsumers : Requeue(c)
  BY DEF Next, vars, RetryFallsDue, LockExpires, Handle, HandleRetry, Fetch, AcquireLock,
     SendSucceeds, SendFails, MarkDelivered, ReleaseLock, QueueRetry, Commit, FetchRetry,
     NotTimeYet, CommitRetry, CrashDispatch, CrashRetry, Reassign, Handling
<1>5. retries' = retries \/ \E c \in PushConsumers : QueueRetry(c)
  BY DEF Next, vars, ProduceJob, RetryFallsDue, LockExpires, Handle, HandleRetry, Fetch, AcquireLock,
     SendSucceeds, SendFails, MarkDelivered, ReleaseLock, Commit, FetchRetry, Requeue,
     NotTimeYet, CommitRetry, CrashDispatch, CrashRetry, Reassign, Handling
<1>6. \A o \in 1..Len(jobs) : o \in 1..Len(jobs') /\ jobs'[o] = jobs[o]
  BY <1>1, <1>2, <1>4
<1>7. \A i \in 1..Len(retries) : i \in 1..Len(retries') /\ retries'[i] = retries[i]
  BY <1>3, <1>5
<1> QED
  BY <1>6, <1>7

\* Who stays at a message stays at its job; who stays at a token, at the pair.
LEMMA HoldsStays ==
  ASSUME TypeInv, [Next]_vars, NEW c \in PushConsumers, UNCHANGED <<pc[c], dInHand[c]>>
  PROVE  /\ pc[c] # "idle" => TheJob(c)' = TheJob(c)
         /\ UNCHANGED token[c] =>
              \A p, labels : labels \in SUBSET Labels => (Holds(c, p, labels)' <=> Holds(c, p, labels))
<1>1. ASSUME pc[c] # "idle" PROVE TheJob(c)' = TheJob(c)
  BY <1>1, JobTyped, TopicsGrow DEF TheJob
<1>2. ASSUME UNCHANGED token[c], NEW p, NEW labels \in SUBSET Labels
      PROVE  Holds(c, p, labels)' <=> Holds(c, p, labels)
  <2>1. pc[c] # "idle" => Pair(c)' = Pair(c)
    BY <1>1, <1>2 DEF Pair
  <2>2. "idle" \notin labels
    BY DEF Labels, Active
  <2> QED BY <2>1, <2>2 DEF Holds
<1> QED
  BY <1>1, <1>2

\* A step of the handler of c leaves the handlers of the other processes where they are.
LEMMA OthersStay ==
  ASSUME TypeInv, NEW c \in PushConsumers,
         \/ Fetch(c) \/ (\E t \in Tokens : AcquireLock(c, t)) \/ SendSucceeds(c) \/ SendFails(c)
         \/ MarkDelivered(c) \/ ReleaseLock(c) \/ QueueRetry(c) \/ Commit(c) \/ CrashDispatch(c),
         NEW d \in PushConsumers \ {c}
  PROVE  /\ UNCHANGED <<pc[d], dInHand[d], token[d], todo[d], locked[d]>>
         /\ \A p, labels : labels \in SUBSET Labels => (Holds(d, p, labels)' <=> Holds(d, p, labels))
<1>h. HandlersTyped /\ dInHand \in [PushConsumers -> Nat]
  BY TypeParts DEF DispatchTyped, Dispatching!GroupTypeOK
<1> USE DEF Goto, Handling, dGroup, handler, HandlersTyped
<1>1. UNCHANGED <<pc[d], token[d], todo[d], locked[d]>>
  BY <1>h DEF Fetch, AcquireLock, SendSucceeds, SendFails, MarkDelivered, ReleaseLock, QueueRetry,
     Commit, CrashDispatch
<1>2. UNCHANGED dInHand[d]
  <2>1. CASE Fetch(c)
    BY <2>1, <1>h DEF Fetch, Dispatching!FetchMessage
  <2>2. CASE Commit(c)
    BY <2>2, <1>h DEF Commit, Dispatching!CommitMessages
  <2>3. CASE CrashDispatch(c)
    BY <2>3, <1>h DEF CrashDispatch, Dispatching!Crash
  <2> QED BY <2>1, <2>2, <2>3 DEF AcquireLock, SendSucceeds, SendFails, MarkDelivered,
            ReleaseLock, QueueRetry
<1>3. [Next]_vars
  BY DEF Next, Handle
<1> QED
  BY <1>1, <1>2, <1>3, HoldsStays

LEMMA OneHolderNext == TypeInv /\ OneHolder /\ [Next]_vars => OneHolder'
<1> SUFFICES ASSUME TypeInv, OneHolder, [Next]_vars, NEW p \in Pairs, p \notin unguarded'
             PROVE  Guarded(p)'
  BY DEF OneHolder
<1> USE DEF Goto, Handling, dGroup, rGroup, handler, history
<1>t. /\ HandlersTyped /\ delivered \in [Pairs -> Nat]
      /\ Active \subseteq Labels /\ {"send", "release"} \subseteq Labels
  BY TypeParts DEF PairsTyped, Labels, Active
<1>g. Guarded(p)
  <2>1. ASSUME NEW c \in PushConsumers, Handle(c) PROVE unguarded \subseteq unguarded'
    <3>1. ASSUME NEW t \in Tokens, AcquireLock(c, t) PROVE unguarded \subseteq unguarded'
      BY <3>1 DEF AcquireLock
    <3> QED BY <2>1, <3>1 DEF Handle, Fetch, SendSucceeds, SendFails, MarkDelivered, ReleaseLock,
              QueueRetry, Commit
  <2>2. ASSUME NEW c \in PushConsumers, HandleRetry(c) \/ CrashDispatch(c) \/ CrashRetry(c) \/ Reassign(c)
        PROVE  unguarded' = unguarded
    BY <2>2 DEF HandleRetry, FetchRetry, Requeue, NotTimeYet, CommitRetry, CrashDispatch, CrashRetry,
       Reassign
  <2>3. ASSUME NEW q \in Pairs, LockExpires(q) PROVE unguarded \subseteq unguarded'
    BY <2>3 DEF LockExpires
  <2>4. (\E e \in Events : ProduceJob(e)) \/ RetryFallsDue \/ UNCHANGED vars => unguarded' = unguarded
    BY DEF ProduceJob, RetryFallsDue, vars
  <2>5. unguarded \subseteq unguarded'
    BY <2>1, <2>2, <2>3, <2>4 DEF Next
  <2> QED BY <2>5 DEF OneHolder
\* Steps that no dispatch handler takes.
<1>u. ASSUME UNCHANGED <<pc, dInHand, token, locked, delivered>>, p \in locks => p \in locks'
      PROVE  Guarded(p)'
  <2>1. \A c \in PushConsumers : /\ Holds(c, p, Active)' <=> Holds(c, p, Active)
                                 /\ Holds(c, p, {"send", "release"})' <=> Holds(c, p, {"send", "release"})
    BY <1>u, <1>t, HoldsStays
  <2> QED BY <2>1, <1>u, <1>g DEF Guarded
<1>1. ASSUME NEW q \in Pairs, LockExpires(q) PROVE Guarded(p)'
  BY <1>1, <1>u DEF LockExpires
<1>2. CASE \/ \E e \in Events : ProduceJob(e)
           \/ RetryFallsDue
           \/ \E c \in PushConsumers : HandleRetry(c) \/ CrashRetry(c) \/ Reassign(c)
           \/ UNCHANGED vars
  <2>1. UNCHANGED <<pc, dInHand, token, locked, delivered, locks>>
    BY <1>2 DEF ProduceJob, RetryFallsDue, HandleRetry, FetchRetry, Requeue, NotTimeYet, CommitRetry,
       CrashRetry, Reassign, vars, Dispatching!Rebalance
  <2> QED BY <2>1, <1>u
\* Steps of the dispatch handler of c; where it was and is, at p or at another pair.
<1>3. ASSUME NEW c \in PushConsumers, Handle(c) \/ CrashDispatch(c) PROVE Guarded(p)'
  <2>o. \A d \in PushConsumers \ {c} :
          /\ locked'[d] = locked[d]
          /\ Holds(d, p, Active)' <=> Holds(d, p, Active)
          /\ Holds(d, p, {"send", "release"})' <=> Holds(d, p, {"send", "release"})
    BY <1>3, <1>t, OthersStay DEF Handle
  <2>away. ASSUME pc'[c] \notin Active, UNCHANGED <<locks, delivered>> PROVE Guarded(p)'
    <3>1. ~ Holds(c, p, Active)' /\ ~ Holds(c, p, {"send", "release"})'
      BY <2>away DEF Holds, Active
    <3> QED BY <3>1, <2>o, <2>away, <1>g DEF Guarded
  <2>1. CASE Fetch(c) \/ QueueRetry(c) \/ Commit(c) \/ CrashDispatch(c)
    <3>1. pc'[c] \notin Active /\ UNCHANGED <<locks, delivered>>
      BY <2>1, <1>t DEF Fetch, QueueRetry, Commit, CrashDispatch, Active, HandlersTyped
    <3> QED BY <3>1, <2>away
  <2>2. ASSUME NEW t \in Tokens, AcquireLock(c, t) PROVE Guarded(p)'
    <3>1. /\ pc[c] = "lock" /\ dInHand' = dInHand /\ jobs' = jobs /\ token'[c] = t
          /\ delivered' = delivered
      BY <2>2, <1>t DEF AcquireLock, HandlersTyped
    <3>2. Pair(c)' = <<TheJob(c).event, t>>
      BY <3>1 DEF Pair, TheJob
    <3>3. CASE p # <<TheJob(c).event, t>>
      <4>1. ~ Holds(c, p, Active)' /\ ~ Holds(c, p, {"send", "release"})'
        BY <3>2, <3>3 DEF Holds
      <4>2. p \in locks' <=> p \in locks
        BY <2>2, <3>3 DEF AcquireLock
      <4> QED BY <4>1, <4>2, <3>1, <2>o, <1>g DEF Guarded
    <3>4. CASE p = <<TheJob(c).event, t>>
      <4>1. /\ locks' = locks \cup {p}
            /\ locked' = [locked EXCEPT ![c] = p \notin locks]
            /\ pc' = [pc EXCEPT ![c] = IF p \in locks THEN "lock" ELSE "send"]
        BY <2>2, <3>4 DEF AcquireLock
      <4>2. CASE p \in locks
        <5>1. pc'[c] \notin Active /\ locks' = locks
          BY <4>1, <4>2, <1>t DEF HandlersTyped, Active
        <5> QED BY <5>1, <3>1, <2>away
      <4>3. CASE p \notin locks
        <5>1. /\ ~ (delivered[p] > 0) /\ p \in locks' /\ locked'[c]
              /\ \A d \in PushConsumers \ {c} : ~ Holds(d, p, Active)'
          BY <4>1, <4>3, <1>g, <1>t, <2>o DEF Guarded, HandlersTyped
        <5> QED BY <5>1, <3>1, <1>g DEF Guarded
      <4> QED BY <4>2, <4>3
    <3> QED BY <3>3, <3>4
  <2>3. CASE SendSucceeds(c) \/ SendFails(c) \/ MarkDelivered(c) \/ ReleaseLock(c)
    <3>1. Pair(c)' = Pair(c)
      BY <2>3 DEF SendSucceeds, SendFails, MarkDelivered, ReleaseLock, Pair, TheJob
    <3>2. /\ pc[c] \in Active /\ Pair(c) \in Pairs
          /\ \A q \in Pairs \ {Pair(c)} : (q \in locks' <=> q \in locks) /\ delivered'[q] = delivered[q]
      BY <2>3, <1>t, JobTyped DEF SendSucceeds, SendFails, MarkDelivered, ReleaseLock, Active
    <3>3. CASE p # Pair(c)
      <4>1. ~ Holds(c, p, Active)' /\ ~ Holds(c, p, {"send", "release"})'
        BY <3>1, <3>3 DEF Holds
      <4> QED BY <4>1, <3>2, <3>3, <2>o, <1>g DEF Guarded
    <3>4. CASE p = Pair(c)
      <4>1. /\ Holds(c, p, Active) /\ p \in locks /\ locked[c]
            /\ \A d \in PushConsumers \ {c} : ~ Holds(d, p, Active)'
        BY <3>2, <3>4, <1>g, <2>o DEF Guarded, Holds
      <4>o. \A d \in PushConsumers \ {c} : ~ Holds(d, p, {"send", "release"})'
        BY <4>1 DEF Holds, Active
      <4>2. CASE SendSucceeds(c) \/ SendFails(c)
        <5>1. delivered[p] = 0
          <6>1. Holds(c, p, {"send", "release"})
            BY <4>2, <3>4 DEF SendSucceeds, SendFails, Holds
          <6> QED BY <6>1, <1>g, <1>t DEF Guarded
        <5>2. /\ locks' = locks /\ locked' = locked
              /\ \/ delivered'[p] = 1 /\ pc'[c] = "mark"
                 \/ delivered'[p] = 0
          BY <4>2, <3>4, <5>1, <1>t DEF SendSucceeds, SendFails, HandlersTyped
        <5>3. delivered'[p] > 0 => ~ Holds(c, p, {"send", "release"})'
          BY <5>2 DEF Holds
        <5> QED BY <4>1, <4>o, <5>2, <5>3 DEF Guarded
      <4>3. CASE MarkDelivered(c)
        <5>1. pc'[c] \notin Active /\ p \in locks' /\ delivered' = delivered
          BY <4>3, <4>1, <1>t DEF MarkDelivered, HandlersTyped, Active
        <5>2. ~ Holds(c, p, Active)' /\ ~ Holds(c, p, {"send", "release"})'
          BY <5>1 DEF Holds, Active
        <5> QED BY <4>1, <4>o, <5>1, <5>2, <1>g DEF Guarded
      <4>4. CASE ReleaseLock(c)
        <5>1. pc'[c] \notin Active /\ delivered' = delivered
          BY <4>4, <1>t DEF ReleaseLock, HandlersTyped, Active
        <5>2. ~ Holds(c, p, Active)'
          BY <5>1 DEF Holds
        <5>3. ~ (delivered[p] > 0)
          <6>1. Holds(c, p, {"send", "release"})
            BY <4>4, <3>4 DEF ReleaseLock, Holds
          <6> QED BY <6>1, <1>g DEF Guarded
        <5> QED BY <4>1, <5>1, <5>2, <5>3, <1>g DEF Guarded
      <4> QED BY <2>3, <4>2, <4>3, <4>4
    <3> QED BY <3>3, <3>4
  <2> QED BY <1>3, <2>1, <2>2, <2>3 DEF Handle
<1> QED
  BY <1>1, <1>2, <1>3 DEF Next

\* The push service acknowledges at most one send of a notification to a device, however
\* many copies of the job are in the topics, as long as Redis keeps the key of the two.
THEOREM DeliveredAtMostOnce == Spec => []AtMostOneDelivery
<1>1. Init => OneHolder
  <2> SUFFICES ASSUME Init, NEW p \in Pairs PROVE Guarded(p)
    BY DEF OneHolder
  <2>1. delivered[p] = 0 /\ \A c \in PushConsumers : pc[c] = "idle"
    BY DEF Init
  <2> QED BY <2>1 DEF Guarded, Holds, Active
<1>2. OneHolder => AtMostOneDelivery
  BY DEF OneHolder, Guarded, AtMostOneDelivery
<1> QED
  BY <1>1, <1>2, TypeInit, TypeNext, OneHolderNext, PTL DEF Spec

-----------------------------------------------------------------------------
(* No token forgotten.                                                     *)

Trying == Active \cup {"retry"}

\* What becomes of a pair is known, or somebody is at it, or a message about it lies
\* ahead of job n.
Settled(p, n) ==
  \/ delivered[p] > 0
  \/ p \in exhausted \cup excused
  \/ \E c \in PushConsumers : Holds(c, p, Trying)
  \/ \E i \in 1..Len(retries) \ requeued : Carries(retries[i], p)
  \/ \E q \in 1..Len(jobs) : q > n /\ Carries(jobs[q], p)

AllSettled(o) == \A p \in Pairs : Carries(jobs[o], p) => Settled(p, o)

\* A lock stands for a delivery, for somebody at it, or for what a fault left behind.
LocksStand ==
  \A p \in locks : delivered[p] > 0 \/ p \in excused
                   \/ \E c \in PushConsumers : Holds(c, p, Active) /\ locked[c]

Marked == \A c \in PushConsumers : pc[c] = "mark" => delivered[Pair(c)] > 0

\* The tokens a handler is done with, and the jobs behind the one it has, the ones
\* committed, and the ones read but for the one the owner of the partition is at.
Done ==
  \A c \in PushConsumers : pc[c] # "idle" =>
    \A o \in 1..Len(jobs) : \A p \in Pairs :
      o = dInHand[c] /\ Carries(jobs[o], p) /\ p[2] \notin todo[c] => Settled(p, o)
Behind == \A c \in PushConsumers : \A o \in 1..Len(jobs) : o < dInHand[c] => AllSettled(o)
ComSettled == \A o \in 1..dCommitted : AllSettled(o)
PosSettled == \A o \in 1..dPosition : AllSettled(o) \/ dInHand[dOwner] = o

SettleInv == LocksStand /\ Marked /\ Done /\ Behind /\ ComSettled /\ PosSettled

DispatchStep(c) == Handle(c) \/ CrashDispatch(c)

\* The handlers move only in their own steps, and what is settled is not undone.
LEMMA Aside ==
  ASSUME [Next]_vars
  PROVE  (\E c \in PushConsumers : DispatchStep(c)) \/ UNCHANGED <<pc, dInHand, token, todo, locked, delivered>>
BY DEF Next, DispatchStep, vars, handler, history, dGroup, ProduceJob, RetryFallsDue, LockExpires,
   HandleRetry, FetchRetry, NotTimeYet, Requeue, CommitRetry, CrashRetry, Reassign,
   Dispatching!Rebalance

LEMMA HistoriesGrow ==
  ASSUME TypeInv, [Next]_vars
  PROVE  /\ \A p \in Pairs : delivered[p] > 0 => delivered'[p] > 0
         /\ exhausted \subseteq exhausted' /\ excused \subseteq excused'
<1>t. delivered \in [Pairs -> Nat] /\ HandlersTyped
  BY TypeParts DEF PairsTyped
<1> USE DEF Handling, history
<1>1. ASSUME NEW c \in PushConsumers, SendSucceeds(c)
      PROVE  /\ \A p \in Pairs : delivered[p] > 0 => delivered'[p] > 0
             /\ exhausted' = exhausted /\ excused' = excused
  BY <1>1, <1>t, JobTyped DEF SendSucceeds
<1>2. ASSUME NEW c \in PushConsumers, NEW t \in Tokens, AcquireLock(c, t)
      PROVE  delivered' = delivered /\ exhausted' = exhausted /\ excused \subseteq excused'
  BY <1>2 DEF AcquireLock
<1>3. ASSUME NEW c \in PushConsumers, ReleaseLock(c) \/ QueueRetry(c) \/ CrashDispatch(c) \/ Requeue(c)
      PROVE  delivered' = delivered /\ exhausted \subseteq exhausted' /\ excused \subseteq excused'
  BY <1>3 DEF ReleaseLock, QueueRetry, CrashDispatch, Requeue
<1>4. ASSUME NEW c \in PushConsumers, Fetch(c) \/ SendFails(c) \/ MarkDelivered(c) \/ Commit(c)
                                       \/ FetchRetry(c) \/ NotTimeYet(c) \/ CommitRetry(c)
                                       \/ CrashRetry(c) \/ Reassign(c)
      PROVE  delivered' = delivered /\ exhausted' = exhausted /\ excused' = excused
  BY <1>4 DEF Fetch, SendFails, MarkDelivered, Commit, FetchRetry, NotTimeYet, CommitRetry,
     CrashRetry, Reassign
<1>5. (\E e \in Events : ProduceJob(e)) \/ RetryFallsDue \/ (\E p \in Pairs : LockExpires(p)) \/ UNCHANGED vars
      => delivered' = delivered /\ exhausted' = exhausted /\ excused' = excused
  BY DEF ProduceJob, RetryFallsDue, LockExpires, vars
<1> QED
  BY <1>1, <1>2, <1>3, <1>4, <1>5 DEF Next, Handle, HandleRetry

\* Whatever a handler does with the pair it is at, it leaves it settled.
LEMMA HandlerSettles ==
  ASSUME TypeInv, Marked, NEW c \in PushConsumers, DispatchStep(c),
         NEW p \in Pairs, Holds(c, p, Trying), NEW n \in Nat
  PROVE  Settled(p, n)'
<1>t. HandlersTyped /\ RetryingTyped /\ delivered \in [Pairs -> Nat] /\ Len(retries) \in Nat
  BY TypeParts, Lengths DEF PairsTyped
<1> USE DEF Goto, Handling
<1>p. pc[c] \in Trying /\ pc[c] # "idle" /\ pc[c] # "lock" /\ Pair(c) = p
  BY DEF Holds, Trying, Active
<1>1. CASE SendSucceeds(c)
  <2>1. delivered'[p] = delivered[p] + 1
    BY <1>1, <1>p, <1>t DEF SendSucceeds
  <2> QED BY <2>1, <1>t DEF Settled
<1>2. CASE SendFails(c) \/ ReleaseLock(c)
  <2>1. Pair(c)' = Pair(c)
    BY <1>2 DEF SendFails, ReleaseLock, Pair, TheJob, dGroup
  <2>2. pc'[c] \in Trying
    BY <1>2, <1>t DEF SendFails, ReleaseLock, HandlersTyped, Trying, Active
  <2>3. Holds(c, p, Trying)'
    BY <2>1, <2>2, <1>p DEF Holds
  <2> QED BY <2>3 DEF Settled
<1>3. CASE MarkDelivered(c)
  <2>1. delivered'[p] > 0
    BY <1>3, <1>p DEF MarkDelivered, Marked
  <2> QED BY <2>1 DEF Settled
<1>4. CASE QueueRetry(c)
  <2>1. CASE TheJob(c).retry < MaxRetries
    <3>1. Retry(c) \in Job /\ retries' \in Write(retries, Retry(c))
      BY <1>4, <2>1, <1>p, JobTyped DEF QueueRetry
    <3>2. CASE retries' = retries
      BY <1>4, <2>1, <3>2, <1>p DEF QueueRetry, Settled
    <3>3. CASE retries' # retries
      <4>1. /\ Len(retries) + 1 \in 1..Len(retries') /\ retries'[Len(retries) + 1] = Retry(c)
            /\ Len(retries) + 1 \notin requeued'
        BY <1>4, <3>1, <3>3, <1>t, WriteGrows DEF QueueRetry, RetryingTyped
      <4>2. Carries(Retry(c), p)
        BY <1>p DEF Carries, Retry, Pair
      <4>3. Len(retries) + 1 \in (1..Len(retries') \ requeued')
        BY <4>1
      <4>4. \E i \in (1..Len(retries') \ requeued') : Carries(retries'[i], p)
        BY <4>1, <4>2, <4>3
      <4> QED BY <4>4 DEF Settled, Carries
    <3> QED BY <3>2, <3>3
  <2>2. CASE ~ (TheJob(c).retry < MaxRetries)
    BY <1>4, <2>2, <1>p DEF QueueRetry, Settled
  <2> QED BY <2>1, <2>2
<1>5. CASE CrashDispatch(c)
  <2>1. p \in InProgress(c)
    BY <1>p DEF InProgress, Trying, Active
  <2> QED BY <1>5, <2>1 DEF CrashDispatch, Settled
<1>6. ~ Fetch(c) /\ ~ Commit(c) /\ \A t \in Tokens : ~ AcquireLock(c, t)
  BY <1>p, <1>t DEF Fetch, Dispatching!FetchMessage, HandlersTyped, Commit, AcquireLock
<1> QED
  BY <1>1, <1>2, <1>3, <1>4, <1>5, <1>6 DEF DispatchStep, Handle

LEMMA SettledStays ==
  ASSUME TypeInv, Marked, [Next]_vars, NEW p \in Pairs, NEW n \in 0..Len(jobs), Settled(p, n)
  PROVE  Settled(p, n)'
<1>t. jobs \in Seq(Job) /\ Len(jobs) \in Nat /\ n \in Nat
  BY Lengths DEF TypeInv, TypeOK
<1>1. CASE delivered[p] > 0 \/ p \in exhausted \cup excused
  BY <1>1, HistoriesGrow DEF Settled
<1>2. ASSUME NEW c \in PushConsumers, Holds(c, p, Trying)
      PROVE  Settled(p, n)'
  <2>1. CASE DispatchStep(c)
    BY <1>2, <2>1, <1>t, HandlerSettles
  <2>2. CASE ~ DispatchStep(c)
    <3>1. Trying \in SUBSET Labels
      BY DEF Trying, Labels
    <3>2. Holds(c, p, Trying)' <=> Holds(c, p, Trying)
      <4>1. CASE UNCHANGED <<pc, dInHand, token>>
        BY <4>1, <3>1, HoldsStays
      <4>2. ASSUME NEW d \in PushConsumers, DispatchStep(d) PROVE Holds(c, p, Trying)' <=> Holds(c, p, Trying)
        BY <4>2, <2>2, <3>1, OthersStay DEF DispatchStep, Handle
      <4> QED BY <4>1, <4>2, Aside
    <3> QED BY <1>2, <3>2 DEF Settled
  <2> QED BY <2>1, <2>2
<1>3. ASSUME NEW i \in 1..Len(retries) \ requeued, Carries(retries[i], p)
      PROVE  Settled(p, n)'
  <2>1. i \in 1..Len(retries') /\ retries'[i] = retries[i]
    BY TopicsGrow
  <2>2. CASE i \notin requeued'
    <3>1. \E j \in (1..Len(retries') \ requeued') : Carries(retries'[j], p)
      BY <2>1, <2>2, <1>3
    <3> QED BY <3>1 DEF Settled, Carries
  <2>3. CASE i \in requeued'
    <3>1. PICK c \in PushConsumers : Requeue(c) /\ rInHand[c] = i
      <4>1. requeued' = requeued \/ \E c \in PushConsumers : Requeue(c)
        BY DEF Next, vars, history, Handling, ProduceJob, RetryFallsDue, LockExpires, Handle, HandleRetry,
           Fetch, AcquireLock, SendSucceeds, SendFails, MarkDelivered, ReleaseLock, QueueRetry, Commit,
           FetchRetry, NotTimeYet, CommitRetry, CrashDispatch, CrashRetry, Reassign
      <4> QED BY <4>1, <2>3 DEF Requeue
    <3>2. CASE jobs' = jobs
      <4>1. p = <<retries[i].event, p[2]>> /\ p[2] \in retries[i].tokens
        BY <1>3 DEF Carries, Pairs
      <4> QED BY <3>1, <3>2, <4>1 DEF Requeue, Settled
    <3>3. CASE jobs' # jobs
      <4>1. retries[i] \in Job
        BY RetryTyped
      <4>2. Len(jobs) + 1 \in 1..Len(jobs') /\ jobs'[Len(jobs) + 1] = retries[i]
        BY <3>1, <3>3, <4>1, <1>t, WriteGrows DEF Requeue
      <4>3. Len(jobs) + 1 > n
        BY <1>t
      <4>4. \E q \in 1..Len(jobs') : q > n /\ Carries(jobs'[q], p)
        BY <4>2, <4>3, <1>3
      <4> QED BY <4>4 DEF Settled, Carries
    <3> QED BY <3>2, <3>3
  <2> QED BY <2>2, <2>3
<1>4. ASSUME NEW q \in 1..Len(jobs), q > n, Carries(jobs[q], p)
      PROVE  Settled(p, n)'
  <2>1. q \in 1..Len(jobs') /\ jobs'[q] = jobs[q]
    BY TopicsGrow
  <2>2. \E r \in 1..Len(jobs') : r > n /\ Carries(jobs'[r], p)
    BY <2>1, <1>4
  <2> QED BY <2>2 DEF Settled, Carries
<1> QED
  BY <1>1, <1>2, <1>3, <1>4 DEF Settled

LEMMA AllSettledStays ==
  ASSUME TypeInv, Marked, [Next]_vars, NEW o \in 1..Len(jobs), AllSettled(o)
  PROVE  AllSettled(o)'
<1>1. jobs'[o] = jobs[o] /\ o \in 0..Len(jobs)
  BY TopicsGrow
<1>2. ASSUME NEW p \in Pairs, Carries(jobs'[o], p) PROVE Settled(p, o)'
  BY <1>1, <1>2, SettledStays DEF AllSettled
<1> QED
  BY <1>2 DEF AllSettled, Carries

\* What the steps of one handler do to the others' places, and to its own.
LEMMA StaysOrSteps ==
  ASSUME TypeInv, [Next]_vars, NEW c \in PushConsumers
  PROVE  \/ DispatchStep(c)
         \/ /\ UNCHANGED <<pc[c], dInHand[c], token[c], todo[c], locked[c]>>
            /\ pc[c] # "idle" => TheJob(c)' = TheJob(c) /\ Pair(c)' = Pair(c)
<1>1. CASE UNCHANGED <<pc, dInHand, token, todo, locked>>
  BY <1>1, HoldsStays DEF Pair
<1>2. ASSUME NEW d \in PushConsumers, d # c, DispatchStep(d)
      PROVE  /\ UNCHANGED <<pc[c], dInHand[c], token[c], todo[c], locked[c]>>
             /\ pc[c] # "idle" => TheJob(c)' = TheJob(c) /\ Pair(c)' = Pair(c)
  <2>1. UNCHANGED <<pc[c], dInHand[c], token[c], todo[c], locked[c]>>
    BY <1>2, OthersStay DEF DispatchStep, Handle
  <2> QED BY <2>1, HoldsStays DEF Pair
<1> QED
  BY <1>1, <1>2, Aside

LEMMA MarkedNext == TypeInv /\ Marked /\ [Next]_vars => Marked'
<1> SUFFICES ASSUME TypeInv, Marked, [Next]_vars, NEW c \in PushConsumers, pc'[c] = "mark"
             PROVE  delivered'[Pair(c)'] > 0
  BY DEF Marked
<1> USE DEF Goto, Handling
<1>t. HandlersTyped /\ delivered \in [Pairs -> Nat]
  BY TypeParts DEF PairsTyped
<1>1. CASE DispatchStep(c)
  <2>1. SendSucceeds(c)
    BY <1>1, <1>t DEF DispatchStep, Handle, Fetch, AcquireLock, SendFails, MarkDelivered, ReleaseLock,
       QueueRetry, Commit, CrashDispatch, HandlersTyped
  <2>2. Pair(c) \in Pairs
    BY <2>1, JobTyped DEF SendSucceeds
  <2>3. Pair(c)' = Pair(c) /\ delivered'[Pair(c)] = delivered[Pair(c)] + 1
    BY <2>1, <2>2, <1>t DEF SendSucceeds, Pair, TheJob, dGroup
  <2> QED BY <2>2, <2>3, <1>t
<1>2. CASE ~ DispatchStep(c)
  <2>1. pc[c] = "mark" /\ Pair(c)' = Pair(c) /\ Pair(c) \in Pairs
    BY <1>2, StaysOrSteps, JobTyped
  <2> QED BY <2>1, HistoriesGrow DEF Marked
<1> QED
  BY <1>1, <1>2

LEMMA LocksStandNext == TypeInv /\ Marked /\ LocksStand /\ [Next]_vars => LocksStand'
<1> SUFFICES ASSUME TypeInv, Marked, LocksStand, [Next]_vars, NEW p \in locks'
             PROVE  \/ delivered'[p] > 0 \/ p \in excused'
                    \/ \E c \in PushConsumers : Holds(c, p, Active)' /\ locked'[c]
  BY DEF LocksStand
<1> USE DEF Goto, Handling
<1>t. HandlersTyped /\ delivered \in [Pairs -> Nat] /\ locks \subseteq Pairs
  BY TypeParts DEF PairsTyped
<1>1. CASE p \in locks
  <2>p. p \in Pairs
    BY <1>1, <1>t
  <2>1. CASE delivered[p] > 0 \/ p \in excused
    BY <2>1, <2>p, HistoriesGrow
  <2>2. ASSUME NEW c \in PushConsumers, Holds(c, p, Active), locked[c]
        PROVE  \/ delivered'[p] > 0 \/ p \in excused'
               \/ Holds(c, p, Active)' /\ locked'[c]
    <3>0. pc[c] \in Active /\ pc[c] # "idle" /\ pc[c] # "lock" /\ pc[c] # "retry" /\ Pair(c) = p
      BY <2>2 DEF Holds, Active
    <3>1. CASE ~ DispatchStep(c)
      BY <3>0, <3>1, <2>2, StaysOrSteps DEF Holds
    <3>2. CASE SendSucceeds(c)
      BY <3>0, <3>2, <2>p, <1>t DEF SendSucceeds
    <3>3. CASE SendFails(c)
      <4>1. Pair(c)' = Pair(c) /\ pc'[c] = "release" /\ locked' = locked
        BY <3>3, <1>t DEF SendFails, Pair, TheJob, dGroup, HandlersTyped
      <4> QED BY <4>1, <3>0, <2>2 DEF Holds, Active
    <3>4. CASE MarkDelivered(c)
      BY <3>0, <3>4 DEF MarkDelivered, Marked
    <3>5. CASE ReleaseLock(c)
      BY <3>0, <3>5, <2>2 DEF ReleaseLock
    <3>6. CASE CrashDispatch(c)
      BY <3>0, <3>6 DEF CrashDispatch, InProgress, Active
    <3>7. ~ Fetch(c) /\ ~ QueueRetry(c) /\ ~ Commit(c) /\ \A t \in Tokens : ~ AcquireLock(c, t)
      BY <3>0, <1>t DEF Fetch, Dispatching!FetchMessage, HandlersTyped, Commit, QueueRetry, AcquireLock
    <3> QED BY <3>1, <3>2, <3>3, <3>4, <3>5, <3>6, <3>7 DEF DispatchStep, Handle
  <2> QED BY <1>1, <2>1, <2>2 DEF LocksStand
<1>2. CASE p \notin locks
  <2>1. ASSUME NEW c \in PushConsumers, NEW t \in Tokens, AcquireLock(c, t)
        PROVE  p \in excused' \/ (Holds(c, p, Active)' /\ locked'[c])
    <3>1. p = <<TheJob(c).event, t>>
      BY <2>1, <1>2 DEF AcquireLock
    <3>2. CASE locked' = [locked EXCEPT ![c] = p \notin locks] /\ pc' = [pc EXCEPT ![c] = "send"]
      <4>1. Pair(c)' = p /\ pc'[c] = "send" /\ locked'[c]
        BY <2>1, <3>1, <3>2, <1>2, <1>t DEF AcquireLock, Pair, TheJob, dGroup, HandlersTyped
      <4> QED BY <4>1 DEF Holds, Active
    <3>3. CASE excused' = excused \cup ({p} \cap locks')
      BY <3>3
    <3> QED BY <2>1, <3>1, <3>2, <3>3, <1>2 DEF AcquireLock
  <2>2. ASSUME NEW c \in PushConsumers, MarkDelivered(c) PROVE delivered'[p] > 0
    <3>1. p = Pair(c)
      BY <2>2, <1>2 DEF MarkDelivered
    <3> QED BY <2>2, <3>1 DEF MarkDelivered, Marked
  <2>3. \/ locks' \subseteq locks
        \/ \E c \in PushConsumers : MarkDelivered(c) \/ \E t \in Tokens : AcquireLock(c, t)
    BY DEF Next, vars, history, ProduceJob, RetryFallsDue, LockExpires, Handle, HandleRetry,
       Fetch, SendSucceeds, SendFails, ReleaseLock, QueueRetry, Commit,
       FetchRetry, Requeue, NotTimeYet, CommitRetry, CrashDispatch, CrashRetry, Reassign
  <2> QED BY <1>2, <2>1, <2>2, <2>3
<1> QED
  BY <1>1, <1>2

\* Where a handler may be going when it has a job, and where it got it.
LEMMA AtItsJob ==
  ASSUME TypeInv, NEW c \in PushConsumers, DispatchStep(c)
  PROVE  \/ /\ Fetch(c) /\ dInHand[c] = 0 /\ dOwner = c /\ dPosition < Len(jobs)
            /\ dPosition' = dPosition + 1 /\ dInHand' = [dInHand EXCEPT ![c] = dPosition + 1]
            /\ pc'[c] = "lock" /\ todo'[c] = jobs[dPosition + 1].tokens
            /\ UNCHANGED <<dCommitted, dOwner, jobs>>
         \/ /\ pc[c] # "idle" /\ pc'[c] # "idle" /\ todo'[c] \subseteq todo[c]
            /\ TheJob(c)' = TheJob(c) /\ UNCHANGED <<dCommitted, dOwner, dPosition, dInHand>>
            /\ todo' = todo \/ \E t \in Tokens : AcquireLock(c, t)
         \/ /\ Commit(c) /\ pc[c] = "lock" /\ todo[c] = {} /\ pc'[c] = "idle"
            /\ dCommitted' \in {dInHand[c], dCommitted}
            /\ dInHand' = [dInHand EXCEPT ![c] = 0] /\ UNCHANGED <<dOwner, dPosition>>
         \/ /\ CrashDispatch(c) /\ pc'[c] = "idle" /\ dInHand' = [dInHand EXCEPT ![c] = 0]
            /\ dPosition' \in {dPosition, dCommitted}
            /\ dOwner = c => dPosition' = dCommitted
            /\ UNCHANGED <<dCommitted, dOwner>>
<1>t. HandlersTyped
  BY TypeParts
<1> USE DEF Goto, Handling, HandlersTyped, dGroup
<1>1. CASE Fetch(c)
  BY <1>1, <1>t DEF Fetch, Dispatching!FetchMessage
<1>2. ASSUME NEW t \in Tokens, AcquireLock(c, t)
      PROVE  /\ pc[c] # "idle" /\ pc'[c] # "idle" /\ todo'[c] \subseteq todo[c]
             /\ TheJob(c)' = TheJob(c) /\ UNCHANGED <<dCommitted, dOwner, dPosition, dInHand>>
  BY <1>2, <1>t DEF AcquireLock, TheJob
<1>3. CASE SendSucceeds(c) \/ SendFails(c) \/ MarkDelivered(c) \/ ReleaseLock(c) \/ QueueRetry(c)
  BY <1>3, <1>t DEF SendSucceeds, SendFails, MarkDelivered, ReleaseLock, QueueRetry, TheJob
<1>4. CASE Commit(c)
  BY <1>4, <1>t DEF Commit, Dispatching!CommitMessages
<1>5. CASE CrashDispatch(c)
  BY <1>5, <1>t DEF CrashDispatch, Dispatching!Crash
<1> QED
  BY <1>1, <1>2, <1>3, <1>4, <1>5 DEF DispatchStep, Handle

LEMMA DoneNext ==
  ASSUME TypeInv, Marked, LocksStand, Done, [Next]_vars
  PROVE  Done'
<1> SUFFICES ASSUME NEW c \in PushConsumers, pc'[c] # "idle", NEW o \in 1..Len(jobs'), NEW p \in Pairs,
                    o = dInHand'[c], Carries(jobs'[o], p), p[2] \notin todo'[c]
             PROVE  Settled(p, o)'
  BY DEF Done, Carries
<1> USE DEF Goto, Handling
<1>t. HandlersTyped /\ dInHand \in [PushConsumers -> Nat]
  BY TypeParts DEF DispatchTyped, Dispatching!GroupTypeOK
\* A token the handler was done with already.
<1>1. ASSUME pc[c] # "idle", dInHand[c] = o, p[2] \notin todo[c]
      PROVE  Settled(p, o)'
  <2>1. o \in 1..Len(jobs) /\ o \in 0..Len(jobs) /\ jobs'[o] = jobs[o]
    BY <1>1, JobTyped, TopicsGrow
  <2>2. Settled(p, o)
    BY <1>1, <2>1 DEF Done
  <2> QED BY <2>1, <2>2, SettledStays
<1>2. CASE ~ DispatchStep(c)
  BY <1>1, <1>2, StaysOrSteps
<1>3. CASE Fetch(c)
  <2>1. dInHand'[c] = dPosition + 1 /\ jobs' = jobs /\ todo'[c] = jobs[dPosition + 1].tokens
    BY <1>3, <1>t DEF Fetch, Dispatching!FetchMessage, HandlersTyped
  <2> QED BY <2>1 DEF Carries
<1>4. ASSUME NEW s \in Tokens, AcquireLock(c, s)
      PROVE  Settled(p, o)'
  <2>1. /\ pc[c] = "lock" /\ dInHand' = dInHand /\ jobs' = jobs
        /\ todo'[c] = todo[c] \ {s} /\ token'[c] = s
    BY <1>4, <1>t DEF AcquireLock, dGroup, HandlersTyped
  <2>2. CASE s # p[2]
    BY <1>1, <2>1, <2>2
  <2>3. CASE s = p[2]
    <3>1. p = <<TheJob(c).event, s>>
      BY <2>1, <2>3 DEF Carries, Pairs, TheJob
    <3>2. CASE pc'[c] = "send"
      <4>1. Holds(c, p, Trying)'
        BY <2>1, <3>1, <3>2 DEF Holds, Trying, Active, Pair, TheJob
      <4> QED BY <4>1 DEF Settled
    <3>3. CASE pc'[c] # "send"
      <4>1. p \in locks
        BY <1>4, <3>1, <3>3, <1>t DEF AcquireLock, HandlersTyped
      <4>2. \A d \in PushConsumers : Holds(d, p, Active) => Holds(d, p, Trying)
        BY DEF Holds, Trying
      <4>3. Settled(p, o)
        BY <4>1, <4>2 DEF LocksStand, Settled
      <4>4. o \in 0..Len(jobs)
        BY <2>1
      <4> QED BY <4>3, <4>4, SettledStays
    <3> QED BY <3>2, <3>3
  <2> QED BY <2>2, <2>3
<1>5. CASE DispatchStep(c) /\ ~ Fetch(c) /\ \A s \in Tokens : ~ AcquireLock(c, s)
  <2>1. pc[c] # "idle" /\ dInHand' = dInHand /\ todo' = todo
    BY <1>5, AtItsJob
  <2> QED BY <2>1, <1>1
<1> QED
  BY <1>2, <1>3, <1>4, <1>5

\* A handler that commits its job is done with all tokens of it.
LEMMA CommitsSettled ==
  ASSUME TypeInv, Done, NEW c \in PushConsumers, pc[c] # "idle", todo[c] = {}
  PROVE  dInHand[c] \in 1..Len(jobs) /\ AllSettled(dInHand[c])
<1>1. PICK o \in 1..Len(jobs) : o = dInHand[c]
  BY JobTyped
<1>2. AllSettled(o)
  BY <1>1 DEF Done, AllSettled
<1> QED
  BY <1>1, <1>2

LEMMA BehindNext ==
  ASSUME TypeInv, Marked, Behind, PosSettled, [Next]_vars
  PROVE  Behind'
<1> SUFFICES ASSUME NEW c \in PushConsumers, NEW o \in 1..Len(jobs'), o < dInHand'[c]
             PROVE  AllSettled(o)'
  BY DEF Behind
<1>t. /\ dInHand \in [PushConsumers -> Nat] /\ dPosition \in Nat /\ Len(jobs) \in Nat
      /\ dInHand[c] <= Len(jobs) /\ o \in Nat /\ o >= 1
  BY TypeParts, Lengths DEF DispatchTyped, Dispatching!GroupTypeOK
<1>1. CASE dInHand'[c] = dInHand[c]
  <2>1. o \in 1..Len(jobs)
    BY <1>1, <1>t
  <2> QED BY <1>1, <2>1, AllSettledStays DEF Behind
<1>2. CASE DispatchStep(c) /\ dInHand'[c] # dInHand[c]
  <2>1. Fetch(c) /\ dInHand[c] = 0 /\ dOwner = c /\ dPosition < Len(jobs) /\ dInHand'[c] = dPosition + 1
    BY <1>2, <1>t, AtItsJob
  <2>2. o \in 1..dPosition /\ o \in 1..Len(jobs)
    BY <2>1, <1>t
  <2>3. AllSettled(o)
    BY <2>1, <2>2, <1>t DEF PosSettled
  <2> QED BY <2>2, <2>3, AllSettledStays
<1> QED
  BY <1>1, <1>2, StaysOrSteps

\* Where the owner of the partition and its reader may be going.
LEMMA GroupSteps ==
  ASSUME TypeInv, [Next]_vars
  PROVE  \/ \E c \in PushConsumers : DispatchStep(c)
         \/ UNCHANGED <<dCommitted, dOwner, dPosition, dInHand>>
         \/ dCommitted' = dCommitted /\ dPosition' = dCommitted /\ dInHand' = dInHand
<1>1. ASSUME NEW c \in PushConsumers, Reassign(c)
      PROVE  \/ UNCHANGED <<dCommitted, dOwner, dPosition, dInHand>>
             \/ dCommitted' = dCommitted /\ dPosition' = dCommitted /\ dInHand' = dInHand
  BY <1>1 DEF Reassign, Dispatching!Rebalance, dGroup
<1> QED
  BY <1>1 DEF Next, DispatchStep, vars, dGroup, ProduceJob, RetryFallsDue, LockExpires,
     HandleRetry, FetchRetry, NotTimeYet, Requeue, CommitRetry, CrashRetry

LEMMA ComSettledNext ==
  ASSUME TypeInv, Marked, Done, Behind, ComSettled, [Next]_vars
  PROVE  ComSettled'
<1> SUFFICES ASSUME NEW o \in 1..dCommitted' PROVE AllSettled(o)'
  BY DEF ComSettled
<1>t. dCommitted \in Nat /\ dCommitted <= Len(jobs) /\ Len(jobs) \in Nat
  BY TypeParts, Lengths DEF DispatchTyped, Dispatching!GroupTypeOK
<1>1. CASE dCommitted' = dCommitted
  <2>1. o \in 1..Len(jobs)
    BY <1>1, <1>t
  <2> QED BY <1>1, <2>1, AllSettledStays DEF ComSettled
<1>2. ASSUME NEW c \in PushConsumers, pc[c] = "lock", todo[c] = {}, dCommitted' = dInHand[c]
      PROVE  AllSettled(o)'
  <2>1. dInHand[c] \in 1..Len(jobs) /\ AllSettled(dInHand[c])
    BY <1>2, CommitsSettled
  <2>2. o \in 1..Len(jobs)
    BY <1>2, <2>1, <1>t
  <2>3. o < dInHand[c] \/ o = dInHand[c]
    BY <1>2, <2>1, <1>t
  <2>4. AllSettled(o)
    BY <2>1, <2>2, <2>3 DEF Behind
  <2> QED BY <2>2, <2>4, AllSettledStays
<1>3. dCommitted' = dCommitted \/ \E c \in PushConsumers : pc[c] = "lock" /\ todo[c] = {} /\ dCommitted' = dInHand[c]
  BY GroupSteps, AtItsJob
<1> QED
  BY <1>1, <1>2, <1>3

LEMMA PosSettledNext ==
  ASSUME TypeInv, Marked, Done, ComSettled, PosSettled, [Next]_vars
  PROVE  PosSettled'
<1> SUFFICES ASSUME NEW o \in 1..dPosition', dInHand'[dOwner'] # o
             PROVE  AllSettled(o)'
  BY DEF PosSettled
<1>t. /\ dCommitted \in Nat /\ dCommitted <= Len(jobs) /\ Len(jobs) \in Nat
      /\ dPosition \in Nat /\ dPosition <= Len(jobs) /\ dOwner \in PushConsumers
      /\ dInHand \in [PushConsumers -> Nat]
  BY TypeParts, Lengths DEF DispatchTyped, Dispatching!GroupTypeOK
<1>s. ASSUME AllSettled(o), o \in 1..Len(jobs) PROVE AllSettled(o)'
  BY <1>s, AllSettledStays
<1>1. CASE dPosition' = dCommitted
  BY <1>1, <1>s, <1>t DEF ComSettled
<1>2. CASE UNCHANGED <<dOwner, dPosition, dInHand>>
  BY <1>2, <1>s, <1>t DEF PosSettled
<1>3. ASSUME NEW c \in PushConsumers, DispatchStep(c), dPosition' # dCommitted,
             ~ UNCHANGED <<dOwner, dPosition, dInHand>>
      PROVE  AllSettled(o)'
  <2>1. CASE Fetch(c)
    <3>1. /\ dInHand[c] = 0 /\ dOwner = c /\ dPosition < Len(jobs) /\ dPosition' = dPosition + 1
          /\ dInHand' = [dInHand EXCEPT ![c] = dPosition + 1] /\ dOwner' = dOwner
      BY <2>1 DEF Fetch, Dispatching!FetchMessage
    <3>2. o \in 1..dPosition /\ o # 0
      BY <3>1, <1>t
    <3> QED BY <3>1, <3>2, <1>s, <1>t DEF PosSettled
  <2>2. CASE ~ Fetch(c)
    <3>1. /\ dInHand' = [dInHand EXCEPT ![c] = 0] /\ UNCHANGED <<dOwner, dPosition>>
          /\ dOwner = c => pc[c] # "idle" /\ todo[c] = {}
      BY <2>2, <1>3, AtItsJob
    <3>2. o \in 1..dPosition /\ o \in 1..Len(jobs)
      BY <3>1, <1>t
    <3>3. CASE dInHand[dOwner] # o
      BY <3>2, <3>3, <1>s DEF PosSettled
    <3>4. CASE dInHand[dOwner] = o
      <4>1. dOwner = c
        BY <3>1, <3>4, <1>t
      <4>2. AllSettled(dInHand[c])
        BY <4>1, <3>1, CommitsSettled
      <4> QED BY <4>1, <4>2, <3>2, <3>4, <1>s
    <3> QED BY <3>3, <3>4
  <2> QED BY <2>1, <2>2
<1> QED
  BY <1>1, <1>2, <1>3, GroupSteps

\* A finite set of naturals that is not empty has a greatest member.
LEMMA LastOne ==
  ASSUME NEW n \in Nat, NEW S \in SUBSET (1..n), S # {}
  PROVE  \E q \in S : \A r \in S : r <= q
<1> DEFINE bounds == {m \in Nat : \A r \in S : r <= m}
<1> DEFINE less == OpToRel(<, Nat)
<1>1. bounds \subseteq Nat /\ bounds # {}
  <2>1. n \in bounds
    OBVIOUS
  <2> QED BY <2>1
<1>2. IsWellFoundedOn(less, Nat)
  BY NatLessThanWellFounded
<1> HIDE DEF bounds, less
<1>3. PICK q \in bounds : \A m \in bounds : ~ (<<m, q>> \in less)
  BY <1>1, <1>2, WFMin
<1>4. \A m \in bounds : ~ (m < q)
  BY <1>1, <1>3 DEF less, OpToRel
<1>5. q \in Nat /\ \A r \in S : r \in Nat /\ r >= 1 /\ r <= q
  BY DEF bounds
<1> QED
  <2>1. CASE q \in S
    BY <2>1, <1>5
  <2>2. CASE q \notin S
    <3>1. PICK s \in S : TRUE
      OBVIOUS
    <3>2. q - 1 \in Nat /\ \A r \in S : r <= q - 1
      BY <3>1, <2>2, <1>5
    <3>3. q - 1 \in bounds
      BY <3>2 DEF bounds
    <3> QED BY <3>2, <3>3, <1>4, <1>5
  <2> QED BY <2>1, <2>2

\* The last of the committed jobs about a pair speaks for all of them: a job ahead of it
\* about the pair has not been committed.
LEMMA SettledForGood == TypeInv /\ ComSettled => NoTokenForgotten
<1> SUFFICES ASSUME TypeInv, ComSettled, NEW o \in 1..dCommitted, NEW p \in Pairs, Carries(jobs[o], p)
             PROVE  \/ delivered[p] > 0
                    \/ p \in exhausted \cup excused
                    \/ \E c \in PushConsumers : p \in InProgress(c)
                    \/ \E i \in 1..Len(retries) \ requeued : Carries(retries[i], p)
                    \/ \E q \in (dCommitted + 1)..Len(jobs) : Carries(jobs[q], p)
  BY DEF NoTokenForgotten
<1>t. dCommitted \in Nat /\ dCommitted <= Len(jobs) /\ Len(jobs) \in Nat
  BY TypeParts, Lengths DEF DispatchTyped, Dispatching!GroupTypeOK
<1> DEFINE about == {q \in 1..dCommitted : Carries(jobs[q], p)}
<1>1. about \in SUBSET (1..dCommitted) /\ about # {}
  OBVIOUS
<1>2. PICK last \in about : \A q \in about : q <= last
  <2> HIDE DEF about
  <2> QED BY <1>1, <1>t, LastOne
<1>3. Settled(p, last)
  BY <1>2 DEF ComSettled, AllSettled
<1>4. ASSUME NEW q \in 1..Len(jobs), q > last, Carries(jobs[q], p)
      PROVE  q \in (dCommitted + 1)..Len(jobs)
  <2>1. q \notin about
    BY <1>2, <1>4, <1>t
  <2> QED BY <2>1, <1>4, <1>t
<1>5. ASSUME NEW c \in PushConsumers, Holds(c, p, Trying) PROVE p \in InProgress(c)
  BY <1>5 DEF Holds, Trying, Active, InProgress
<1> QED
  BY <1>3, <1>4, <1>5 DEF Settled

LEMMA SettleInit == Init => SettleInv
<1> SUFFICES ASSUME Init PROVE SettleInv
  OBVIOUS
<1>1. /\ locks = {} /\ dCommitted = 0 /\ dPosition = 0 /\ jobs = <<>>
      /\ \A c \in PushConsumers : pc[c] = "idle"
  BY DEF Init, Dispatching!GroupInit
<1>2. LocksStand /\ Marked /\ Done
  BY <1>1 DEF LocksStand, Marked, Done
<1>3. Behind /\ ComSettled /\ PosSettled
  BY <1>1 DEF Behind, ComSettled, PosSettled
<1> QED
  BY <1>2, <1>3 DEF SettleInv

LEMMA SettleNext == TypeInv /\ SettleInv /\ [Next]_vars => SettleInv'
BY MarkedNext, LocksStandNext, DoneNext, BehindNext, ComSettledNext, PosSettledNext DEF SettleInv

\* Handle returns nil whatever became of its tokens, and yet no token of a committed job is
\* forgotten: it was delivered, is being tried, has a message of its own left in one of the
\* two topics, was given up after the last retry, or fell to a crash or a failed call.
THEOREM NoPushForgotten == Spec => []NoTokenForgotten
<1>1. SettleInv => ComSettled
  BY DEF SettleInv
<1> QED
  BY <1>1, TypeInit, TypeNext, SettleInit, SettleNext, SettledForGood, PTL DEF Spec

-----------------------------------------------------------------------------
(* Nothing is pushed that was not produced.                                *)

\* A batch puts nothing into a topic but its job.
LEMMA WriteAdds ==
  ASSUME NEW log \in Seq(Job), NEW job \in Job, NEW after \in Write(log, job),
         NEW o \in 1..Len(after)
  PROVE  after[o] = job \/ (o \in 1..Len(log) /\ after[o] = log[o])
<1>1. CASE after = Append(log, job)
  BY <1>1
<1>2. CASE after = log \o <<job, job>>
  <2>1. <<job, job>> \in Seq(Job) /\ Len(<<job, job>>) = 2
        /\ \A i \in 1..2 : <<job, job>>[i] = job
    OBVIOUS
  <2>2. Len(log) \in Nat /\ o \in 1..Len(log) + 2
        /\ after[o] = IF o <= Len(log) THEN log[o] ELSE <<job, job>>[o - Len(log)]
    BY <1>2, <2>1, ConcatProperties, LenProperties
  <2>3. CASE o <= Len(log)
    BY <2>2, <2>3
  <2>4. CASE ~ (o <= Len(log))
    <3>1. o - Len(log) \in 1..2
      BY <2>2, <2>4
    <3> QED BY <2>1, <2>2, <2>4, <3>1
  <2> QED BY <2>3, <2>4
<1>3. CASE after = log
  BY <1>3
<1> QED
  BY <1>1, <1>2, <1>3 DEF Write

\* Both topics hold jobs of produced events only, and only these reach a device.
OnlyProduced ==
  /\ \A o \in 1..Len(jobs) : jobs[o].event \in produced
  /\ \A i \in 1..Len(retries) : retries[i].event \in produced
  /\ \A p \in Pairs : delivered[p] > 0 => p[1] \in produced

LEMMA OnlyProducedNext == TypeInv /\ OnlyProduced /\ [Next]_vars => OnlyProduced'
<1> SUFFICES ASSUME TypeInv, OnlyProduced, [Next]_vars PROVE OnlyProduced'
  OBVIOUS
<1>t. jobs \in Seq(Job) /\ retries \in Seq(Job) /\ delivered \in [Pairs -> Nat]
  BY DEF TypeInv, TypeOK
<1> USE DEF Handling, Goto, history
<1>1. ASSUME NEW e \in Events, ProduceJob(e) PROVE OnlyProduced'
  <2> DEFINE job == [event |-> e, tokens |-> Tokens, retry |-> 0]
  <2>1. job \in Job /\ job.event = e /\ jobs' \in Write(jobs, job)
    BY <1>1, PushAssumption DEF Job, ProduceJob
  <2>2. produced' = produced \cup {e} /\ UNCHANGED <<retries, delivered>>
    BY <1>1 DEF ProduceJob
  <2> HIDE DEF job
  <2>3. \A o \in 1..Len(jobs') : jobs'[o].event \in produced'
    BY <1>t, <2>1, <2>2, WriteAdds DEF OnlyProduced
  <2> QED BY <2>2, <2>3 DEF OnlyProduced
<1>2. ASSUME NEW c \in PushConsumers, Requeue(c) PROVE OnlyProduced'
  <2>1. rInHand[c] \in 1..Len(retries)
    BY <1>2, Lengths DEF Requeue, TypeInv, TypeOK
  <2>2. retries[rInHand[c]] \in Job /\ retries[rInHand[c]].event \in produced
    BY <2>1, RetryTyped DEF OnlyProduced
  <2>3. jobs' \in Write(jobs, retries[rInHand[c]])
        /\ UNCHANGED <<retries, delivered, produced>>
    BY <1>2 DEF Requeue
  <2> DEFINE job == retries[rInHand[c]]
  <2> HIDE DEF job
  <2>4. \A o \in 1..Len(jobs') : jobs'[o] = job \/ (o \in 1..Len(jobs) /\ jobs'[o] = jobs[o])
    BY <1>t, <2>2, <2>3, WriteAdds DEF job
  <2>5. \A o \in 1..Len(jobs') : jobs'[o].event \in produced'
    BY <2>2, <2>3, <2>4 DEF OnlyProduced, job
  <2> QED BY <2>3, <2>5 DEF OnlyProduced
<1>3. ASSUME NEW c \in PushConsumers, QueueRetry(c) PROVE OnlyProduced'
  <2>1. UNCHANGED <<jobs, delivered, produced>>
    BY <1>3 DEF QueueRetry
  <2>2. dInHand[c] \in 1..Len(jobs) /\ (TheJob(c).retry < MaxRetries => Retry(c) \in Job)
    BY <1>3, JobTyped DEF QueueRetry
  <2>3. Retry(c).event \in produced
    BY <2>2 DEF Retry, TheJob, OnlyProduced
  <2>4. \A i \in 1..Len(retries') : retries'[i].event \in produced'
    <3>1. CASE TheJob(c).retry < MaxRetries
      <4>1. Retry(c) \in Job /\ retries' \in Write(retries, Retry(c))
        BY <1>3, <2>2, <3>1 DEF QueueRetry
      <4> QED BY <1>t, <2>1, <2>3, <4>1, WriteAdds DEF OnlyProduced
    <3>2. CASE ~ (TheJob(c).retry < MaxRetries)
      BY <1>3, <2>1, <3>2 DEF QueueRetry, OnlyProduced
    <3> QED BY <3>1, <3>2
  <2> QED BY <2>1, <2>4 DEF OnlyProduced
<1>4. ASSUME NEW c \in PushConsumers, SendSucceeds(c) PROVE OnlyProduced'
  <2>1. UNCHANGED <<jobs, retries, produced>> /\ delivered' = [delivered EXCEPT ![Pair(c)] = @ + 1]
    BY <1>4 DEF SendSucceeds
  <2>2. dInHand[c] \in 1..Len(jobs) /\ Pair(c) \in Pairs
    BY <1>4, JobTyped DEF SendSucceeds
  <2>3. Pair(c)[1] \in produced
    BY <2>2 DEF Pair, TheJob, OnlyProduced
  <2>4. \A p \in Pairs : delivered'[p] > 0 => p[1] \in produced
    BY <1>t, <2>1, <2>3 DEF OnlyProduced
  <2> QED BY <2>1, <2>4 DEF OnlyProduced
<1>5. UNCHANGED <<jobs, retries, produced, delivered>> => OnlyProduced'
  BY DEF OnlyProduced
<1>6. ASSUME NEW c \in PushConsumers, Fetch(c) \/ SendFails(c) \/ MarkDelivered(c) \/ ReleaseLock(c)
                                       \/ Commit(c) \/ FetchRetry(c) \/ NotTimeYet(c) \/ CommitRetry(c)
                                       \/ CrashDispatch(c) \/ CrashRetry(c) \/ Reassign(c)
      PROVE  UNCHANGED <<jobs, retries, produced, delivered>>
  BY <1>6 DEF Fetch, SendFails, MarkDelivered, ReleaseLock, Commit, FetchRetry, NotTimeYet,
     CommitRetry, CrashDispatch, CrashRetry, Reassign
<1>7. ASSUME NEW c \in PushConsumers, NEW t \in Tokens, AcquireLock(c, t)
      PROVE  UNCHANGED <<jobs, retries, produced, delivered>>
  BY <1>7 DEF AcquireLock
<1>8. RetryFallsDue \/ (\E p \in Pairs : LockExpires(p)) \/ UNCHANGED vars
      => UNCHANGED <<jobs, retries, produced, delivered>>
  BY DEF RetryFallsDue, LockExpires, vars
<1> QED
  BY <1>1, <1>2, <1>3, <1>4, <1>5, <1>6, <1>7, <1>8 DEF Next, Handle, HandleRetry

\* Both topics hold jobs of events the persister produced one for, and no device shows
\* any other.
THEOREM OnlyProducedIsPushed == Spec => []OnlyProduced
<1>1. Init => OnlyProduced
  BY DEF Init, OnlyProduced
<1> QED
  BY <1>1, TypeInit, TypeNext, OnlyProducedNext, PTL DEF Spec

-----------------------------------------------------------------------------
(* PushDelivery implements DeviceChannel.                                  *)

Counted == [p \in Pairs |-> IF p \in unguarded THEN 0 ELSE delivered[p]]

LEMMA ChannelRefined ==
  TypeInv /\ OneHolder /\ OnlyProduced /\ [Next]_vars => [Channel!Next]_(Channel!channelVars)
<1> SUFFICES ASSUME TypeInv, OneHolder, OnlyProduced, [Next]_vars
             PROVE  Channel!Next \/ UNCHANGED <<produced, Counted, unguarded>>
  BY DEF Channel!channelVars, Counted
<1>t. delivered \in [Pairs -> Nat] /\ unguarded \subseteq Pairs
  BY DEF TypeInv, TypeOK
<1> USE DEF Handling, history
<1>1. UNCHANGED <<delivered, unguarded>> => UNCHANGED Counted
  BY DEF Counted
\* Who waives a pair no longer counts what was delivered to it.
<1>2. ASSUME NEW e \in Events, NEW t \in Tokens, unguarded' = unguarded \cup {<<e, t>>},
             UNCHANGED <<produced, delivered>>
      PROVE  Channel!Next
  <2>1. Counted' = [Counted EXCEPT ![<<e, t>>] = 0]
    <3>1. \A p \in Pairs : Counted'[p] = IF p = <<e, t>> THEN 0 ELSE Counted[p]
      BY <1>2 DEF Counted
    <3> QED BY <3>1 DEF Counted
  <2> QED BY <1>2, <2>1 DEF Counted, Channel!Next, Channel!Waive
<1>3. ASSUME NEW e \in Events, ProduceJob(e) PROVE Channel!Next
  BY <1>1, <1>3 DEF ProduceJob, Counted, Channel!Next, Channel!Produce
<1>4. ASSUME NEW p \in Pairs, LockExpires(p) PROVE Channel!Next
  <2>1. PICK e \in Events, t \in Tokens : p = <<e, t>>
    BY DEF Pairs
  <2> QED BY <1>2, <1>4, <2>1 DEF LockExpires
<1>5. ASSUME NEW c \in PushConsumers, NEW t \in Tokens, AcquireLock(c, t)
      PROVE  Channel!Next \/ UNCHANGED <<produced, delivered, unguarded>>
  <2>1. TheJob(c).event \in Events
    BY <1>5, JobTyped DEF AcquireLock
  <2>2. UNCHANGED <<produced, delivered>>
        /\ unguarded' \in {unguarded, unguarded \cup {<<TheJob(c).event, t>>}}
    BY <1>5 DEF AcquireLock
  <2> QED BY <1>2, <2>1, <2>2
\* An acknowledged send is the first, by OneHolder, and of an event that was produced.
<1>6. ASSUME NEW c \in PushConsumers, SendSucceeds(c)
      PROVE  Channel!Next \/ UNCHANGED <<produced, Counted, unguarded>>
  <2>1. /\ UNCHANGED <<produced, unguarded>> /\ pc[c] = "send"
        /\ delivered' = [delivered EXCEPT ![Pair(c)] = @ + 1]
    BY <1>6 DEF SendSucceeds
  <2>2. dInHand[c] \in 1..Len(jobs) /\ Pair(c) \in Pairs /\ TheJob(c).event \in Events
    BY <2>1, JobTyped
  <2>3. PICK e \in Events, t \in Tokens : Pair(c) = <<e, t>> /\ e = TheJob(c).event
    BY <2>2 DEF Pair, Pairs
  <2>4. CASE Pair(c) \in unguarded
    <3>1. \A p \in Pairs : p \notin unguarded => delivered'[p] = delivered[p]
      BY <1>t, <2>1, <2>2, <2>4
    <3> QED BY <2>1, <3>1 DEF Counted
  <2>5. CASE Pair(c) \notin unguarded
    <3>1. e \in produced
      BY <2>2, <2>3 DEF TheJob, OnlyProduced
    <3>2. delivered[Pair(c)] = 0
      <4>1. Guarded(Pair(c)) /\ Holds(c, Pair(c), {"send", "release"})
        BY <2>1, <2>2, <2>5 DEF OneHolder, Holds
      <4>2. ~ (delivered[Pair(c)] > 0)
        BY <4>1 DEF Guarded
      <4>3. delivered[Pair(c)] \in Nat
        BY <1>t, <2>2
      <4> QED BY <4>2, <4>3
    <3>3. \A p \in Pairs : delivered'[p] = IF p = Pair(c) THEN 1 ELSE delivered[p]
      BY <1>t, <2>1, <2>2, <3>2
    <3>4. \A p \in Pairs : Counted'[p] = IF p = <<e, t>> THEN 1 ELSE Counted[p]
      BY <2>1, <2>3, <2>5, <3>3 DEF Counted
    <3>5. Counted' = [Counted EXCEPT ![<<e, t>>] = 1]
      BY <3>4 DEF Counted
    <3>6. Counted[<<e, t>>] = 0
      BY <2>2, <2>3, <2>5, <3>2 DEF Counted
    <3>7. Channel!Deliver(e, t)
      BY <2>1, <2>3, <2>5, <3>1, <3>5, <3>6 DEF Counted, Channel!Deliver
    <3> QED BY <3>7 DEF Channel!Next
  <2> QED BY <2>4, <2>5
<1>7. ASSUME NEW c \in PushConsumers, Fetch(c) \/ SendFails(c) \/ MarkDelivered(c) \/ ReleaseLock(c)
                                       \/ QueueRetry(c) \/ Commit(c) \/ FetchRetry(c) \/ NotTimeYet(c)
                                       \/ Requeue(c) \/ CommitRetry(c) \/ CrashDispatch(c)
                                       \/ CrashRetry(c) \/ Reassign(c)
      PROVE  UNCHANGED <<produced, delivered, unguarded>>
  BY <1>7 DEF Fetch, SendFails, MarkDelivered, ReleaseLock, QueueRetry, Commit, FetchRetry,
     NotTimeYet, Requeue, CommitRetry, CrashDispatch, CrashRetry, Reassign
<1>8. RetryFallsDue \/ UNCHANGED vars => UNCHANGED <<produced, delivered, unguarded>>
  BY DEF RetryFallsDue, vars
<1> QED
  BY <1>1, <1>3, <1>4, <1>5, <1>6, <1>7, <1>8 DEF Next, Handle, HandleRetry

\* The two topics and their handlers implement DeviceChannel: what the push service
\* acknowledges to a device was produced and is acknowledged once, under every fault,
\* as long as Redis keeps the key of the pair.
THEOREM PushIsAChannel == Spec => OnceToDevice
<1>1. Init => OneHolder /\ OnlyProduced /\ Channel!Init
  <2> SUFFICES ASSUME Init PROVE OneHolder /\ OnlyProduced /\ Channel!Init
    OBVIOUS
  <2>1. OneHolder
    <3> SUFFICES ASSUME NEW p \in Pairs PROVE Guarded(p)
      BY DEF OneHolder
    <3>1. delivered[p] = 0 /\ \A c \in PushConsumers : pc[c] = "idle"
      BY DEF Init
    <3> QED BY <3>1 DEF Guarded, Holds, Active
  <2>2. Channel!Init
    BY DEF Init, Channel!Init, Pairs
  <2>3. OnlyProduced
    BY DEF Init, OnlyProduced
  <2> QED BY <2>1, <2>2, <2>3
<1> QED
  BY <1>1, TypeInit, TypeNext, OneHolderNext, OnlyProducedNext, ChannelRefined, PTL
     DEF Spec, OnceToDevice, Channel!Spec
=============================================================================
