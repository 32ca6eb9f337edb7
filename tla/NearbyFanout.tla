---------------------------- MODULE NearbyFanout ----------------------------
(***************************************************************************)
(* "New post nearby": the subscriptions to cells of the map                *)
(* (internal/data/location_follow_query.go, internal/handlers/location.go) *)
(* and NearbyFanoutHandler.Handle                                          *)
(* (internal/notifications/kafka/consumer_nearby.go), which turns the job  *)
(* of a new post into an event for everybody who follows its cell or one   *)
(* of the eight around it.                                                 *)
(*                                                                         *)
(* The handler reads one cell after the other, while people follow and     *)
(* unfollow; each event gets a new id, so that a job which is handled      *)
(* twice makes events the persister cannot recognise.                      *)
(***************************************************************************)
EXTENDS ConsumerGroup, Sequences

CONSTANTS
  People,        \* who may follow cells
  Author,        \* of all the posts
  CellCount,     \* the cell of the post and its neighbours, in the order read
  Jobs,          \* fan-out jobs, one for each post
  FanoutFaults,  \* the faults of the environment, a subset of FanoutFaultKinds
  MaxMoves       \* bound on follows and unfollows

FanoutFaultKinds == {"lose", "dup", "cassandra", "crash", "rebalance", "commit"}

ASSUME FanoutAssumption ==
  /\ Author \in People
  /\ CellCount \in Nat \ {0}
  /\ FanoutFaults \subseteq FanoutFaultKinds
  /\ MaxMoves \in Nat

VARIABLES
  subscribed,  \* the rows of location_follows: a person and a cell
  moves,       \* follows and unfollows so far
  jobLog,      \* the partition of notification.nearby.fanout
  posted,      \* jobs given to the producer
  cell,        \* the next cell the handler of a process reads
  toTell,      \* those of the last read it has still to tell
  seen,        \* notifiedUsers
  told,        \* events produced for a person about a job
  handled,     \* history: how often a job has been handled
  steady,      \* history: subscriptions that have stood since the handler began
  passedOver,  \* history: the handler has failed to read a cell
  lost,        \* history: events the writer has lost
  promised     \* history: whom a handler that saw everything had to tell

handling == <<cell, toTell, seen, steady, passedOver>>
fanoutVars == <<groupVars, subscribed, moves, jobLog, posted, handling, told,
                handled, lost, promised>>

Cells == 1..CellCount
Subscriptions == People \X Cells

FanoutTypeOK ==
  /\ GroupTypeOK
  /\ subscribed \subseteq Subscriptions /\ moves \in 0..MaxMoves
  /\ jobLog \in Seq(Jobs) /\ posted \subseteq Jobs
  /\ cell \in [Consumers -> 1..(CellCount + 1)]
  /\ toTell \in [Consumers -> SUBSET People] /\ seen \in [Consumers -> SUBSET People]
  /\ \A c \in Consumers : toTell[c] \cap seen[c] = {}
  /\ told \in [Jobs \X People -> Nat] /\ handled \in [Jobs -> Nat]
  /\ steady \in [Consumers -> SUBSET Subscriptions]
  /\ passedOver \in [Consumers -> BOOLEAN]
  /\ lost \subseteq Jobs \X People /\ promised \subseteq Jobs \X People

\* Nothing is in hand; subscriptions are as they may be.
FanoutInit ==
  /\ GroupInit
  /\ subscribed \in SUBSET Subscriptions /\ moves = 0
  /\ jobLog = <<>> /\ posted = {}
  /\ cell = [c \in Consumers |-> 1]
  /\ toTell = [c \in Consumers |-> {}] /\ seen = [c \in Consumers |-> {}]
  /\ told = [jp \in Jobs \X People |-> 0] /\ handled = [j \in Jobs |-> 0]
  /\ steady = [c \in Consumers |-> {}]
  /\ passedOver = [c \in Consumers |-> FALSE]
  /\ lost = {} /\ promised = {}

-----------------------------------------------------------------------------

\* FollowLocation and UnfollowLocation: one write of one row, as often as it likes.
ChangeSubscription(p, k) ==
  /\ moves < MaxMoves
  /\ moves' = moves + 1
  /\ subscribed' = IF <<p, k>> \in subscribed THEN subscribed \ {<<p, k>>}
                   ELSE subscribed \cup {<<p, k>>}
  /\ steady' = [c \in Consumers |-> steady[c] \cap subscribed']
  /\ UNCHANGED <<groupVars, jobLog, posted, cell, toTell, seen, passedOver, told,
                 handled, lost, promised>>

\* CreatePost starts DispatchNearbyFanout and forgets it; the writer waits for the
\* acknowledgement and writes again when it does not come.
DispatchNearbyFanout(j) ==
  /\ j \notin posted
  /\ posted' = posted \cup {j}
  /\ \/ jobLog' = Append(jobLog, j)
     \/ "dup" \in FanoutFaults /\ jobLog' = jobLog \o <<j, j>>
     \/ "lose" \in FanoutFaults /\ UNCHANGED jobLog
  /\ UNCHANGED <<groupVars, subscribed, moves, handling, told, handled, lost,
                 promised>>

-----------------------------------------------------------------------------
(* NearbyFanoutHandler.Handle in process c.                                *)

Job(c) == jobLog[inHand[c]]
Works(c) == inHand[c] # 0

\* What a handler knows ends with it.
Forgets(c) ==
  /\ cell' = [cell EXCEPT ![c] = 1]
  /\ toTell' = [toTell EXCEPT ![c] = {}] /\ seen' = [seen EXCEPT ![c] = {}]
  /\ steady' = [steady EXCEPT ![c] = {}]
  /\ passedOver' = [passedOver EXCEPT ![c] = FALSE]

FetchJob(c) ==
  /\ FetchMessage(c, Len(jobLog))
  /\ seen' = [seen EXCEPT ![c] = {Author}]
  /\ steady' = [steady EXCEPT ![c] = subscribed]
  /\ handled' = [handled EXCEPT ![jobLog[position + 1]] = @ + 1]
  /\ UNCHANGED <<subscribed, moves, jobLog, posted, cell, toTell, passedOver, told,
                 lost, promised>>

\* Mutant of ReadCell: whoever has been told is told again.
ReadCellAgain(c) ==
  /\ Works(c) /\ toTell[c] = {} /\ cell[c] \in Cells
  /\ cell' = [cell EXCEPT ![c] = @ + 1]
  /\ toTell' = [toTell EXCEPT ![c] = {p \in People : <<p, cell[c]>> \in subscribed}]
  /\ UNCHANGED <<groupVars, subscribed, moves, jobLog, posted, seen, steady,
                 passedOver, told, handled, lost, promised>>

\* GetUsersFollowingLocation for the next cell.
ReadCell(c) ==
  /\ Works(c) /\ toTell[c] = {} /\ cell[c] \in Cells
  /\ cell' = [cell EXCEPT ![c] = @ + 1]
  /\ toTell' =
       [toTell EXCEPT ![c] = {p \in People : <<p, cell[c]>> \in subscribed} \ seen[c]]
  /\ UNCHANGED <<groupVars, subscribed, moves, jobLog, posted, seen, steady,
                 passedOver, told, handled, lost, promised>>

\* Its error is logged, and the next cell read.
ReadCellFails(c) ==
  /\ "cassandra" \in FanoutFaults
  /\ Works(c) /\ toTell[c] = {} /\ cell[c] \in Cells
  /\ cell' = [cell EXCEPT ![c] = @ + 1]
  /\ passedOver' = [passedOver EXCEPT ![c] = TRUE]
  /\ UNCHANGED <<groupVars, subscribed, moves, jobLog, posted, toTell, seen, steady,
                 told, handled, lost, promised>>

\* An event for one of them, with an id of its own; an error is logged.
Tell(c, p) ==
  /\ Works(c) /\ p \in toTell[c]
  /\ toTell' = [toTell EXCEPT ![c] = @ \ {p}]
  /\ seen' = [seen EXCEPT ![c] = @ \cup {p}]
  /\ \/ told' = [told EXCEPT ![<<Job(c), p>>] = @ + 1] /\ UNCHANGED lost
     \/ "lose" \in FanoutFaults /\ lost' = lost \cup {<<Job(c), p>>} /\ UNCHANGED told
  /\ UNCHANGED <<groupVars, subscribed, moves, jobLog, posted, cell, steady,
                 passedOver, handled, promised>>

\* return nil, whatever has failed; the loop commits.
FinishJob(c) ==
  /\ Works(c) /\ toTell[c] = {} /\ cell[c] = CellCount + 1
  /\ CommitMessages(c) /\ Forgets(c)
  /\ "commit" \in FanoutFaults \/ UNCHANGED disruptions
  /\ promised' = IF passedOver[c] THEN promised
             ELSE promised \cup {<<Job(c), p>> : p \in {s[1] : s \in steady[c]} \ {Author}}
  /\ UNCHANGED <<subscribed, moves, jobLog, posted, told, handled, lost>>

CrashInJob(c) ==
  /\ "crash" \in FanoutFaults
  /\ Crash(c) /\ Forgets(c)
  /\ UNCHANGED <<subscribed, moves, jobLog, posted, told, handled, lost, promised>>

ReassignJobs(c) ==
  /\ "rebalance" \in FanoutFaults
  /\ Rebalance(c)
  /\ UNCHANGED <<subscribed, moves, jobLog, posted, handling, told, handled, lost,
                 promised>>

FanoutNext ==
  \/ \E p \in People, k \in Cells : ChangeSubscription(p, k)
  \/ \E j \in Jobs : DispatchNearbyFanout(j)
  \/ \E c \in Consumers :
       \/ FetchJob(c) \/ ReadCell(c) \/ ReadCellFails(c) \/ FinishJob(c)
       \/ CrashInJob(c) \/ ReassignJobs(c)
       \/ \E p \in People : Tell(c, p)

FanoutSpec == FanoutInit /\ [][FanoutNext]_fanoutVars

-----------------------------------------------------------------------------
(* Properties.                                                             *)

\* However many of the nine cells a person follows, and however they come and go
\* while the handler reads, one handling tells nobody twice, and the author never
\* ("Don't notify the author", consumer_nearby.go:43); a job has as many events
\* for a person as it has been handled, so one unless it is delivered again.  And
\* a handling that could read every cell has told everybody who followed one of
\* them throughout, but for what the writer has lost.
FanoutReachesEachOnce ==
  /\ \A j \in Jobs : told[<<j, Author>>] = 0
  /\ \A j \in Jobs, p \in People : told[<<j, p>>] <= handled[j]
  /\ \A jp \in promised \ lost : told[jp] > 0
=============================================================================
