-------------------------- MODULE PersisterProofs --------------------------
(***************************************************************************)
(* Proofs about Persister, for any events, any finite set of processes,    *)
(* any number of crashes and rebalances and every set of faults: type      *)
(* correctness, one row for an event, nothing announced without its row,   *)
(* silence under a block, and the refinement of NotificationFate; and      *)
(* about Pipeline: each side keeps its specification, and what the two     *)
(* guarantee together.                                                     *)
(***************************************************************************)
EXTENDS Pipeline, FiniteSetTheorems, SequenceTheorems, TLAPS

-----------------------------------------------------------------------------
(* The invariant.                                                          *)

\* The reader and the handlers are within the partition, which holds events that
\* were produced.
WithinLog ==
  /\ committed <= Len(log) /\ position <= Len(log)
  /\ \A c \in Consumers : inHand[c] <= Len(log)
  /\ \A o \in 1..Len(log) : log[o] \in emitted

\* The handler of c is at one of the labels, with event e.
Holds(c, e, labels) == pc[c] \in labels /\ Event(c) = e

\* Between its claim and its row: who passed the claim of an event that
\* Redis has not forgotten is the only one, and the row is still to come.
OneClaim ==
  \A e \in Events \ unguarded :
    /\ rows[e] > 0 => e \in claimed
    /\ \A c \in Consumers : Holds(c, e, {"blocks", "insert"}) =>
         /\ e \in claimed /\ rows[e] = 0
         /\ \A d \in Consumers : Holds(d, e, {"blocks", "insert"}) => d = c

\* The handlers that have inserted a row for e and are still to announce it.
Announcing(e, labels) == {c \in Consumers : Holds(c, e, labels)}

\* Every row pays for one live message and one push job, sent or to come.
RowsPay ==
  \A e \in Events :
    /\ live[e] + Cardinality(Announcing(e, {"incr", "publish"})) <= rows[e]
    /\ pushJobs[e] + Cardinality(Announcing(e, {"incr", "publish", "push"})) <= rows[e]

\* An event that is covered by a block comes in under that block.
BlockHolds ==
  /\ covered # {} => blocked
  /\ covered \subseteq emitted
  /\ \A e \in Events \ emitted : rows[e] = 0
  /\ \A e \in covered \ unchecked :
       /\ rows[e] = 0
       /\ \A c \in Consumers : ~Holds(c, e, {"insert", "incr", "publish", "push"})

-----------------------------------------------------------------------------
(* Type correctness.                                                       *)

TypeInv == TypeOK /\ WithinLog

\* The producer writes behind what is there, and nothing but the event.
LEMMA LogGrows ==
  ASSUME log \in Seq(Events), NEW e \in Events, Dispatch(e)
  PROVE  /\ log' \in Seq(Events) /\ Len(log) <= Len(log')
         /\ \A o \in 1..Len(log) : log'[o] = log[o]
         /\ \A o \in 1..Len(log') : o <= Len(log) \/ log'[o] = e
<1>1. CASE log' = Append(log, e)
  BY <1>1
<1>2. CASE log' = log \o <<e, e>>
  <2>1. <<e, e>> \in Seq(Events) /\ Len(<<e, e>>) = 2
    OBVIOUS
  <2>2. log' \in Seq(Events) /\ Len(log') = Len(log) + 2
        /\ \A i \in 1..Len(log) + 2 :
             log'[i] = IF i <= Len(log) THEN log[i] ELSE <<e, e>>[i - Len(log)]
    BY <1>2, <2>1, ConcatProperties
  <2>3. Len(log) \in Nat
    BY LenProperties
  <2>4. \A i \in 1..Len(log) + 2 : i <= Len(log) \/ i - Len(log) \in 1..2
    BY <2>3
  <2> QED BY <2>1, <2>2, <2>3, <2>4
<1>3. CASE log' = log
  BY <1>3, LenProperties
<1> QED
  BY <1>1, <1>2, <1>3 DEF Dispatch

\* The event a handler is at has been produced.
LEMMA EventTyped ==
  ASSUME TypeInv, NEW c \in Consumers, pc[c] # "idle"
  PROVE  Event(c) \in Events /\ Event(c) \in emitted
<1>1. Len(log) \in Nat
  BY LenProperties DEF TypeInv, TypeOK
<1>2. inHand[c] \in 1..Len(log)
  BY <1>1 DEF TypeInv, TypeOK, GroupTypeOK, WithinLog
<1> QED
  BY <1>2 DEF TypeInv, TypeOK, WithinLog, Event

\* The types, by what they are about: the partition, the handlers, the events.
LogTyped == GroupTypeOK /\ log \in Seq(Events) /\ emitted \subseteq Events /\ WithinLog
HandlersTyped ==
  /\ pc \in [Consumers -> Labels \cup {"idle"}]
  /\ \A c \in Consumers : pc[c] = "idle" <=> inHand[c] = 0
EventsTyped ==
  /\ claimed \subseteq Events /\ covered \subseteq Events /\ suppressed \subseteq Events
  /\ interrupted \subseteq Events /\ unguarded \subseteq Events /\ unchecked \subseteq Events
  /\ blocked \in BOOLEAN
CountsTyped == rows \in [Events -> Nat] /\ live \in [Events -> Nat] /\ pushJobs \in [Events -> Nat]

LEMMA TypeParts == TypeInv <=> LogTyped /\ HandlersTyped /\ EventsTyped /\ CountsTyped
BY DEF TypeInv, TypeOK, LogTyped, HandlersTyped, EventsTyped, CountsTyped

LEMMA TypePartsNext == TypeInv' <=> LogTyped' /\ HandlersTyped' /\ EventsTyped' /\ CountsTyped'
BY TypeParts, PTL

\* Every step of the producer, the handlers and the faults keeps the types, and
\* nobody reads past the end of the partition.
LEMMA TypeNext == TypeInv /\ [Next]_vars => TypeInv'
<1> SUFFICES ASSUME TypeInv, [Next]_vars
             PROVE  LogTyped' /\ HandlersTyped' /\ EventsTyped' /\ CountsTyped'
  BY TypePartsNext
<1>t. LogTyped /\ HandlersTyped /\ EventsTyped /\ CountsTyped
  BY TypeParts
<1>n. Len(log) \in Nat
  BY <1>t, LenProperties DEF LogTyped
<1> USE DEF Goto, Handling, groupVars, handlerVars
\* What most steps leave alone.
<1>l. UNCHANGED <<groupVars, log, emitted>> => LogTyped'
  BY <1>t DEF LogTyped, GroupTypeOK, WithinLog
<1>h. UNCHANGED <<pc, inHand>> => HandlersTyped'
  BY <1>t DEF HandlersTyped
<1>s. UNCHANGED <<claimed, covered, suppressed, interrupted, unguarded, unchecked, blocked>>
        => EventsTyped'
  BY <1>t DEF EventsTyped
<1>c. UNCHANGED <<rows, live, pushJobs>> => CountsTyped'
  BY <1>t DEF CountsTyped
\* A handler moves on with its event.
<1>m. ASSUME NEW c \in Consumers, pc[c] # "idle", NEW label \in Labels,
             pc' = [pc EXCEPT ![c] = label], inHand' = inHand
      PROVE  HandlersTyped'
  BY <1>m, <1>t DEF HandlersTyped, Labels
<1>1. ASSUME NEW e \in Events, Dispatch(e)
      PROVE  LogTyped' /\ HandlersTyped' /\ EventsTyped' /\ CountsTyped'
  <2>1. /\ log' \in Seq(Events) /\ Len(log) <= Len(log')
        /\ \A o \in 1..Len(log) : log'[o] = log[o]
        /\ \A o \in 1..Len(log') : o <= Len(log) \/ log'[o] = e
    BY <1>1, <1>t, LogGrows DEF LogTyped
  <2>2. Len(log') \in Nat
    BY <2>1, LenProperties
  <2>3. /\ emitted' = emitted \cup {e} /\ covered' \subseteq covered \cup {e}
        /\ UNCHANGED <<groupVars, blocked, pc, handlerVars, interrupted>>
    BY <1>1 DEF Dispatch
  <2>4. \A o \in 1..Len(log') : log'[o] \in emitted'
    <3> TAKE o \in 1..Len(log')
    <3>1. CASE o <= Len(log)
      <4>1. o \in 1..Len(log)
        BY <1>n, <2>2, <3>1
      <4>2. log[o] \in emitted
        BY <4>1, <1>t DEF LogTyped, WithinLog
      <4> QED BY <2>1, <2>3, <4>1, <4>2
    <3>2. CASE log'[o] = e
      BY <2>3, <3>2
    <3> QED BY <2>1, <3>1, <3>2
  <2>5. LogTyped'
    <3>1. /\ committed' <= Len(log') /\ position' <= Len(log')
          /\ \A c \in Consumers : inHand'[c] <= Len(log')
      BY <1>t, <1>n, <2>1, <2>2, <2>3 DEF LogTyped, WithinLog, GroupTypeOK
    <3>2. GroupTypeOK'
      BY <1>t, <2>3 DEF LogTyped, GroupTypeOK
    <3> QED BY <1>t, <2>1, <2>3, <2>4, <3>1, <3>2 DEF LogTyped, WithinLog
  <2>6. EventsTyped'
    BY <1>t, <2>3 DEF EventsTyped
  <2> QED BY <2>3, <2>5, <2>6, <1>h, <1>c
<1>2. ASSUME NEW e \in Events, DedupeExpires(e)
      PROVE  LogTyped' /\ HandlersTyped' /\ EventsTyped' /\ CountsTyped'
  <2>1. EventsTyped'
    BY <1>2, <1>t DEF DedupeExpires, EventsTyped
  <2> QED BY <1>2, <2>1, <1>l, <1>h, <1>c DEF DedupeExpires
<1>3. CASE BlockUser \/ UnblockUser
  <2>1. EventsTyped'
    BY <1>3, <1>t DEF BlockUser, UnblockUser, EventsTyped
  <2> QED BY <1>3, <2>1, <1>l, <1>h, <1>c DEF BlockUser, UnblockUser
<1>4. ASSUME NEW c \in Consumers, Fetch(c)
      PROVE  LogTyped' /\ HandlersTyped' /\ EventsTyped' /\ CountsTyped'
  <2>1. /\ position < Len(log) /\ position' = position + 1
        /\ inHand' = [inHand EXCEPT ![c] = position + 1] /\ pc' = [pc EXCEPT ![c] = "claim"]
        /\ UNCHANGED <<committed, owner, disruptions, log, emitted, blocked, covered, handlerVars,
                       interrupted>>
    BY <1>4 DEF Fetch, FetchMessage
  <2>2. LogTyped'
    BY <1>t, <1>n, <2>1 DEF LogTyped, GroupTypeOK, WithinLog
  <2>3. HandlersTyped'
    BY <1>t, <2>1 DEF LogTyped, GroupTypeOK, HandlersTyped, Labels
  <2> QED BY <2>1, <2>2, <2>3, <1>s, <1>c
<1>5. ASSUME NEW c \in Consumers, Claim(c) \/ CheckBlocks(c)
      PROVE  LogTyped' /\ HandlersTyped' /\ EventsTyped' /\ CountsTyped'
  <2>1. pc[c] # "idle" /\ Event(c) \in Events
    BY <1>5, EventTyped DEF Claim, CheckBlocks
  <2>2. PICK label \in Labels : pc' = [pc EXCEPT ![c] = label]
    BY <1>5 DEF Claim, CheckBlocks, Labels
  <2>3. UNCHANGED <<groupVars, log, emitted, blocked, covered, interrupted, rows, live, pushJobs>>
    BY <1>5 DEF Claim, CheckBlocks
  <2>4. EventsTyped'
    <3>1. CASE Claim(c)
      BY <2>1, <2>3, <3>1, <1>t DEF Claim, EventsTyped
    <3>2. CASE CheckBlocks(c)
      BY <2>1, <2>3, <3>2, <1>t DEF CheckBlocks, EventsTyped
    <3> QED BY <1>5, <3>1, <3>2
  <2> QED BY <2>1, <2>2, <2>3, <2>4, <1>l, <1>m, <1>c
<1>6. ASSUME NEW c \in Consumers, Insert(c) \/ PublishSSE(c) \/ QueuePush(c)
      PROVE  LogTyped' /\ HandlersTyped' /\ EventsTyped' /\ CountsTyped'
  <2>1. pc[c] # "idle" /\ Event(c) \in Events
    BY <1>6, EventTyped DEF Insert, PublishSSE, QueuePush
  <2>2. PICK label \in Labels : pc' = [pc EXCEPT ![c] = label]
    BY <1>6 DEF Insert, PublishSSE, QueuePush, Labels
  <2>3. /\ UNCHANGED <<groupVars, log, emitted, blocked, covered, interrupted, claimed,
                       suppressed, unguarded, unchecked>>
        /\ rows' \in {rows, [rows EXCEPT ![Event(c)] = @ + 1]}
        /\ live' \in {live, [live EXCEPT ![Event(c)] = @ + 1]}
        /\ pushJobs' \in {pushJobs, [pushJobs EXCEPT ![Event(c)] = @ + 1]}
    BY <1>6 DEF Insert, PublishSSE, QueuePush
  <2>4. CountsTyped'
    <3>1. /\ [rows EXCEPT ![Event(c)] = @ + 1] \in [Events -> Nat]
          /\ [live EXCEPT ![Event(c)] = @ + 1] \in [Events -> Nat]
          /\ [pushJobs EXCEPT ![Event(c)] = @ + 1] \in [Events -> Nat]
      BY <2>1, <1>t DEF CountsTyped
    <3> QED BY <2>3, <3>1, <1>t DEF CountsTyped
  <2> QED BY <2>1, <2>2, <2>3, <2>4, <1>l, <1>m, <1>s
<1>8. ASSUME NEW c \in Consumers, InsertFails(c)
      PROVE  LogTyped' /\ HandlersTyped' /\ EventsTyped' /\ CountsTyped'
  <2>1. Event(c) \in Events
    BY <1>8, EventTyped DEF InsertFails
  <2>2. /\ inHand' = [inHand EXCEPT ![c] = 0] /\ pc' = [pc EXCEPT ![c] = "idle"]
        /\ rows' \in {rows, [rows EXCEPT ![Event(c)] = @ + 1]}
        /\ interrupted' = interrupted \cup {Event(c)}
        /\ UNCHANGED <<committed, owner, position, disruptions, log, emitted, blocked, covered, claimed,
                       live, pushJobs, suppressed, unguarded, unchecked>>
    BY <1>8 DEF InsertFails, HandlerError
  <2>3. LogTyped'
    BY <1>t, <1>n, <2>2 DEF LogTyped, GroupTypeOK, WithinLog
  <2>4. HandlersTyped'
    BY <1>t, <2>2 DEF LogTyped, GroupTypeOK, HandlersTyped
  <2>5. EventsTyped'
    BY <1>t, <2>1, <2>2 DEF EventsTyped
  <2>6. CountsTyped'
    <3>1. [rows EXCEPT ![Event(c)] = @ + 1] \in [Events -> Nat]
      BY <2>1, <1>t DEF CountsTyped
    <3> QED BY <2>2, <3>1, <1>t DEF CountsTyped
  <2> QED BY <2>3, <2>4, <2>5, <2>6
<1>9. ASSUME NEW c \in Consumers, IncrUnread(c)
      PROVE  LogTyped' /\ HandlersTyped' /\ EventsTyped' /\ CountsTyped'
  <2>1. /\ pc[c] # "idle" /\ pc' = [pc EXCEPT ![c] = "publish"] /\ "publish" \in Labels
        /\ UNCHANGED <<groupVars, log, emitted, blocked, covered, interrupted, claimed, rows, live,
                       pushJobs, suppressed, unguarded, unchecked>>
    BY <1>9 DEF IncrUnread, Labels
  <2> QED BY <2>1, <1>l, <1>m, <1>s, <1>c
<1>12. ASSUME NEW c \in Consumers, Commit(c)
       PROVE  LogTyped' /\ HandlersTyped' /\ EventsTyped' /\ CountsTyped'
  <2>1. committed' \in {committed, inHand[c]} /\ disruptions' \in 0..MaxDisruptions
    BY <1>12, <1>t, ConsumerAssumption
       DEF Commit, CommitMessages, Disrupt, LogTyped, GroupTypeOK
  <2>2. /\ pc' = [pc EXCEPT ![c] = "idle"] /\ inHand' = [inHand EXCEPT ![c] = 0]
        /\ UNCHANGED <<owner, position, log, emitted, blocked, covered, handlerVars, interrupted>>
    BY <1>12 DEF Commit, CommitMessages
  <2>3. LogTyped'
    BY <1>t, <1>n, <2>1, <2>2 DEF LogTyped, GroupTypeOK, WithinLog
  <2>4. HandlersTyped'
    BY <1>t, <2>2 DEF LogTyped, GroupTypeOK, HandlersTyped
  <2> QED BY <2>2, <2>3, <2>4, <1>s, <1>c
<1>13. ASSUME NEW c \in Consumers, CrashIn(c)
       PROVE  LogTyped' /\ HandlersTyped' /\ EventsTyped' /\ CountsTyped'
  <2>1. Event(c) \in Events
    BY <1>13, <1>t, EventTyped DEF CrashIn, Crash, HandlersTyped
  <2>2. /\ pc' = [pc EXCEPT ![c] = "idle"] /\ inHand' = [inHand EXCEPT ![c] = 0]
        /\ position' \in {position, committed} /\ disruptions < MaxDisruptions
        /\ disruptions' = disruptions + 1 /\ interrupted' = interrupted \cup {Event(c)}
        /\ UNCHANGED <<committed, owner, log, emitted, blocked, covered, handlerVars>>
    BY <1>13 DEF CrashIn, Crash, Disrupt
  <2>3. LogTyped'
    BY <1>t, <1>n, <2>2, ConsumerAssumption DEF LogTyped, GroupTypeOK, WithinLog
  <2>4. HandlersTyped'
    BY <1>t, <2>2 DEF LogTyped, GroupTypeOK, HandlersTyped
  <2>5. EventsTyped'
    BY <1>t, <2>1, <2>2 DEF EventsTyped
  <2> QED BY <2>2, <2>3, <2>4, <2>5, <1>c
<1>14. ASSUME NEW c \in Consumers, Reassign(c)
       PROVE  LogTyped' /\ HandlersTyped' /\ EventsTyped' /\ CountsTyped'
  <2>1. /\ owner' = c /\ position' = committed /\ disruptions < MaxDisruptions
        /\ disruptions' = disruptions + 1
        /\ UNCHANGED <<committed, inHand, log, emitted, blocked, covered, pc, handlerVars, interrupted>>
    BY <1>14 DEF Reassign, Rebalance, Disrupt
  <2>2. LogTyped'
    BY <1>t, <1>n, <2>1, ConsumerAssumption DEF LogTyped, GroupTypeOK, WithinLog
  <2> QED BY <2>1, <2>2, <1>h, <1>s, <1>c
<1>15. CASE UNCHANGED vars
  BY <1>15, <1>l, <1>h, <1>s, <1>c DEF vars
<1> QED
  BY <1>1, <1>2, <1>3, <1>4, <1>5, <1>6, <1>8, <1>9, <1>12, <1>13, <1>14, <1>15 DEF Next, Handle

LEMMA TypeInit == Init => TypeInv
<1> SUFFICES ASSUME Init PROVE TypeInv
  OBVIOUS
<1>1. log \in Seq(Events) /\ Len(log) = 0
  BY DEF Init
<1>2. TypeOK
  <2>1. GroupTypeOK /\ \A c \in Consumers : pc[c] = "idle" <=> inHand[c] = 0
    BY ConsumerAssumption DEF Init, GroupInit, GroupTypeOK
  <2> QED BY <1>1, <2>1 DEF Init, TypeOK
<1>3. WithinLog
  BY <1>1 DEF Init, GroupInit, WithinLog
<1> QED BY <1>2, <1>3 DEF TypeInv

\* Every reachable state is well typed.
THEOREM PersisterTypeCorrect == Spec => []TypeOK
<1>1. TypeInv => TypeOK
  BY DEF TypeInv
<1> QED
  BY <1>1, TypeInit, TypeNext, PTL DEF Spec

-----------------------------------------------------------------------------
(* Which event a handler has.                                              *)

\* A handler that has a message keeps it: the partition only grows.
LEMMA EventStays ==
  ASSUME TypeInv, [Next]_vars, NEW c \in Consumers, pc[c] # "idle",
         inHand'[c] = inHand[c]
  PROVE  Event(c)' = Event(c)
<1> USE DEF TypeInv, WithinLog, TypeOK, GroupTypeOK
<1>1. inHand[c] \in 1..Len(log)
  OBVIOUS
<1>2. \A o \in 1..Len(log) : log'[o] = log[o]
  <2>1. ASSUME NEW e \in Events, Dispatch(e) PROVE \A o \in 1..Len(log) : log'[o] = log[o]
    BY <2>1, LogGrows
  <2>2. (\A e \in Events : ~Dispatch(e)) => log' = log
    BY DEF Next, vars, Handle, DedupeExpires, BlockUser, UnblockUser, Fetch, Claim,
           CheckBlocks, Insert, InsertFails, IncrUnread, PublishSSE, QueuePush, Commit,
           CrashIn, Reassign, Handling
  <2> QED BY <2>1, <2>2
<1> QED BY <1>1, <1>2 DEF Event

\* Who does not move, holds what it held.
LEMMA HoldsStays ==
  ASSUME TypeInv, [Next]_vars, NEW d \in Consumers,
         pc'[d] = pc[d], inHand'[d] = inHand[d], NEW e, NEW labels \in SUBSET Labels
  PROVE  Holds(d, e, labels)' <=> Holds(d, e, labels)
<1>1. CASE pc[d] = "idle"
  BY <1>1 DEF Holds, Labels
<1>2. CASE pc[d] # "idle"
  <2>1. Event(d)' = Event(d)
    BY <1>2, EventStays
  <2> QED BY <2>1 DEF Holds
<1> QED BY <1>1, <1>2

\* The step of a handler from one label to another: the others stay, and c has
\* the event it had.
Moves(c, from, to) ==
  /\ pc[c] = from /\ Goto(c, to)
  /\ \A d \in Consumers \ {c} : inHand'[d] = inHand[d]
  /\ from # "idle" /\ to # "idle" => inHand'[c] = inHand[c]

LEMMA MovesHold ==
  ASSUME TypeInv, [Next]_vars, NEW c \in Consumers, NEW from, NEW to, Moves(c, from, to)
  PROVE  /\ pc'[c] = to
         /\ from # "idle" /\ to # "idle" => Event(c)' = Event(c)
         /\ \A d \in Consumers \ {c}, labels \in SUBSET Labels : \A e :
              Holds(d, e, labels)' <=> Holds(d, e, labels)
<1>1. pc'[c] = to /\ \A d \in Consumers \ {c} : pc'[d] = pc[d]
  BY DEF Moves, Goto, TypeInv, TypeOK
<1> QED BY <1>1, HoldsStays, EventStays DEF Moves

\* The steps of a handler, as moves.
LEMMA HandlerMoves ==
  ASSUME TypeInv, NEW c \in Consumers
  PROVE  /\ Fetch(c) => Moves(c, "idle", "claim")
         /\ Claim(c) => \E to \in {"blocks", "commit"} : Moves(c, "claim", to)
         /\ CheckBlocks(c) => \E to \in {"insert", "commit"} : Moves(c, "blocks", to)
         /\ Insert(c) => Moves(c, "insert", "incr")
         /\ InsertFails(c) => Moves(c, "insert", "idle")
         /\ IncrUnread(c) => Moves(c, "incr", "publish")
         /\ PublishSSE(c) => Moves(c, "publish", "push")
         /\ QueuePush(c) => Moves(c, "push", "commit")
         /\ Commit(c) => Moves(c, "commit", "idle")
         /\ CrashIn(c) => Moves(c, pc[c], "idle")
<1> USE DEF Moves, TypeInv, TypeOK, GroupTypeOK, groupVars, Handling
<1>1. Fetch(c) => Moves(c, "idle", "claim")
  BY DEF Fetch, FetchMessage
<1>2. Claim(c) => \E to \in {"blocks", "commit"} : Moves(c, "claim", to)
  BY DEF Claim
<1>3. CheckBlocks(c) => \E to \in {"insert", "commit"} : Moves(c, "blocks", to)
  BY DEF CheckBlocks
<1>4. InsertFails(c) => Moves(c, "insert", "idle")
  BY DEF InsertFails, HandlerError
<1>5. Commit(c) => Moves(c, "commit", "idle")
  BY DEF Commit, CommitMessages
<1>6. CrashIn(c) => Moves(c, pc[c], "idle")
  BY DEF CrashIn, Crash
<1> QED
  BY <1>1, <1>2, <1>3, <1>4, <1>5, <1>6 DEF Insert, IncrUnread, PublishSSE, QueuePush

-----------------------------------------------------------------------------
(* One row for an event.                                                   *)

ClaimInv == TypeInv /\ OneRowPerEvent /\ OneClaim

LEMMA ClaimNext == ClaimInv /\ [Next]_vars => ClaimInv'
<1> SUFFICES ASSUME ClaimInv, [Next]_vars PROVE OneRowPerEvent' /\ OneClaim'
  BY TypeNext DEF ClaimInv
<1> USE DEF ClaimInv, OneRowPerEvent, OneClaim
<1>t. TypeInv /\ TypeInv'
  BY TypeNext
<1>l. {"blocks", "insert"} \in SUBSET Labels
  BY DEF Labels
<1>p. ASSUME UNCHANGED <<pc, inHand, rows>>, unguarded \subseteq unguarded',
             claimed \ claimed' \subseteq unguarded'
      PROVE  OneRowPerEvent' /\ OneClaim'
  BY <1>p, <1>l, HoldsStays
<1>q. ASSUME NEW c \in Consumers, NEW from, NEW to \in Labels \cup {"idle"},
             Moves(c, from, to), to \notin {"blocks", "insert"}, UNCHANGED rows,
             unguarded \subseteq unguarded', claimed \subseteq claimed'
      PROVE  OneRowPerEvent' /\ OneClaim'
  <2>1. \A e : ~Holds(c, e, {"blocks", "insert"})'
    BY <1>q, MovesHold DEF Holds
  <2> QED BY <1>q, <1>l, <2>1, MovesHold
<1>1. ASSUME NEW e \in Events, Dispatch(e) \/ DedupeExpires(e) PROVE OneRowPerEvent' /\ OneClaim'
  BY <1>1, <1>p DEF Dispatch, DedupeExpires, groupVars, handlerVars
<1>2. CASE BlockUser \/ UnblockUser
  BY <1>2, <1>p DEF BlockUser, UnblockUser, groupVars, handlerVars
<1>3. ASSUME NEW c \in Consumers, Claim(c) PROVE OneRowPerEvent' /\ OneClaim'
  <2>1. PICK to \in {"blocks", "commit"} : Moves(c, "claim", to)
    BY <1>3, <1>t, HandlerMoves
  <2>2. UNCHANGED rows /\ unguarded \subseteq unguarded' /\ claimed \subseteq claimed'
    BY <1>3 DEF Claim
  <2>3. CASE to = "commit"
    BY <2>1, <2>2, <2>3, <1>q DEF Labels
  <2>4. CASE to = "blocks"
    <3>1. \A e : Holds(c, e, {"blocks", "insert"})' => e = Event(c)
      BY <2>1, <2>4, <1>t, MovesHold DEF Holds
    <3>2. Event(c) \in unguarded' \/ (Event(c) \notin claimed /\ Event(c) \in claimed')
      BY <1>3, <2>1, <2>4, <1>t DEF Claim, Goto, Moves, TypeInv, TypeOK
    <3>3. Event(c) \notin unguarded' =>
            /\ rows[Event(c)] = 0
            /\ \A d \in Consumers : ~Holds(d, Event(c), {"blocks", "insert"})
      <4>1. Event(c) \in Events
        BY <2>1, <1>t, EventTyped DEF Moves, Labels
      <4>2. rows[Event(c)] \in Nat
        BY <4>1, <1>t DEF TypeInv, TypeOK
      <4> QED BY <2>2, <3>2, <4>1, <4>2
    <3>4. \A d \in Consumers \ {c} : \A e :
            Holds(d, e, {"blocks", "insert"})' <=> Holds(d, e, {"blocks", "insert"})
      BY <2>1, <1>t, <1>l, MovesHold
    <3> QED BY <2>2, <3>1, <3>2, <3>3, <3>4
  <2> QED BY <2>3, <2>4
<1>4. ASSUME NEW c \in Consumers, CheckBlocks(c) PROVE OneRowPerEvent' /\ OneClaim'
  <2>1. PICK to \in {"insert", "commit"} : Moves(c, "blocks", to)
    BY <1>4, <1>t, HandlerMoves
  <2>2. UNCHANGED <<rows, unguarded, claimed>>
    BY <1>4 DEF CheckBlocks
  <2>3. CASE to = "commit"
    BY <2>1, <2>2, <2>3, <1>q DEF Labels
  <2>4. CASE to = "insert"
    <3>1. \A e : Holds(c, e, {"blocks", "insert"})' <=> Holds(c, e, {"blocks", "insert"})
      BY <2>1, <2>4, <1>t, MovesHold DEF Holds, Moves
    <3> QED BY <2>1, <2>2, <3>1, <1>t, <1>l, MovesHold
  <2> QED BY <2>3, <2>4
<1>5. ASSUME NEW c \in Consumers, Insert(c) \/ InsertFails(c)
      PROVE  OneRowPerEvent' /\ OneClaim'
  <2>1. PICK to \in {"incr", "idle"} : Moves(c, "insert", to)
    BY <1>5, <1>t, HandlerMoves
  <2>2. UNCHANGED <<unguarded, claimed>> /\ rows' \in {rows, [rows EXCEPT ![Event(c)] = @ + 1]}
    BY <1>5 DEF Insert, InsertFails
  <2>3. Event(c) \in Events
    BY <2>1, <1>t, EventTyped DEF Moves, Labels
  <2>4. \A e \in Events \ {Event(c)} : rows'[e] = rows[e]
    BY <2>2, <2>3, <1>t DEF TypeInv, TypeOK
  <2>5. Event(c) \notin unguarded =>
          /\ Event(c) \in claimed /\ rows'[Event(c)] \in {0, 1}
          /\ \A d \in Consumers \ {c} : ~Holds(d, Event(c), {"blocks", "insert"})
    <3>1. Holds(c, Event(c), {"blocks", "insert"})
      BY <2>1 DEF Holds, Moves
    <3> QED BY <2>2, <2>3, <3>1, <1>t DEF TypeInv, TypeOK
  <2>6. \A e : ~Holds(c, e, {"blocks", "insert"})'
    BY <2>1, <1>t, MovesHold DEF Holds
  <2>7. \A d \in Consumers \ {c} : \A e :
          Holds(d, e, {"blocks", "insert"})' <=> Holds(d, e, {"blocks", "insert"})
    BY <2>1, <1>t, <1>l, MovesHold
  <2> QED BY <2>2, <2>4, <2>5, <2>6, <2>7
<1>6. ASSUME NEW c \in Consumers,
             Fetch(c) \/ IncrUnread(c) \/ PublishSSE(c) \/ QueuePush(c) \/ Commit(c) \/ CrashIn(c)
      PROVE  OneRowPerEvent' /\ OneClaim'
  <2>1. UNCHANGED <<rows, unguarded, claimed>>
    BY <1>6 DEF Fetch, IncrUnread, PublishSSE, QueuePush, Commit, CrashIn, handlerVars
  <2>2. \E to \in {"idle", "claim", "publish", "push", "commit"} : \E from : Moves(c, from, to)
    BY <1>6, <1>t, HandlerMoves
  <2> QED BY <2>1, <2>2, <1>q DEF Labels
<1>7. ASSUME NEW c \in Consumers, Reassign(c) PROVE OneRowPerEvent' /\ OneClaim'
  BY <1>7, <1>p DEF Reassign, Rebalance, handlerVars
<1>8. CASE UNCHANGED vars
  BY <1>8, <1>p DEF vars, groupVars, handlerVars
<1> QED
  BY <1>1, <1>2, <1>3, <1>4, <1>5, <1>6, <1>7, <1>8 DEF Next, Handle

LEMMA ClaimInit == Init => ClaimInv
BY TypeInit DEF Init, ClaimInv, OneRowPerEvent, OneClaim, Holds

\* Duplicated messages, redelivery after a crash and two processes on the same
\* message give an event one row, as long as Redis answers and remembers.
THEOREM EventsHaveOneRow == Spec => []OneRowPerEvent
<1>1. ClaimInv => OneRowPerEvent
  BY DEF ClaimInv
<1> QED
  BY <1>1, ClaimInit, ClaimNext, PTL DEF Spec

-----------------------------------------------------------------------------
(* Nothing is announced without its row.                                   *)

\* Sets of processes, before and after one of them comes in or goes out.
LEMMA OneMoves ==
  ASSUME NEW S, NEW T, NEW c, IsFiniteSet(S), T \ {c} = S \ {c}
  PROVE  /\ IsFiniteSet(T)
         /\ Cardinality(S) \in Nat
         /\ Cardinality(T) =
              Cardinality(S) + (IF c \in T THEN 1 ELSE 0) - (IF c \in S THEN 1 ELSE 0)
<1>1. T = IF c \in T THEN S \cup {c} ELSE S \ {c}
  OBVIOUS
<1>2. /\ IsFiniteSet(S \cup {c}) /\ IsFiniteSet(S \ {c}) /\ Cardinality(S) \in Nat
      /\ Cardinality(S \cup {c}) = IF c \in S THEN Cardinality(S) ELSE Cardinality(S) + 1
      /\ Cardinality(S \ {c}) = IF c \in S THEN Cardinality(S) - 1 ELSE Cardinality(S)
  BY FS_AddElement, FS_RemoveElement, FS_CardinalityType
<1>3. CASE c \in T
  <2>1. T = S \cup {c}
    BY <1>1, <1>3
  <2>2. CASE c \in S
    BY <1>2, <1>3, <2>1, <2>2
  <2>3. CASE c \notin S
    BY <1>2, <1>3, <2>1, <2>3
  <2> QED BY <2>2, <2>3
<1>4. CASE c \notin T
  <2>1. T = S \ {c}
    BY <1>1, <1>4
  <2>2. CASE c \in S
    BY <1>2, <1>4, <2>1, <2>2
  <2>3. CASE c \notin S
    BY <1>2, <1>4, <2>1, <2>3
  <2> QED BY <2>2, <2>3
<1> QED
  BY <1>3, <1>4

PayInv == TypeInv /\ RowsPay

\* How the announcements owed change when a handler moves on.
LEMMA AnnouncingMoves ==
  ASSUME TypeInv, [Next]_vars, NEW c \in Consumers, NEW from, NEW to, Moves(c, from, to),
         NEW e, NEW labels \in SUBSET Labels
  PROVE  Cardinality(Announcing(e, labels))' =
           Cardinality(Announcing(e, labels))
             + (IF Holds(c, e, labels)' THEN 1 ELSE 0) - (IF Holds(c, e, labels) THEN 1 ELSE 0)
<1>1. Announcing(e, labels) \in SUBSET Consumers
  BY DEF Announcing
<1>2. IsFiniteSet(Announcing(e, labels))
  BY <1>1, ConsumerAssumption, FS_Subset
<1>3. Announcing(e, labels)' \ {c} = Announcing(e, labels) \ {c}
  BY MovesHold DEF Announcing
<1>4. c \in Announcing(e, labels)' <=> Holds(c, e, labels)'
  BY DEF Announcing
<1>5. c \in Announcing(e, labels) <=> Holds(c, e, labels)
  BY DEF Announcing
<1> QED
  BY <1>2, <1>3, <1>4, <1>5, OneMoves

LEMMA Counts ==
  ASSUME NEW e, NEW labels
  PROVE  Cardinality(Announcing(e, labels)) \in Nat
<1>1. Announcing(e, labels) \in SUBSET Consumers
  BY DEF Announcing
<1> QED BY <1>1, ConsumerAssumption, FS_Subset, FS_CardinalityType

LEMMA PayNext == PayInv /\ [Next]_vars => PayInv'
<1> SUFFICES ASSUME PayInv, [Next]_vars PROVE RowsPay'
  BY TypeNext DEF PayInv
<1> DEFINE Live == {"incr", "publish"}
           Queuing == {"incr", "publish", "push"}
<1>t. TypeInv /\ TypeInv'
  BY TypeNext DEF PayInv
<1>l. Live \in SUBSET Labels /\ Queuing \in SUBSET Labels
  BY DEF Labels
<1>n. /\ \A e, labels : Cardinality(Announcing(e, labels)) \in Nat
      /\ \A e \in Events : rows[e] \in Nat /\ live[e] \in Nat /\ pushJobs[e] \in Nat
  BY <1>t, Counts DEF TypeInv, TypeOK
<1>f. rows \in [Events -> Nat] /\ live \in [Events -> Nat] /\ pushJobs \in [Events -> Nat]
  BY <1>t DEF TypeInv, TypeOK
<1>p. ASSUME UNCHANGED <<pc, inHand, rows, live, pushJobs>> PROVE RowsPay'
  <2>1. \A e : \A labels \in SUBSET Labels : Announcing(e, labels)' = Announcing(e, labels)
    BY <1>p, <1>t, HoldsStays DEF Announcing
  <2> QED BY <1>p, <1>l, <2>1 DEF PayInv, RowsPay
<1>q. ASSUME NEW c \in Consumers, NEW from, NEW to, Moves(c, from, to), to \notin Queuing,
             UNCHANGED <<rows, live, pushJobs>>
      PROVE  RowsPay'
  <2>1. \A e \in Events, labels \in {Live, Queuing} :
          Cardinality(Announcing(e, labels))' <= Cardinality(Announcing(e, labels))
    <3> TAKE e \in Events, labels \in {Live, Queuing}
    <3>1. ~Holds(c, e, labels)'
      BY <1>q, <1>t, MovesHold DEF Holds
    <3> QED BY <1>q, <1>t, <1>l, <1>n, <3>1, AnnouncingMoves
  <2>2. \A e \in Events, labels \in {Live, Queuing} : Cardinality(Announcing(e, labels))' \in Nat
    <3>1. \A e \in Events, labels \in {Live, Queuing} : Announcing(e, labels)' \in SUBSET Consumers
      BY DEF Announcing
    <3> QED BY <3>1, ConsumerAssumption, FS_Subset, FS_CardinalityType
  <2> QED BY <1>q, <1>n, <2>1, <2>2 DEF PayInv, RowsPay
\* A step from one label to another, both of them not "idle", in terms of the event.
<1>m. ASSUME NEW c \in Consumers, NEW from \in Labels, NEW to \in Labels, Moves(c, from, to)
      PROVE  /\ Event(c) \in Events
             /\ \A e \in Events, labels \in {Live, Queuing} :
                  Cardinality(Announcing(e, labels))' =
                    Cardinality(Announcing(e, labels))
                      + (IF to \in labels /\ Event(c) = e THEN 1 ELSE 0)
                      - (IF from \in labels /\ Event(c) = e THEN 1 ELSE 0)
  <2>1. from # "idle" /\ to # "idle"
    BY <1>m DEF Labels
  <2>2. Event(c) \in Events
    BY <1>m, <2>1, <1>t, EventTyped DEF Moves
  <2>3. ASSUME NEW e \in Events, NEW labels \in {Live, Queuing}
        PROVE  /\ Holds(c, e, labels)' <=> (to \in labels /\ Event(c) = e)
               /\ Holds(c, e, labels) <=> (from \in labels /\ Event(c) = e)
    BY <1>m, <2>1, <1>t, MovesHold DEF Holds, Moves
  <2> QED
    BY <1>m, <1>t, <1>l, <2>2, <2>3, AnnouncingMoves
<1>1. ASSUME NEW e \in Events, Dispatch(e) \/ DedupeExpires(e) PROVE RowsPay'
  BY <1>1, <1>p DEF Dispatch, DedupeExpires, groupVars, handlerVars
<1>2. CASE BlockUser \/ UnblockUser
  BY <1>2, <1>p DEF BlockUser, UnblockUser, groupVars, handlerVars
<1>3. ASSUME NEW c \in Consumers,
             Fetch(c) \/ Claim(c) \/ CheckBlocks(c) \/ Commit(c) \/ CrashIn(c)
      PROVE  RowsPay'
  <2>1. UNCHANGED <<rows, live, pushJobs>>
    BY <1>3 DEF Fetch, Claim, CheckBlocks, Commit, CrashIn, handlerVars
  <2>2. \E to \in {"idle", "claim", "blocks", "insert", "commit"} : \E from : Moves(c, from, to)
    BY <1>3, <1>t, HandlerMoves
  <2> QED BY <2>1, <2>2, <1>q
<1>4. ASSUME NEW c \in Consumers, Insert(c) PROVE RowsPay'
  <2>1. Moves(c, "insert", "incr")
    BY <1>4, <1>t, HandlerMoves
  <2>2. UNCHANGED <<live, pushJobs>> /\ rows' = [rows EXCEPT ![Event(c)] = @ + 1]
    BY <1>4 DEF Insert
  <2>3. /\ Event(c) \in Events
        /\ \A e \in Events, labels \in {Live, Queuing} :
             Cardinality(Announcing(e, labels))' =
               Cardinality(Announcing(e, labels)) + (IF Event(c) = e THEN 1 ELSE 0)
    BY <2>1, <1>m, <1>n DEF Labels
  <2>5. \A e \in Events : rows'[e] = rows[e] + (IF Event(c) = e THEN 1 ELSE 0)
    BY <2>2, <2>3, <1>f
  <2>6. \A e \in Events : live'[e] + Cardinality(Announcing(e, Live))' <= rows'[e]
    BY <2>2, <2>3, <2>5, <1>n DEF PayInv, RowsPay
  <2>7. \A e \in Events : pushJobs'[e] + Cardinality(Announcing(e, Queuing))' <= rows'[e]
    BY <2>2, <2>3, <2>5, <1>n DEF PayInv, RowsPay
  <2> QED BY <2>6, <2>7 DEF RowsPay
<1>5. ASSUME NEW c \in Consumers, InsertFails(c) PROVE RowsPay'
  <2>1. Moves(c, "insert", "idle")
    BY <1>5, <1>t, HandlerMoves
  <2>2. UNCHANGED <<live, pushJobs>> /\ rows' \in {rows, [rows EXCEPT ![Event(c)] = @ + 1]}
    BY <1>5 DEF InsertFails
  <2>3. Event(c) \in Events
    BY <2>1, <1>t, EventTyped DEF Moves, Labels
  <2>5. ASSUME NEW e \in Events PROVE rows'[e] \in Nat /\ rows'[e] >= rows[e]
    <3>1. rows[e] \in Nat /\ rows[Event(c)] \in Nat /\ rows \in [Events -> Nat]
      BY <2>3, <1>t DEF TypeInv, TypeOK
    <3>2. CASE rows' = rows
      BY <3>1, <3>2
    <3>3. CASE rows' = [rows EXCEPT ![Event(c)] = @ + 1] /\ e = Event(c)
      BY <3>1, <3>3
    <3>4. CASE rows' = [rows EXCEPT ![Event(c)] = @ + 1] /\ e # Event(c)
      BY <3>1, <3>4
    <3> QED BY <2>2, <3>2, <3>3, <3>4
  <2>6. \A e \in Events, labels \in {Live, Queuing} :
          Cardinality(Announcing(e, labels))' = Cardinality(Announcing(e, labels))
    <3> TAKE e \in Events, labels \in {Live, Queuing}
    <3>1. ~Holds(c, e, labels)' /\ ~Holds(c, e, labels)
      BY <2>1, <1>t, MovesHold DEF Holds, Moves
    <3> QED BY <2>1, <1>t, <1>l, <1>n, <3>1, AnnouncingMoves
  <2> QED BY <2>2, <2>5, <2>6, <1>n DEF PayInv, RowsPay
<1>6. ASSUME NEW c \in Consumers, IncrUnread(c) PROVE RowsPay'
  <2>1. Moves(c, "incr", "publish")
    BY <1>6, <1>t, HandlerMoves
  <2>2. UNCHANGED <<rows, live, pushJobs>>
    BY <1>6 DEF IncrUnread, handlerVars
  <2>3. \A e \in Events, labels \in {Live, Queuing} :
          Cardinality(Announcing(e, labels))' = Cardinality(Announcing(e, labels))
    <3> TAKE e \in Events, labels \in {Live, Queuing}
    <3>1. Holds(c, e, labels)' <=> Holds(c, e, labels)
      BY <2>1, <1>t, MovesHold DEF Holds, Moves
    <3>2. Cardinality(Announcing(e, labels)) \in Nat
      BY <1>n
    <3> QED BY <2>1, <1>t, <1>l, <3>1, <3>2, AnnouncingMoves
  <2> QED BY <2>2, <2>3 DEF PayInv, RowsPay
<1>7. ASSUME NEW c \in Consumers, PublishSSE(c) PROVE RowsPay'
  <2>1. Moves(c, "publish", "push")
    BY <1>7, <1>t, HandlerMoves
  <2>2. UNCHANGED <<rows, pushJobs>> /\ live' \in {live, [live EXCEPT ![Event(c)] = @ + 1]}
    BY <1>7 DEF PublishSSE
  <2>3. /\ Event(c) \in Events
        /\ \A e \in Events :
             /\ Cardinality(Announcing(e, Live))' =
                  Cardinality(Announcing(e, Live)) - (IF Event(c) = e THEN 1 ELSE 0)
             /\ Cardinality(Announcing(e, Queuing))' = Cardinality(Announcing(e, Queuing))
    BY <2>1, <1>m, <1>n DEF Labels
  <2>4. \A e \in Events : live'[e] \in {live[e], live[e] + (IF Event(c) = e THEN 1 ELSE 0)}
    BY <2>2, <2>3, <1>f
  <2>5. \A e \in Events : live'[e] + Cardinality(Announcing(e, Live))' <= rows'[e]
    BY <2>2, <2>3, <2>4, <1>n DEF PayInv, RowsPay
  <2>6. \A e \in Events : pushJobs'[e] + Cardinality(Announcing(e, Queuing))' <= rows'[e]
    BY <2>2, <2>3, <1>n DEF PayInv, RowsPay
  <2> QED BY <2>5, <2>6 DEF RowsPay
<1>8. ASSUME NEW c \in Consumers, QueuePush(c) PROVE RowsPay'
  <2>1. Moves(c, "push", "commit")
    BY <1>8, <1>t, HandlerMoves
  <2>2. UNCHANGED <<rows, live>> /\ pushJobs' \in {pushJobs, [pushJobs EXCEPT ![Event(c)] = @ + 1]}
    BY <1>8 DEF QueuePush
  <2>3. /\ Event(c) \in Events
        /\ \A e \in Events :
             /\ Cardinality(Announcing(e, Queuing))' =
                  Cardinality(Announcing(e, Queuing)) - (IF Event(c) = e THEN 1 ELSE 0)
             /\ Cardinality(Announcing(e, Live))' = Cardinality(Announcing(e, Live))
    BY <2>1, <1>m, <1>n DEF Labels
  <2>4. \A e \in Events : pushJobs'[e] \in {pushJobs[e], pushJobs[e] + (IF Event(c) = e THEN 1 ELSE 0)}
    BY <2>2, <2>3, <1>f
  <2>5. \A e \in Events : pushJobs'[e] + Cardinality(Announcing(e, Queuing))' <= rows'[e]
    BY <2>2, <2>3, <2>4, <1>n DEF PayInv, RowsPay
  <2>6. \A e \in Events : live'[e] + Cardinality(Announcing(e, Live))' <= rows'[e]
    BY <2>2, <2>3, <1>n DEF PayInv, RowsPay
  <2> QED BY <2>5, <2>6 DEF RowsPay
<1>9. ASSUME NEW c \in Consumers, Reassign(c) PROVE RowsPay'
  BY <1>9, <1>p DEF Reassign, Rebalance, handlerVars
<1>10. CASE UNCHANGED vars
  BY <1>10, <1>p DEF vars, groupVars, handlerVars
<1> QED
  BY <1>1, <1>2, <1>3, <1>4, <1>5, <1>6, <1>7, <1>8, <1>9, <1>10 DEF Next, Handle

LEMMA PayInit == Init => PayInv
<1> SUFFICES ASSUME Init PROVE RowsPay
  BY TypeInit DEF PayInv
<1>1. \A e : \A labels \in SUBSET Labels : Announcing(e, labels) = {}
  BY DEF Init, Announcing, Holds, Labels
<1>2. IsFiniteSet({}) /\ Cardinality({}) = 0
  BY FS_EmptySet
<1>3. {"incr", "publish"} \in SUBSET Labels /\ {"incr", "publish", "push"} \in SUBSET Labels
  BY DEF Labels
<1>4. \A e \in Events : rows[e] = 0 /\ live[e] = 0 /\ pushJobs[e] = 0
  BY DEF Init
<1> QED BY <1>1, <1>2, <1>3, <1>4 DEF RowsPay

\* Every live message and every push job stands for a row of its own, whatever fails
\* between the INSERT and the announcements, and however often an event comes.
THEOREM AnnouncedAreSaved == Spec => []AnnouncedOnlyIfSaved
<1>1. PayInv => AnnouncedOnlyIfSaved
  <2> SUFFICES ASSUME PayInv PROVE AnnouncedOnlyIfSaved
    OBVIOUS
  <2>1. \A e, labels : Cardinality(Announcing(e, labels)) \in Nat
    BY Counts
  <2> QED BY <2>1 DEF PayInv, RowsPay, AnnouncedOnlyIfSaved, TypeInv, TypeOK
<1> QED
  BY <1>1, PayInit, PayNext, PTL DEF Spec

-----------------------------------------------------------------------------
(* Silence under a block.                                                  *)

SilenceInv == PayInv /\ BlockHolds

LEMMA SilenceNext == SilenceInv /\ [Next]_vars => SilenceInv'
<1> SUFFICES ASSUME SilenceInv, [Next]_vars PROVE BlockHolds'
  BY PayNext DEF SilenceInv
<1> DEFINE Past == {"insert", "incr", "publish", "push"}
<1>t. TypeInv /\ TypeInv'
  BY TypeNext DEF SilenceInv, PayInv
<1>l. Past \in SUBSET Labels
  BY DEF Labels
<1>p. ASSUME UNCHANGED <<pc, inHand, rows, blocked, covered, emitted>>, unchecked \subseteq unchecked'
      PROVE  BlockHolds'
  <2>1. \A d \in Consumers : \A e : Holds(d, e, Past)' <=> Holds(d, e, Past)
    BY <1>p, <1>t, <1>l, HoldsStays
  <2> QED BY <1>p, <2>1 DEF SilenceInv, BlockHolds
\* A handler moves, without a row, to where it is not past the check, or was before.
<1>q. ASSUME NEW c \in Consumers, NEW from, NEW to, Moves(c, from, to),
             to \in Past => from \in Past,
             UNCHANGED <<rows, blocked, covered, emitted>>, unchecked \subseteq unchecked'
      PROVE  BlockHolds'
  <2>1. \A d \in Consumers \ {c} : \A e : Holds(d, e, Past)' <=> Holds(d, e, Past)
    BY <1>q, <1>t, <1>l, MovesHold
  <2>2. \A e : Holds(c, e, Past)' => Holds(c, e, Past)
    BY <1>q, <1>t, MovesHold DEF Holds, Moves
  <2> QED BY <1>q, <2>1, <2>2 DEF SilenceInv, BlockHolds
<1>1. ASSUME NEW e \in Events, Dispatch(e) PROVE BlockHolds'
  <2>1. /\ UNCHANGED <<pc, inHand, rows, blocked, unchecked>> /\ e \notin emitted
        /\ emitted' = emitted \cup {e} /\ covered' = IF blocked THEN covered \cup {e} ELSE covered
    BY <1>1 DEF Dispatch, groupVars, handlerVars
  <2>2. \A d \in Consumers : \A f : Holds(d, f, Past)' <=> Holds(d, f, Past)
    BY <2>1, <1>t, <1>l, HoldsStays
  <2>3. \A d \in Consumers : ~Holds(d, e, Past)
    BY <2>1, <1>t, EventTyped DEF Holds
  <2>4. rows[e] = 0
    BY <2>1 DEF SilenceInv, BlockHolds
  <2> QED BY <2>1, <2>2, <2>3, <2>4 DEF SilenceInv, BlockHolds
<1>2. CASE BlockUser \/ UnblockUser
  <2>1. \A d \in Consumers : \A e : Holds(d, e, Past)' <=> Holds(d, e, Past)
    BY <1>2, <1>t, <1>l, HoldsStays DEF BlockUser, UnblockUser, groupVars
  <2> QED BY <1>2, <2>1 DEF BlockUser, UnblockUser, handlerVars, SilenceInv, BlockHolds
<1>3. ASSUME NEW e \in Events, DedupeExpires(e) PROVE BlockHolds'
  BY <1>3, <1>p DEF DedupeExpires, groupVars
<1>4. ASSUME NEW c \in Consumers,
             Fetch(c) \/ Claim(c) \/ Commit(c) \/ IncrUnread(c) \/ PublishSSE(c)
               \/ QueuePush(c) \/ CrashIn(c)
      PROVE  BlockHolds'
  <2>1. UNCHANGED <<rows, blocked, covered, emitted, unchecked>>
    BY <1>4 DEF Fetch, Claim, Commit, IncrUnread, PublishSSE, QueuePush, CrashIn, handlerVars, Handling
  <2>2. \E from, to : Moves(c, from, to) /\ (to \in Past => from \in Past)
    BY <1>4, <1>t, HandlerMoves
  <2> QED BY <2>1, <2>2, <1>q
<1>5. ASSUME NEW c \in Consumers, CheckBlocks(c) PROVE BlockHolds'
  <2>1. PICK to \in {"insert", "commit"} : Moves(c, "blocks", to)
    BY <1>5, <1>t, HandlerMoves
  <2>2. UNCHANGED <<rows, blocked, covered, emitted>> /\ unchecked \subseteq unchecked'
    BY <1>5 DEF CheckBlocks, Handling
  <2>3. CASE to = "commit"
    BY <2>1, <2>2, <2>3, <1>q
  <2>4. CASE to = "insert"
    <3>1. ~blocked \/ Event(c) \in unchecked'
      BY <1>5, <2>1, <2>4, <1>t DEF CheckBlocks, Moves, Goto, TypeInv, TypeOK
    <3>2. \A e : Holds(c, e, Past)' => e = Event(c)
      BY <2>1, <2>4, <1>t, MovesHold DEF Holds
    <3>3. \A d \in Consumers \ {c} : \A e : Holds(d, e, Past)' <=> Holds(d, e, Past)
      BY <2>1, <1>t, <1>l, MovesHold
    <3> QED BY <2>2, <3>1, <3>2, <3>3 DEF SilenceInv, BlockHolds
  <2> QED BY <2>3, <2>4
<1>6. ASSUME NEW c \in Consumers, Insert(c) \/ InsertFails(c) PROVE BlockHolds'
  <2>1. PICK to \in {"incr", "idle"} : Moves(c, "insert", to)
    BY <1>6, <1>t, HandlerMoves
  <2>2. /\ UNCHANGED <<blocked, covered, emitted, unchecked>>
        /\ rows' \in {rows, [rows EXCEPT ![Event(c)] = @ + 1]}
    BY <1>6 DEF Insert, InsertFails, Handling
  <2>3. Event(c) \in emitted /\ Event(c) \in Events
    BY <2>1, <1>t, EventTyped DEF Moves, Labels
  <2>4. \A e \in Events \ {Event(c)} : rows'[e] = rows[e]
    BY <2>2, <2>3, <1>t DEF TypeInv, TypeOK
  <2>5. Event(c) \notin covered \ unchecked
    BY <2>1 DEF Holds, Moves, SilenceInv, BlockHolds
  <2>6. \A d \in Consumers \ {c} : \A e : Holds(d, e, Past)' <=> Holds(d, e, Past)
    BY <2>1, <1>t, <1>l, MovesHold
  <2>7. \A e : Holds(c, e, Past)' => e = Event(c)
    BY <2>1, <1>t, MovesHold DEF Holds
  <2>8. covered \subseteq Events
    BY <1>t DEF TypeInv, TypeOK
  <2> QED BY <2>2, <2>3, <2>4, <2>5, <2>6, <2>7, <2>8 DEF SilenceInv, BlockHolds
<1>7. ASSUME NEW c \in Consumers, Reassign(c) PROVE BlockHolds'
  BY <1>7, <1>p DEF Reassign, Rebalance, handlerVars
<1>8. CASE UNCHANGED vars
  BY <1>8, <1>p DEF vars, groupVars, handlerVars
<1> QED
  BY <1>1, <1>2, <1>3, <1>4, <1>5, <1>6, <1>7, <1>8 DEF Next, Handle

\* An event produced under a block that still stands leaves no trace, as long as
\* the blocks can be read.
THEOREM BlockedAreSilent == Spec => []BlockedStaysSilent
<1>1. Init => SilenceInv
  BY PayInit DEF Init, SilenceInv, BlockHolds
<1>2. SilenceInv => BlockedStaysSilent
  <2> SUFFICES ASSUME SilenceInv, NEW e \in covered \ unchecked
               PROVE  rows[e] = 0 /\ live[e] = 0 /\ pushJobs[e] = 0
    BY DEF BlockedStaysSilent
  <2>1. e \in Events /\ rows[e] = 0 /\ live[e] \in Nat /\ pushJobs[e] \in Nat
    BY DEF SilenceInv, BlockHolds, PayInv, TypeInv, TypeOK
  <2>2. \A labels : Cardinality(Announcing(e, labels)) \in Nat
    BY Counts
  <2> QED BY <2>1, <2>2 DEF SilenceInv, PayInv, RowsPay
<1> QED
  BY <1>1, <1>2, SilenceNext, PTL DEF Spec

-----------------------------------------------------------------------------
(* One fate for an event: Persister implements NotificationFate.           *)

\* From the claim to the push job; and the parts of it between which the row and
\* the live message come about.
AtWork == {"blocks", "insert", "incr", "publish", "push"}
Stages == {AtWork, {"blocks", "insert"}, {"incr", "publish"}, {"push"}}

Untouched(e) == rows[e] = 0 /\ live[e] = 0 /\ pushJobs[e] = 0 /\ e \notin suppressed

\* Who is at work on an event is alone, and what it has still to do is not done.
FateOf(e) ==
  /\ e \notin claimed => Untouched(e) /\ \A c \in Consumers : ~Holds(c, e, AtWork)
  /\ \A c, d \in Consumers : Holds(c, e, AtWork) /\ Holds(d, e, AtWork) => c = d
  /\ \A c \in Consumers :
       /\ Holds(c, e, {"blocks", "insert"}) => Untouched(e)
       /\ Holds(c, e, {"incr", "publish"}) => rows[e] = 1 /\ live[e] = 0 /\ pushJobs[e] = 0
       /\ Holds(c, e, {"push"}) => rows[e] = 1 /\ pushJobs[e] = 0

FateInv == TypeInv /\ \A e \in Events \ unguarded : FateOf(e)

\* An event that nothing is done about and nobody begins to work on.
LEMMA FateStays ==
  ASSUME NEW e, FateOf(e), UNCHANGED <<rows[e], live[e], pushJobs[e]>>,
         e \in suppressed' <=> e \in suppressed, e \in claimed' <=> e \in claimed,
         \A d \in Consumers, labels \in Stages :
           Holds(d, e, labels)' => Holds(d, e, labels)
  PROVE  FateOf(e)'
BY DEF FateOf, Untouched, Stages

\* A handler moves on: of the other events nothing changes.
LEMMA FateElsewhere ==
  ASSUME TypeInv, [Next]_vars, NEW c \in Consumers, NEW from, NEW to, Moves(c, from, to),
         NEW e, FateOf(e), UNCHANGED <<rows[e], live[e], pushJobs[e]>>,
         e \in suppressed' <=> e \in suppressed, e \in claimed' <=> e \in claimed,
         \A labels \in Stages : Holds(c, e, labels)' => Holds(c, e, labels)
  PROVE  FateOf(e)'
<1>1. Stages \subseteq SUBSET Labels
  BY DEF Stages, AtWork, Labels
<1>2. \A d \in Consumers \ {c}, labels \in Stages : Holds(d, e, labels)' <=> Holds(d, e, labels)
  BY <1>1, MovesHold
<1>3. \A d \in Consumers, labels \in Stages : Holds(d, e, labels)' => Holds(d, e, labels)
  BY <1>2
<1> QED
  BY <1>3, FateStays

\* The one at work on an event goes on with it, or leaves it: the others were not
\* at work on it and are not now.
LEMMA FateMoves ==
  ASSUME TypeInv, [Next]_vars, NEW c \in Consumers, NEW from \in AtWork, NEW to,
         Moves(c, from, to), NEW e, e = Event(c), FateOf(e)
  PROVE  /\ Holds(c, e, {from}) /\ e \in claimed
         /\ from \in {"blocks", "insert"} => Untouched(e)
         /\ from \in {"incr", "publish"} => rows[e] = 1 /\ live[e] = 0 /\ pushJobs[e] = 0
         /\ from = "push" => rows[e] = 1 /\ pushJobs[e] = 0
         /\ \A d \in Consumers, labels \in Stages :
              Holds(d, e, labels)' => d = c /\ to \in labels
<1>1. Holds(c, e, {from}) /\ Holds(c, e, AtWork)
  BY DEF Moves, Holds
<1>2. \A d \in Consumers \ {c}, labels \in Stages : ~Holds(d, e, labels)
  BY <1>1 DEF FateOf, Stages, AtWork, Holds
<1>3. \A d \in Consumers \ {c}, labels \in Stages : Holds(d, e, labels)' <=> Holds(d, e, labels)
  BY MovesHold DEF Stages, AtWork, Labels
<1>4. \A labels \in Stages : Holds(c, e, labels)' => to \in labels
  BY MovesHold DEF Holds
<1>5. /\ e \in claimed
      /\ from \in {"blocks", "insert"} => Untouched(e)
      /\ from \in {"incr", "publish"} => rows[e] = 1 /\ live[e] = 0 /\ pushJobs[e] = 0
      /\ from = "push" => rows[e] = 1 /\ pushJobs[e] = 0
  BY <1>1 DEF FateOf, Holds
<1> QED
  BY <1>1, <1>2, <1>3, <1>4, <1>5

\* What a step must do to the event it is at, for the fates to stay in order.
Pending(e, at) ==
  CASE at \in {"blocks", "insert"} -> Untouched(e)
    [] at \in {"incr", "publish"} -> rows[e] = 1 /\ live[e] = 0 /\ pushJobs[e] = 0
    [] at = "push" -> rows[e] = 1 /\ pushJobs[e] = 0
    [] OTHER -> TRUE

LEMMA FateHere ==
  ASSUME NEW c \in Consumers, NEW to \in Labels \cup {"idle"}, NEW e, e \in claimed',
         Pending(e, to)',
         \A d \in Consumers, labels \in Stages : Holds(d, e, labels)' => d = c /\ to \in labels
  PROVE  FateOf(e)'
<1>1. /\ \A d \in Consumers : /\ Holds(d, e, AtWork)' => d = c
                              /\ Holds(d, e, {"blocks", "insert"})' => to \in {"blocks", "insert"}
                              /\ Holds(d, e, {"incr", "publish"})' => to \in {"incr", "publish"}
                              /\ Holds(d, e, {"push"})' => to = "push"
  BY DEF Stages
<1> QED
  BY <1>1 DEF FateOf, Pending

LEMMA FateNext == FateInv /\ [Next]_vars => FateInv'
<1> SUFFICES ASSUME FateInv, [Next]_vars, NEW e \in Events, e \notin unguarded' PROVE FateOf(e)'
  BY TypeNext DEF FateInv
<1>t. TypeInv
  BY DEF FateInv
<1>u. unguarded \subseteq unguarded'
  BY DEF Next, Handle, Dispatch, DedupeExpires, BlockUser, UnblockUser, Fetch, Claim, CheckBlocks,
         Insert, InsertFails, IncrUnread, PublishSSE, QueuePush, Commit, CrashIn, Reassign,
         handlerVars, vars
<1>f. FateOf(e)
  BY <1>u DEF FateInv
\* Steps of nobody's handler.
<1>p. ASSUME UNCHANGED <<pc, inHand, rows, live, pushJobs, suppressed>>,
             e \in claimed' <=> e \in claimed
      PROVE  FateOf(e)'
  <2>1. \A d \in Consumers, labels \in Stages : Holds(d, e, labels)' <=> Holds(d, e, labels)
    BY <1>p, <1>t, HoldsStays DEF Stages, AtWork, Labels
  <2> QED BY <1>f, <1>p, <2>1, FateStays
\* Steps with which a handler begins, or ends without more ado.
<1>q. ASSUME NEW c \in Consumers, NEW from, NEW to \in {"idle", "claim", "commit"}, Moves(c, from, to),
             UNCHANGED <<rows[e], live[e], pushJobs[e]>>,
             e \in suppressed' <=> e \in suppressed, e \in claimed' <=> e \in claimed
      PROVE  FateOf(e)'
  <2>1. \A labels \in Stages : ~Holds(c, e, labels)'
    BY <1>q, <1>t, MovesHold DEF Holds, Stages, AtWork
  <2> QED BY <1>f, <1>q, <1>t, <2>1, FateElsewhere
\* Steps about another event.
<1>o. ASSUME NEW c \in Consumers, NEW from, NEW to, Moves(c, from, to), from # "idle", e # Event(c),
             UNCHANGED <<rows[e], live[e], pushJobs[e]>>,
             e \in suppressed' <=> e \in suppressed, e \in claimed' <=> e \in claimed
      PROVE  FateOf(e)'
  <2>1. \A labels \in Stages : ~Holds(c, e, labels)'
    <3>1. CASE to = "idle"
      BY <3>1, <1>o, <1>t, MovesHold DEF Holds, Stages, AtWork
    <3>2. CASE to # "idle"
      BY <3>2, <1>o, <1>t, MovesHold DEF Holds
    <3> QED BY <3>1, <3>2
  <2> QED BY <1>f, <1>o, <1>t, <2>1, FateElsewhere
<1>1. ASSUME NEW g \in Events, Dispatch(g) \/ DedupeExpires(g) PROVE FateOf(e)'
  BY <1>1, <1>p DEF Dispatch, DedupeExpires, groupVars, handlerVars
<1>2. CASE BlockUser \/ UnblockUser
  BY <1>2, <1>p DEF BlockUser, UnblockUser, groupVars, handlerVars
<1>3. ASSUME NEW c \in Consumers, Reassign(c) PROVE FateOf(e)'
  BY <1>3, <1>p DEF Reassign, Rebalance, handlerVars
<1>4. ASSUME NEW c \in Consumers, Fetch(c) \/ Commit(c) \/ CrashIn(c) PROVE FateOf(e)'
  <2>1. UNCHANGED <<rows, live, pushJobs, suppressed, claimed>>
    BY <1>4 DEF Fetch, Commit, CrashIn, handlerVars
  <2>2. \E to \in {"idle", "claim"} : \E from : Moves(c, from, to)
    BY <1>4, <1>t, HandlerMoves
  <2> QED BY <2>1, <2>2, <1>q
<1>5. ASSUME NEW c \in Consumers, Claim(c) PROVE FateOf(e)'
  <2>1. PICK to \in {"blocks", "commit"} : Moves(c, "claim", to)
    BY <1>5, <1>t, HandlerMoves
  <2>2. UNCHANGED <<rows, live, pushJobs, suppressed>> /\ claimed' \in {claimed, claimed \cup {Event(c)}}
    BY <1>5 DEF Claim
  <2>3. CASE e # Event(c)
    BY <2>1, <2>2, <2>3, <1>o
  <2>4. CASE e = Event(c) /\ to = "commit"
    <3>1. e \in claimed' <=> e \in claimed
      BY <1>5, <2>1, <2>4, <1>t DEF Claim, Goto, Moves, TypeInv, TypeOK
    <3> QED BY <2>1, <2>2, <2>4, <3>1, <1>q
  <2>5. CASE e = Event(c) /\ to = "blocks"
    <3>1. e \notin claimed /\ e \in claimed'
      BY <1>5, <2>1, <2>5, <1>t DEF Claim, Goto, Moves, TypeInv, TypeOK
    <3>2. Untouched(e)' /\ \A d \in Consumers : ~Holds(d, e, AtWork)
      BY <1>f, <2>2, <3>1 DEF FateOf, Untouched
    <3>3. \A d \in Consumers \ {c}, labels \in Stages : ~Holds(d, e, labels)'
      <4>1. \A d \in Consumers \ {c}, labels \in Stages : Holds(d, e, labels)' <=> Holds(d, e, labels)
        BY <2>1, <1>t, MovesHold DEF Stages, AtWork, Labels
      <4> QED BY <4>1, <3>2 DEF Stages, AtWork, Holds
    <3>4. \A labels \in Stages : Holds(c, e, labels)' => "blocks" \in labels
      BY <2>1, <2>5, <1>t, MovesHold DEF Holds
    <3> QED BY <3>1, <3>2, <3>3, <3>4, FateHere DEF Pending, Labels
  <2> QED BY <2>3, <2>4, <2>5
\* The others are at work on their event, and have something to do.
<1>w. ASSUME NEW c \in Consumers, NEW from \in AtWork, NEW to \in Labels \cup {"idle"}, Moves(c, from, to),
             UNCHANGED claimed, e = Event(c), Pending(e, to)'
      PROVE  FateOf(e)'
  <2>1. /\ e \in claimed'
        /\ \A d \in Consumers, labels \in Stages : Holds(d, e, labels)' => d = c /\ to \in labels
    BY <1>w, <1>t, <1>f, FateMoves
  <2> QED BY <1>w, <2>1, FateHere
<1>6. ASSUME NEW c \in Consumers, CheckBlocks(c) PROVE FateOf(e)'
  <2>1. PICK to \in {"insert", "commit"} : Moves(c, "blocks", to)
    BY <1>6, <1>t, HandlerMoves
  <2>2. UNCHANGED <<rows, live, pushJobs, claimed>> /\ suppressed' \in {suppressed, suppressed \cup {Event(c)}}
    BY <1>6 DEF CheckBlocks
  <2>3. to = "insert" => suppressed' = suppressed
    BY <1>6, <2>1, <1>t DEF CheckBlocks, Goto, Moves, TypeInv, TypeOK
  <2>4. CASE e # Event(c)
    BY <2>1, <2>2, <2>4, <1>o
  <2>5. CASE e = Event(c)
    <3>1. Untouched(e)
      BY <2>1, <2>5, <1>t, <1>f, FateMoves DEF AtWork
    <3>2. Pending(e, to)'
      BY <2>1, <2>2, <2>3, <3>1 DEF Pending, Untouched
    <3> QED BY <2>1, <2>2, <2>5, <3>2, <1>w DEF AtWork, Labels
  <2> QED BY <2>4, <2>5
<1>7. ASSUME NEW c \in Consumers, Insert(c) \/ InsertFails(c) PROVE FateOf(e)'
  <2>1. PICK to \in {"incr", "idle"} : /\ Moves(c, "insert", to)
                                       /\ to = "incr" => Insert(c)
    BY <1>7, <1>t, HandlerMoves
  <2>2. /\ UNCHANGED <<live, pushJobs, suppressed, claimed>>
        /\ rows' \in {rows, [rows EXCEPT ![Event(c)] = @ + 1]}
        /\ Insert(c) => rows' = [rows EXCEPT ![Event(c)] = @ + 1]
    BY <1>7 DEF Insert, InsertFails
  <2>3. CASE e # Event(c)
    <3>1. rows'[e] = rows[e]
      BY <2>2, <2>3, <1>t DEF TypeInv, TypeOK
    <3> QED BY <2>1, <2>2, <2>3, <3>1, <1>o
  <2>4. CASE e = Event(c)
    <3>1. Untouched(e)
      BY <2>1, <2>4, <1>t, <1>f, FateMoves DEF AtWork
    <3>2. Pending(e, to)'
      BY <2>1, <2>2, <2>4, <3>1, <1>t DEF Pending, Untouched, TypeInv, TypeOK
    <3> QED BY <2>1, <2>2, <2>4, <3>2, <1>w DEF AtWork, Labels
  <2> QED BY <2>3, <2>4
<1>8. ASSUME NEW c \in Consumers, IncrUnread(c) PROVE FateOf(e)'
  <2>1. Moves(c, "incr", "publish") /\ UNCHANGED <<rows, live, pushJobs, suppressed, claimed>>
    BY <1>8, <1>t, HandlerMoves DEF IncrUnread, handlerVars
  <2>2. CASE e # Event(c)
    BY <2>1, <2>2, <1>o
  <2>3. CASE e = Event(c)
    <3>1. Pending(e, "publish")'
      BY <2>1, <2>3, <1>t, <1>f, FateMoves DEF AtWork, Pending
    <3> QED BY <2>1, <2>3, <3>1, <1>w DEF AtWork, Labels
  <2> QED BY <2>2, <2>3
<1>9. ASSUME NEW c \in Consumers, PublishSSE(c) PROVE FateOf(e)'
  <2>1. /\ Moves(c, "publish", "push") /\ UNCHANGED <<rows, pushJobs, suppressed, claimed>>
        /\ live' \in {live, [live EXCEPT ![Event(c)] = @ + 1]}
    BY <1>9, <1>t, HandlerMoves DEF PublishSSE
  <2>2. CASE e # Event(c)
    <3>1. live'[e] = live[e]
      BY <2>1, <2>2, <1>t DEF TypeInv, TypeOK
    <3> QED BY <2>1, <2>2, <3>1, <1>o
  <2>3. CASE e = Event(c)
    <3>1. Pending(e, "push")'
      BY <2>1, <2>3, <1>t, <1>f, FateMoves DEF AtWork, Pending
    <3> QED BY <2>1, <2>3, <3>1, <1>w DEF AtWork, Labels
  <2> QED BY <2>2, <2>3
<1>10. ASSUME NEW c \in Consumers, QueuePush(c) PROVE FateOf(e)'
  <2>1. /\ Moves(c, "push", "commit") /\ UNCHANGED <<rows, live, suppressed, claimed>>
        /\ pushJobs' \in {pushJobs, [pushJobs EXCEPT ![Event(c)] = @ + 1]}
    BY <1>10, <1>t, HandlerMoves DEF QueuePush
  <2>2. CASE e # Event(c)
    <3>1. pushJobs'[e] = pushJobs[e]
      BY <2>1, <2>2, <1>t DEF TypeInv, TypeOK
    <3> QED BY <2>1, <2>2, <3>1, <1>o
  <2>3. CASE e = Event(c)
    BY <2>1, <2>3, <1>w DEF AtWork, Labels, Pending
  <2> QED BY <2>2, <2>3
<1>11. CASE UNCHANGED vars
  BY <1>11, <1>p DEF vars, groupVars, handlerVars
<1> QED
  BY <1>1, <1>2, <1>3, <1>4, <1>5, <1>6, <1>7, <1>8, <1>9, <1>10, <1>11 DEF Next, Handle

LEMMA FateInit == Init => FateInv /\ Fate!Init
BY TypeInit DEF Init, FateInv, FateOf, Untouched, Holds, AtWork, Kept, Fate!Init

\* Every step of the handlers is a step of an event's fate, or leaves all fates alone.
LEMMA FateRefined == FateInv /\ [Next]_vars => [Fate!Next]_(Fate!fateVars)
<1> SUFFICES ASSUME FateInv, [Next]_vars PROVE [Fate!Next]_(Fate!fateVars)
  OBVIOUS
<1>t. TypeInv
  BY DEF FateInv
<1>p. ASSUME UNCHANGED <<rows, live, pushJobs, suppressed, unguarded>>
      PROVE  UNCHANGED Fate!fateVars
  BY <1>p DEF Kept, Fate!fateVars
<1>e. ASSUME NEW c \in Consumers, pc[c] # "idle" PROVE Event(c) \in Events
  BY <1>e, <1>t, EventTyped
<1>w. ASSUME NEW e \in Events, unguarded' = unguarded \cup {e},
             UNCHANGED <<rows, live, pushJobs, suppressed>>
      PROVE  Fate!Waive(e)
  BY <1>w DEF Kept, Fate!Waive
<1>1. ASSUME NEW g \in Events, Dispatch(g) \/ DedupeExpires(g)
      PROVE  [Fate!Next]_(Fate!fateVars)
  BY <1>1, <1>p, <1>w DEF Dispatch, DedupeExpires, handlerVars, Fate!Next
<1>2. CASE BlockUser \/ UnblockUser
  BY <1>2, <1>p DEF BlockUser, UnblockUser, handlerVars
<1>3. ASSUME NEW c \in Consumers, Fetch(c) \/ Commit(c) \/ CrashIn(c) \/ Reassign(c) \/ IncrUnread(c)
      PROVE  [Fate!Next]_(Fate!fateVars)
  BY <1>3, <1>p DEF Fetch, Commit, CrashIn, Reassign, IncrUnread, handlerVars
<1>4. ASSUME NEW c \in Consumers, Claim(c) PROVE [Fate!Next]_(Fate!fateVars)
  <2>1. pc[c] = "claim" /\ UNCHANGED <<rows, live, pushJobs, suppressed>>
        /\ (unguarded' = unguarded \/ unguarded' = unguarded \cup {Event(c)})
    BY <1>4 DEF Claim, Handling
  <2> QED BY <2>1, <1>e, <1>p, <1>w DEF Fate!Next
\* The steps that decide something, about an event that is still guarded.
<1>5. ASSUME NEW c \in Consumers, CheckBlocks(c) PROVE [Fate!Next]_(Fate!fateVars)
  <2> DEFINE e == Event(c)
  <2>1. /\ UNCHANGED <<rows, live, pushJobs, unguarded>>
        /\ suppressed' = suppressed \/ suppressed' = suppressed \cup {e}
        /\ \E to \in {"insert", "commit"} : Moves(c, "blocks", to)
    BY <1>5, <1>t, HandlerMoves DEF CheckBlocks
  <2>2. CASE e \in unguarded \/ suppressed' = suppressed
    BY <2>1, <2>2 DEF Kept, Fate!fateVars
  <2>3. CASE e \notin unguarded /\ suppressed' = suppressed \cup {e}
    <3>1. e \in Events /\ Untouched(e)
      BY <2>1, <2>3, <1>t, <1>e, FateMoves DEF AtWork, Moves, FateInv
    <3>2. Fate!Suppress(e)
      BY <2>1, <2>3, <3>1 DEF Untouched, Kept, Fate!Suppress, Fate!Open
    <3> QED BY <3>1, <3>2 DEF Fate!Next
  <2> QED BY <2>1, <2>2, <2>3
<1>6. ASSUME NEW c \in Consumers, Insert(c) \/ InsertFails(c) PROVE [Fate!Next]_(Fate!fateVars)
  <2> DEFINE e == Event(c)
  <2>1. /\ UNCHANGED <<suppressed, live, pushJobs, unguarded>>
        /\ rows' = rows \/ rows' = [rows EXCEPT ![e] = @ + 1]
        /\ \E to \in {"incr", "idle"} : Moves(c, "insert", to)
    BY <1>6, <1>t, HandlerMoves DEF Insert, InsertFails
  <2>2. e \in Events
    BY <2>1, <1>e DEF Moves
  <2>3. CASE e \in unguarded \/ rows' = rows
    BY <2>1, <2>2, <2>3, <1>t DEF Kept, Fate!fateVars, TypeInv, TypeOK
  <2>4. CASE e \notin unguarded /\ rows' = [rows EXCEPT ![e] = @ + 1]
    <3>1. Untouched(e)
      BY <2>1, <2>2, <2>4, <1>t, FateMoves DEF AtWork, FateInv
    <3>2. Fate!Save(e)
      <4>1. Kept(rows)' = [Kept(rows) EXCEPT ![e] = 1]
        <5> HIDE DEF e
        <5>1. rows \in [Events -> Nat] /\ e \in Events \ unguarded /\ rows[e] = 0
          BY <2>2, <2>4, <3>1, <1>t DEF Untouched, TypeInv, TypeOK
        <5>2. \A x \in Events : rows'[x] = IF x = e THEN 1 ELSE rows[x]
          BY <2>4, <5>1
        <5> QED BY <2>1, <5>1, <5>2 DEF Kept
      <4>2. Kept(rows)[e] = 0 /\ UNCHANGED <<Kept(live), Kept(pushJobs)>>
        BY <2>1, <2>2, <2>4, <3>1 DEF Kept, Untouched
      <4> QED
        BY <2>1, <2>2, <2>4, <3>1, <4>1, <4>2 DEF Kept, Untouched, Fate!Save, Fate!Open
    <3> QED BY <2>2, <3>2 DEF Fate!Next
  <2> QED BY <2>1, <2>3, <2>4
<1>7. ASSUME NEW c \in Consumers, PublishSSE(c) PROVE [Fate!Next]_(Fate!fateVars)
  <2> DEFINE e == Event(c)
  <2>1. /\ UNCHANGED <<suppressed, rows, pushJobs, unguarded>>
        /\ live' = live \/ live' = [live EXCEPT ![e] = @ + 1]
        /\ Moves(c, "publish", "push")
    BY <1>7, <1>t, HandlerMoves DEF PublishSSE
  <2>2. e \in Events
    BY <2>1, <1>e DEF Moves
  <2>3. CASE e \in unguarded \/ live' = live
    BY <2>1, <2>2, <2>3, <1>t DEF Kept, Fate!fateVars, TypeInv, TypeOK
  <2>4. CASE e \notin unguarded /\ live' = [live EXCEPT ![e] = @ + 1]
    <3>1. rows[e] = 1 /\ live[e] = 0 /\ pushJobs[e] = 0
      BY <2>1, <2>2, <2>4, <1>t, FateMoves DEF AtWork, FateInv
    <3>2. Fate!Publish(e)
      <4>1. Kept(live)' = [Kept(live) EXCEPT ![e] = 1]
        <5> HIDE DEF e
        <5>1. live \in [Events -> Nat] /\ e \in Events \ unguarded /\ live[e] = 0
          BY <2>2, <2>4, <3>1, <1>t DEF Untouched, TypeInv, TypeOK
        <5>2. \A x \in Events : live'[x] = IF x = e THEN 1 ELSE live[x]
          BY <2>4, <5>1
        <5> QED BY <2>1, <5>1, <5>2 DEF Kept
      <4>2. Kept(live)[e] = 0 /\ UNCHANGED <<Kept(rows), Kept(pushJobs)>>
        BY <2>1, <2>2, <2>4, <3>1 DEF Kept, Untouched
      <4> QED
        BY <2>1, <2>2, <2>4, <3>1, <4>1, <4>2 DEF Kept, Untouched, Fate!Publish
    <3> QED BY <2>2, <3>2 DEF Fate!Next
  <2> QED BY <2>1, <2>3, <2>4
<1>8. ASSUME NEW c \in Consumers, QueuePush(c) PROVE [Fate!Next]_(Fate!fateVars)
  <2> DEFINE e == Event(c)
  <2>1. /\ UNCHANGED <<suppressed, rows, live, unguarded>>
        /\ pushJobs' = pushJobs \/ pushJobs' = [pushJobs EXCEPT ![e] = @ + 1]
        /\ Moves(c, "push", "commit")
    BY <1>8, <1>t, HandlerMoves DEF QueuePush
  <2>2. e \in Events
    BY <2>1, <1>e DEF Moves
  <2>3. CASE e \in unguarded \/ pushJobs' = pushJobs
    BY <2>1, <2>2, <2>3, <1>t DEF Kept, Fate!fateVars, TypeInv, TypeOK
  <2>4. CASE e \notin unguarded /\ pushJobs' = [pushJobs EXCEPT ![e] = @ + 1]
    <3>1. rows[e] = 1 /\ pushJobs[e] = 0
      BY <2>1, <2>2, <2>4, <1>t, FateMoves DEF AtWork, FateInv
    <3>2. Fate!QueuePush(e)
      <4>1. Kept(pushJobs)' = [Kept(pushJobs) EXCEPT ![e] = 1]
        <5> HIDE DEF e
        <5>1. pushJobs \in [Events -> Nat] /\ e \in Events \ unguarded /\ pushJobs[e] = 0
          BY <2>2, <2>4, <3>1, <1>t DEF Untouched, TypeInv, TypeOK
        <5>2. \A x \in Events : pushJobs'[x] = IF x = e THEN 1 ELSE pushJobs[x]
          BY <2>4, <5>1
        <5> QED BY <2>1, <5>1, <5>2 DEF Kept
      <4>2. Kept(pushJobs)[e] = 0 /\ UNCHANGED <<Kept(rows), Kept(live)>>
        BY <2>1, <2>2, <2>4, <3>1 DEF Kept, Untouched
      <4> QED
        BY <2>1, <2>2, <2>4, <3>1, <4>1, <4>2 DEF Kept, Untouched, Fate!QueuePush
    <3> QED BY <2>2, <3>2 DEF Fate!Next
  <2> QED BY <2>1, <2>3, <2>4
<1>9. CASE UNCHANGED vars
  BY <1>9, <1>p DEF vars, handlerVars
<1> QED
  BY <1>1, <1>2, <1>3, <1>4, <1>5, <1>6, <1>7, <1>8, <1>9 DEF Next, Handle

\* However often and to however many processes a message is delivered, whatever
\* crashes and whichever calls fail, an event keeps one fate: suppressed, or saved
\* once, then published at most once, then queued for push at most once.
THEOREM EventsHaveOneFate == Spec => OneFate
BY FateInit, FateNext, FateRefined, PTL DEF Spec, OneFate, Fate!Spec

-----------------------------------------------------------------------------
(* Together with the two push topics.                                      *)

PushProofs == INSTANCE PushDeliveryProofs WITH pc <- pushing, unguarded <- unlocked

\* The two instances mean the same by the names of PushDelivery.
LEMMA PushTheSame ==
  /\ PushProofs!PushAssumption
  /\ PushProofs!Init <=> Push!Init
  /\ PushProofs!TypeOK <=> Push!TypeOK
<1>1. PushProofs!PushAssumption
  BY PushAssumption DEF PushProofs!PushAssumption, PushProofs!PushFaultKinds, PushFaultKinds
<1>2. PushProofs!Init <=> Push!Init
  BY DEF PushProofs!Init, Push!Init, PushProofs!Pairs, Push!Pairs,
     PushProofs!Dispatching!GroupInit, Push!Dispatching!GroupInit,
     PushProofs!Retrying!GroupInit, Push!Retrying!GroupInit
<1>3. PushProofs!TypeOK <=> Push!TypeOK
  BY DEF PushProofs!TypeOK, Push!TypeOK, PushProofs!Pairs, Push!Pairs, PushProofs!Job, Push!Job,
     PushProofs!Dispatching!GroupTypeOK, Push!Dispatching!GroupTypeOK,
     PushProofs!Retrying!GroupTypeOK, Push!Retrying!GroupTypeOK
<1> QED
  BY <1>1, <1>2, <1>3

LEMMA PushStepsTheSame ==
  /\ Push!Next => PushProofs!Next
  /\ UNCHANGED pushVars => UNCHANGED PushProofs!vars
<1> USE DEF Push!Goto, Push!Handling, Push!dGroup, Push!rGroup, Push!handler, Push!history,
      Push!TheJob, Push!Pair, Push!Pairs, Push!InProgress, Push!Disruptible, Push!MayFailToCommit, Push!Write,
      Push!Retry, Push!ProduceJob, Push!RetryFallsDue, Push!LockExpires, Push!Fetch,
      Push!AcquireLock, Push!SendSucceeds, Push!SendFails, Push!MarkDelivered,
      Push!ReleaseLock, Push!QueueRetry, Push!Commit, Push!Handle, Push!FetchRetry,
      Push!NotTimeYet, Push!Requeue, Push!CommitRetry, Push!HandleRetry, Push!CrashDispatch,
      Push!CrashRetry, Push!Reassign, Push!Dispatching!FetchMessage,
      Push!Dispatching!CommitMessages, Push!Dispatching!Crash, Push!Dispatching!Rebalance,
      Push!Dispatching!Disrupt, Push!Retrying!FetchMessage, Push!Retrying!CommitMessages,
      Push!Retrying!HandlerError, Push!Retrying!Crash, Push!Retrying!Rebalance,
      Push!Retrying!Disrupt, PushProofs!Goto, PushProofs!Handling, PushProofs!dGroup,
      PushProofs!rGroup, PushProofs!handler, PushProofs!history, PushProofs!TheJob,
      PushProofs!Pair, PushProofs!Pairs, PushProofs!InProgress, PushProofs!Disruptible,
      PushProofs!MayFailToCommit,
      PushProofs!Write, PushProofs!Retry, PushProofs!ProduceJob, PushProofs!RetryFallsDue,
      PushProofs!LockExpires, PushProofs!Fetch, PushProofs!AcquireLock,
      PushProofs!SendSucceeds, PushProofs!SendFails, PushProofs!MarkDelivered,
      PushProofs!ReleaseLock, PushProofs!QueueRetry, PushProofs!Commit, PushProofs!Handle,
      PushProofs!FetchRetry, PushProofs!NotTimeYet, PushProofs!Requeue, PushProofs!CommitRetry,
      PushProofs!HandleRetry, PushProofs!CrashDispatch, PushProofs!CrashRetry,
      PushProofs!Reassign, PushProofs!Dispatching!FetchMessage,
      PushProofs!Dispatching!CommitMessages, PushProofs!Dispatching!Crash,
      PushProofs!Dispatching!Rebalance, PushProofs!Dispatching!Disrupt,
      PushProofs!Retrying!FetchMessage, PushProofs!Retrying!CommitMessages,
      PushProofs!Retrying!HandlerError, PushProofs!Retrying!Crash,
      PushProofs!Retrying!Rebalance, PushProofs!Retrying!Disrupt
<1>1. Push!Next => PushProofs!Next
  BY DEF Push!Next, PushProofs!Next
<1>2. UNCHANGED pushVars => UNCHANGED PushProofs!vars
  BY DEF pushVars, PushProofs!vars
<1> QED
  BY <1>1, <1>2

LEMMA PipelineSteps ==
  TypeInv /\ [PipelineNext]_pipelineVars =>
    [Next]_vars /\ [Push!Next]_(Push!vars) /\ [PushProofs!Next]_(PushProofs!vars)
<1> SUFFICES ASSUME TypeInv, [PipelineNext]_pipelineVars
             PROVE  [Next]_vars /\ (Push!Next \/ UNCHANGED pushVars)
  BY PushStepsTheSame DEF pushVars, Push!vars, Push!dGroup, Push!rGroup, Push!handler, Push!history
<1>1. PersisterAlone => Next /\ UNCHANGED pushVars
  BY DEF PersisterAlone
<1>2. PushAlone => UNCHANGED vars /\ Push!Next
  BY DEF PushAlone, Push!Next
<1>3. ASSUME NEW c \in Consumers, QueueJob(c) PROVE Next /\ Push!Next
  <2>1. Next
    BY <1>3 DEF QueueJob, Next, Handle
  <2>2. \E e \in Events : Push!ProduceJob(e)
    BY <1>3, EventTyped DEF QueueJob, QueuePush, Handling
  <2> QED BY <2>1, <2>2 DEF Push!Next
<1> QED
  BY <1>1, <1>2, <1>3 DEF PipelineNext, pipelineVars

LEMMA PipelineTyped == PipelineSpec => []TypeInv
<1>1. PipelineInit => TypeInv
  BY TypeInit DEF PipelineInit
<1>2. TypeInv /\ [PipelineNext]_pipelineVars => TypeInv'
  BY PipelineSteps, TypeNext
<1> QED
  BY <1>1, <1>2, PTL DEF PipelineSpec

\* Each side of the pipeline behaves as its own specification says.
THEOREM PipelineKeepsItsSpecs == PipelineSpec => Spec /\ Push!Spec
<1>1. PipelineInit => Init /\ Push!Init
  BY DEF PipelineInit
<1> QED
  BY <1>1, PipelineTyped, PipelineSteps, PTL DEF PipelineSpec, Spec, Push!Spec

LEMMA PushProofsApply == PipelineSpec => PushProofs!Spec
<1>1. PipelineInit => PushProofs!Init
  BY PushTheSame DEF PipelineInit
<1> QED
  BY <1>1, PipelineTyped, PipelineSteps, PTL DEF PipelineSpec, PushProofs!Spec

\* The types of both sides hold together.
THEOREM PipelineTypesCorrect == PipelineSpec => []PipelineTypeOK
<1>1. PushProofs!Spec => []PushProofs!TypeOK
  BY PushTheSame, PushProofs!PushTypeCorrect
<1>2. TypeOK /\ PushProofs!TypeOK => PipelineTypeOK
  BY PushTheSame DEF PipelineTypeOK
<1> QED
  BY <1>1, <1>2, PipelineKeepsItsSpecs, PushProofsApply, PersisterTypeCorrect, PTL

\* To a device the pipeline delivers an event once, as long as Redis keeps its key.
THEOREM PhonesRingOnce == PipelineSpec => OnceToDevice
<1>1. PushProofs!Spec => PushProofs!OnceToDevice
  BY PushTheSame, PushProofs!PushIsAChannel
<1> USE DEF PushProofs!Pairs, Push!Pairs
<1>2. PushProofs!Channel!Init => Push!Channel!Init
  BY DEF PushProofs!Channel!Init, Push!Channel!Init
<1>3. [PushProofs!Channel!Next]_(PushProofs!Channel!channelVars)
        => [Push!Channel!Next]_(Push!Channel!channelVars)
  BY DEF PushProofs!Channel!Next, Push!Channel!Next, PushProofs!Channel!channelVars,
     Push!Channel!channelVars, PushProofs!Channel!Produce, Push!Channel!Produce,
     PushProofs!Channel!Deliver, Push!Channel!Deliver, PushProofs!Channel!Waive,
     Push!Channel!Waive
<1>4. PushProofs!OnceToDevice => OnceToDevice
  BY <1>2, <1>3, PTL
     DEF PushProofs!OnceToDevice, OnceToDevice, Push!OnceToDevice, PushProofs!Channel!Spec,
         Push!Channel!Spec
<1> QED
  BY <1>1, <1>4, PushProofsApply, PTL

\* No token of a committed job is forgotten, whatever fails on either side.
THEOREM PipelineForgetsNone == PipelineSpec => []NoTokenForgotten
<1>1. PushProofs!Spec => []PushProofs!NoTokenForgotten
  BY PushTheSame, PushProofs!NoPushForgotten
<1>2. PushProofs!NoTokenForgotten => NoTokenForgotten
  BY DEF PushProofs!NoTokenForgotten, NoTokenForgotten, Push!NoTokenForgotten, PushProofs!Pairs,
     Push!Pairs, PushProofs!Carries, Push!Carries, PushProofs!InProgress, Push!InProgress,
     PushProofs!Pair, Push!Pair, PushProofs!TheJob, Push!TheJob
<1> QED
  BY <1>1, <1>2, PushProofsApply, PTL

\* Where the two sides meet: an event has a job only if the persister counts one.
JobsCounted == \A e \in Events : e \in produced => pushJobs[e] > 0

LEMMA JobsCountedNext == TypeInv /\ JobsCounted /\ [PipelineNext]_pipelineVars => JobsCounted'
<1> SUFFICES ASSUME TypeInv, JobsCounted, [PipelineNext]_pipelineVars PROVE JobsCounted'
  OBVIOUS
<1>1. UNCHANGED <<produced, pushJobs>> => JobsCounted'
  BY DEF JobsCounted
<1>2. PersisterAlone => UNCHANGED <<produced, pushJobs>>
  BY DEF PersisterAlone, pushVars
<1>3. UNCHANGED pipelineVars => UNCHANGED <<produced, pushJobs>>
  BY DEF pipelineVars, vars, handlerVars, pushVars
<1>4. ASSUME NEW c \in Consumers, QueueJob(c) PROVE JobsCounted'
  <2>1. produced' = produced \cup {Event(c)}
    BY <1>4 DEF QueueJob, Push!ProduceJob
  <2>2. Event(c) \in Events
    BY <1>4, EventTyped DEF QueueJob, QueuePush, Handling
  <2>3. pushJobs \in [Events -> Nat] /\ pushJobs' = [pushJobs EXCEPT ![Event(c)] = @ + 1]
    BY <1>4 DEF QueueJob, QueuePush, TypeInv, TypeOK
  <2>4. \A e \in Events : pushJobs[e] \in Nat /\ (pushJobs'[e] = pushJobs[e] \/ pushJobs'[e] = pushJobs[e] + 1)
        /\ pushJobs'[Event(c)] = pushJobs[Event(c)] + 1
    BY <2>2, <2>3
  <2> QED BY <2>1, <2>2, <2>4 DEF JobsCounted
<1>5. PushAlone => UNCHANGED <<produced, pushJobs>>
  <2>1. UNCHANGED vars => UNCHANGED pushJobs
    BY DEF vars, handlerVars
  <2>2. ASSUME NEW c \in PushConsumers, Push!Handle(c)
        PROVE  UNCHANGED produced
    BY <2>2 DEF Push!Handle, Push!Handling, Push!Fetch, Push!AcquireLock, Push!SendSucceeds,
       Push!SendFails, Push!MarkDelivered, Push!ReleaseLock, Push!QueueRetry, Push!Commit
  <2>3. ASSUME NEW c \in PushConsumers, Push!HandleRetry(c) \/ Push!CrashDispatch(c)
                                     \/ Push!CrashRetry(c) \/ Push!Reassign(c)
        PROVE  UNCHANGED produced
    BY <2>3 DEF Push!HandleRetry, Push!FetchRetry, Push!NotTimeYet, Push!Requeue,
       Push!CommitRetry, Push!CrashDispatch, Push!CrashRetry, Push!Reassign
  <2>4. Push!RetryFallsDue \/ (\E p \in Push!Pairs : Push!LockExpires(p)) => UNCHANGED produced
    BY DEF Push!RetryFallsDue, Push!LockExpires
  <2> QED BY <2>1, <2>2, <2>3, <2>4 DEF PushAlone
<1> QED
  BY <1>1, <1>2, <1>3, <1>4, <1>5 DEF PipelineNext

LEMMA JobsAreCounted == PipelineSpec => [](TypeInv /\ JobsCounted /\ PushProofs!OnlyProduced)
<1>1. PipelineInit => JobsCounted
  BY DEF PipelineInit, Push!Init, JobsCounted
<1>2. PushProofs!Spec => []PushProofs!OnlyProduced
  BY PushTheSame, PushProofs!OnlyProducedIsPushed
<1> QED
  BY <1>1, <1>2, PipelineTyped, PushProofsApply, JobsCountedNext, PTL DEF PipelineSpec

\* No push is acknowledged or waits for a notification that the inbox does not hold.
THEOREM PushedAreSaved == PipelineSpec => []PushedIsSaved
<1>1. TypeInv /\ JobsCounted /\ PushProofs!OnlyProduced /\ PushProofs!TypeOK /\ AnnouncedOnlyIfSaved
      => PushedIsSaved
  <2> SUFFICES ASSUME TypeInv, JobsCounted, PushProofs!OnlyProduced, PushProofs!TypeOK,
                      AnnouncedOnlyIfSaved
               PROVE  PushedIsSaved
    OBVIOUS
  <2>1. ASSUME NEW e \in produced PROVE rows[e] > 0
    <3>1. e \in Events
      BY DEF PushProofs!TypeOK
    <3>2. pushJobs[e] > 0 /\ pushJobs[e] <= rows[e]
      BY <3>1 DEF JobsCounted, AnnouncedOnlyIfSaved
    <3>3. rows[e] \in Nat /\ pushJobs[e] \in Nat
      BY <3>1 DEF TypeInv, TypeOK
    <3> QED BY <3>2, <3>3
  <2>2. \A p \in Push!Pairs : delivered[p] > 0 => rows[p[1]] > 0
    BY <2>1 DEF PushProofs!OnlyProduced, PushProofs!Pairs, Push!Pairs
  <2>3. /\ \A i \in 1..Len(jobs) : rows[jobs[i].event] > 0
        /\ \A i \in 1..Len(retries) : rows[retries[i].event] > 0
    BY <2>1 DEF PushProofs!OnlyProduced
  <2> QED BY <2>2, <2>3 DEF PushedIsSaved
<1>2. PushProofs!Spec => []PushProofs!TypeOK
  BY PushTheSame, PushProofs!PushTypeCorrect
<1> QED
  BY <1>1, <1>2, JobsAreCounted, AnnouncedAreSaved, PipelineKeepsItsSpecs, PushProofsApply, PTL

\* What was produced under a standing block rings nowhere, and waits in neither topic.
THEOREM BlockedDoNotRing == PipelineSpec => []BlockedNeverRings
<1>1. TypeInv /\ JobsCounted /\ PushProofs!OnlyProduced /\ PushProofs!TypeOK /\ BlockedStaysSilent
      => BlockedNeverRings
  <2> SUFFICES ASSUME TypeInv, JobsCounted, PushProofs!OnlyProduced, PushProofs!TypeOK,
                      BlockedStaysSilent, NEW e \in covered \ unchecked
               PROVE  /\ \A t \in Tokens : delivered[<<e, t>>] = 0
                      /\ \A i \in 1..Len(jobs) : jobs[i].event # e
                      /\ \A i \in 1..Len(retries) : retries[i].event # e
    BY DEF BlockedNeverRings
  <2>1. e \in Events /\ e \notin produced
    BY DEF BlockedStaysSilent, JobsCounted, TypeInv, TypeOK
  <2>2. ASSUME NEW t \in Tokens PROVE delivered[<<e, t>>] = 0
    <3>1. <<e, t>> \in PushProofs!Pairs /\ <<e, t>>[1] = e
      BY <2>1 DEF PushProofs!Pairs
    <3>2. delivered[<<e, t>>] \in Nat
      BY <3>1 DEF PushProofs!TypeOK
    <3> QED BY <2>1, <3>1, <3>2 DEF PushProofs!OnlyProduced
  <2> QED BY <2>1, <2>2 DEF PushProofs!OnlyProduced
<1>2. PushProofs!Spec => []PushProofs!TypeOK
  BY PushTheSame, PushProofs!PushTypeCorrect
<1> QED
  BY <1>1, <1>2, JobsAreCounted, BlockedAreSilent, PipelineKeepsItsSpecs, PushProofsApply, PTL
=============================================================================
