--------------------------- MODULE DeliveryProofs ---------------------------
(***************************************************************************)
(* Proofs about the parts that bring a change to somebody else, which run  *)
(* side by side in Delivery: DirectMessages, for any requests, keys,       *)
(* blocks and failures; NearbyFanout, for any people, cells, jobs and      *)
(* processes; and SearchIndex, for any saves and processes.                *)
(***************************************************************************)
EXTENDS Delivery, FiniteSetTheorems, SequenceTheorems, TLAPS

-----------------------------------------------------------------------------
(* Direct messages: the invariant.                                         *)

\* What a request has read by the time it is at a label, and which endpoint the
\* label belongs to.
InOrder ==
  /\ \A r \in Requests : pc[r] \in {"mayOpen", "lwt", "rows", "existing", "ensure"} =>
                              kind[r] = "create"
  /\ \A r \in Requests : pc[r] \in {"check", "keys", "last", "batch", "notify"} => kind[r] = "send"
  /\ \A r \in Requests :
       pc[r] \in {"existing", "ensure", "keys", "last", "batch", "deleteConv", "drop"}
         => created # 0
  /\ \A r \in Requests : pc[r] \in {"rows", "last", "batch"} => time[r] # 0
  /\ \A r \in Requests : pc[r] = "ensure" => old[r] # 0
  /\ \A r \in Requests : pc[r] \in {"deleteMsg", "tomb", "read"} => target[r] \in messages
  /\ \A r \in Requests : pc[r] = "notify" => r \in messages
  /\ \A r \in messages : pc[r] \in {"notify", "done", "failed"}

\* Where somebody has keys, one of them is the newest.
KeysHaveNewest ==
  \A u \in Participants : keys[u] # {} => \E v \in keys[u] : \A w \in keys[u] : w <= v

\* The versions of a message are known from the moment they are checked.
KeysChecked ==
  /\ \A r \in Requests : pc[r] \in {"check", "keys"} => kv[r] \in Versions
  /\ \A r \in Requests : pc[r] \in {"last", "batch"} \/ r \in messages =>
       kv[r] \in keys[Other(user[r])] /\ skv[r] \in keys[user[r]]

\* A request under a standing block gets no further than the check.
BlockInTheWay ==
  /\ standing # {} => blocked
  /\ \A r \in standing :
       /\ r \notin messages
       /\ pc[r] # "idle"
       /\ kind[r] = "create" => pc[r] \in {"mayOpen", "failed"}
       /\ kind[r] = "send" => pc[r] \in {"check", "failed"}

\* No two requests have read one time, and who is about to move the conversation
\* up moves it to a time it has not.
TimesDiffer ==
  /\ \A r, s \in Requests : r # s => time[r] # time[s] \/ time[r] = 0
  /\ \A r \in Requests : pc[r] \in {"last", "batch"} => last # time[r]
  /\ \A r \in Requests : pc[r] = "batch" => old[r] # time[r]

-----------------------------------------------------------------------------
(* Direct messages: types, keys and blocks.                                *)

MessageInv == TypeOK /\ InOrder /\ KeysHaveNewest /\ KeysChecked /\ BlockInTheWay

\* There is another one.
LEMMA OtherOne == \A u \in Participants : Other(u) \in Participants
<1> SUFFICES ASSUME NEW u \in Participants PROVE \E v \in Participants : v # u
  BY DEF Other
<1>1. CASE Participants = {u}
  <2>1. Cardinality({u}) = 1 /\ Cardinality(Participants) = 2
    BY FS_Singleton, DMAssumption
  <2> QED BY <1>1, <2>1
<1> QED BY <1>1

\* The newest key is one of the keys.
LEMMA CurrentKeyIsKey ==
  ASSUME KeysHaveNewest, NEW u \in Participants
  PROVE  IF keys[u] = {} THEN CurrentKey(u) = 0 ELSE CurrentKey(u) \in keys[u]
BY DEF KeysHaveNewest, CurrentKey

LEMMA MessageTypeNext == MessageInv /\ [Next]_vars => TypeOK' /\ InOrder'
<1> SUFFICES ASSUME MessageInv, [Next]_vars PROVE TypeOK' /\ InOrder'
  OBVIOUS
<1> USE DEF MessageInv, TypeOK, InOrder, Goto, Now, Untouched, Unlisted, conv, Labels
<1>1. ASSUME NEW r \in Requests, PostConversation(r) PROVE TypeOK' /\ InOrder'
  BY <1>1 DEF PostConversation, Accept
<1>2. ASSUME NEW r \in Requests, PostMessage(r) PROVE TypeOK' /\ InOrder'
  BY <1>2 DEF PostMessage, Accept
<1>3. ASSUME NEW r \in Requests, DeleteConversation(r) \/ DeleteMessage(r) \/ PutRead(r)
      PROVE  TypeOK' /\ InOrder'
  BY <1>3 DEF DeleteConversation, DeleteMessage, PutRead, Accept, IfCreated
<1>4. ASSUME NEW r \in Requests, InsertConversation(r) PROVE TypeOK' /\ InOrder'
  BY <1>4 DEF InsertConversation
<1>5. ASSUME NEW r \in Requests, InsertInboxRows(r) PROVE TypeOK' /\ InOrder'
  BY <1>5 DEF InsertInboxRows
<1>6. ASSUME NEW r \in Requests, ReadExisting(r) PROVE TypeOK' /\ InOrder'
  BY <1>6 DEF ReadExisting
<1>7. ASSUME NEW r \in Requests, EnsureInboxRow(r) PROVE TypeOK' /\ InOrder'
  BY <1>7 DEF EnsureInboxRow
<1>8. ASSUME NEW r \in Requests, MayOpen(r) \/ CheckBlock(r) PROVE TypeOK' /\ InOrder'
  <2>1. CASE MayOpen(r)
    <3>1. /\ UNCHANGED <<clock, created, last, inbox, messages, deleted, receipts, keys, blocked,
                         kind, user, time, old, kv, skv, target, announced, owed, standing, hidden>>
          /\ pc[r] = "mayOpen" /\ pc' = [pc EXCEPT ![r] = pc'[r]]
          /\ pc'[r] \in {"failed", "lwt"}
      BY <2>1 DEF MayOpen
    <3>2. TypeOK'
      BY <3>1
    <3>3. InOrder'
      BY <3>1
    <3> QED BY <3>2, <3>3
  <2>2. CASE CheckBlock(r)
    BY <2>2 DEF CheckBlock
  <2> QED BY <1>8, <2>1, <2>2
<1>9. ASSUME NEW r \in Requests, CheckKeys(r) PROVE TypeOK' /\ InOrder'
  <2>1. CurrentKey(user[r]) \in Versions \cup {0}
    BY CurrentKeyIsKey
  <2> QED BY <1>9, <2>1 DEF CheckKeys
<1>10. ASSUME NEW r \in Requests, ReadLast(r) PROVE TypeOK' /\ InOrder'
  BY <1>10 DEF ReadLast
<1>11. ASSUME NEW r \in Requests, SendBatch(r) PROVE TypeOK' /\ InOrder'
  BY <1>11 DEF SendBatch, StoreMessage, Bumped
<1>12. ASSUME NEW r \in Requests, Announce(r) PROVE TypeOK' /\ InOrder'
  BY <1>12 DEF Announce
<1>13. ASSUME NEW r \in Requests, ReadToHide(r) \/ DropInboxRow(r) PROVE TypeOK' /\ InOrder'
  <2>1. CASE ReadToHide(r)
    BY <2>1 DEF ReadToHide
  <2>2. CASE DropInboxRow(r)
    BY <2>2 DEF DropInboxRow
  <2> QED BY <1>13, <2>1, <2>2
<1>14. ASSUME NEW r \in Requests, ReadMessage(r) \/ SetDeletedAt(r) \/ MarkRead(r)
       PROVE  TypeOK' /\ InOrder'
  BY <1>14 DEF ReadMessage, SetDeletedAt, MarkRead
<1>15. ASSUME NEW r \in Requests, Fail(r) PROVE TypeOK' /\ InOrder'
  BY <1>15 DEF Fail
<1>16. ASSUME NEW u \in Participants, NEW v \in Versions, UpsertPublicKey(u, v)
       PROVE  TypeOK' /\ InOrder'
  BY <1>16 DEF UpsertPublicKey, request
<1>17. CASE BlockUser \/ UnblockUser
  BY <1>17 DEF BlockUser, UnblockUser, request
<1>18. CASE UNCHANGED vars
  BY <1>18 DEF vars, request
<1> QED
  BY <1>1, <1>2, <1>3, <1>4, <1>5, <1>6, <1>7, <1>8, <1>9, <1>10, <1>11, <1>12, <1>13,
     <1>14, <1>15, <1>16, <1>17, <1>18 DEF Next, Receive, Step

LEMMA KeysNext == MessageInv /\ [Next]_vars => KeysHaveNewest' /\ KeysChecked' /\ BlockInTheWay'
<1> SUFFICES ASSUME MessageInv, [Next]_vars
             PROVE  KeysHaveNewest' /\ KeysChecked' /\ BlockInTheWay'
  OBVIOUS
<1> DEFINE Kept == KeysHaveNewest' /\ KeysChecked' /\ BlockInTheWay'
<1> USE DEF MessageInv, TypeOK, InOrder, Goto, Now, Untouched, Unlisted, Labels
<1>p. ASSUME UNCHANGED keys PROVE KeysHaveNewest'
  BY <1>p DEF KeysHaveNewest
<1>1. ASSUME NEW r \in Requests, Receive(r) PROVE Kept
  BY <1>1, <1>p DEF Receive, PostConversation, PostMessage, DeleteConversation,
     DeleteMessage, PutRead, Accept, IfCreated, KeysChecked, BlockInTheWay
<1>2. ASSUME NEW r \in Requests, MayOpen(r) \/ CheckBlock(r) PROVE Kept
  BY <1>2, <1>p DEF MayOpen, CheckBlock, KeysChecked, BlockInTheWay
<1>3. ASSUME NEW r \in Requests, CheckKeys(r) PROVE Kept
  <2>1. user[r] \in Participants /\ Other(user[r]) \in Participants
    BY OtherOne
  <2>2. CurrentKey(user[r]) \in keys[user[r]] \/ keys[user[r]] = {}
    BY <2>1, CurrentKeyIsKey
  <2>3. CurrentKey(Other(user[r])) = 0 \/ CurrentKey(Other(user[r])) \in keys[Other(user[r])]
    BY <2>1, CurrentKeyIsKey
  <2>4. kv[r] # 0
    BY <1>3, DMAssumption DEF CheckKeys, KeysChecked
  <2>5. KeysChecked'
    BY <1>3, <2>1, <2>2, <2>3, <2>4 DEF CheckKeys, KeysChecked
  <2>6. BlockInTheWay'
    BY <1>3 DEF CheckKeys, BlockInTheWay
  <2> QED BY <1>3, <1>p, <2>5, <2>6 DEF CheckKeys
<1>4. ASSUME NEW r \in Requests,
             InsertConversation(r) \/ InsertInboxRows(r) \/ ReadExisting(r) \/ EnsureInboxRow(r)
      PROVE  Kept
  BY <1>4, <1>p DEF InsertConversation, InsertInboxRows, ReadExisting, EnsureInboxRow,
     KeysChecked, BlockInTheWay
<1>5. ASSUME NEW r \in Requests, ReadLast(r) \/ SendBatch(r) \/ Announce(r) PROVE Kept
  BY <1>5, <1>p DEF ReadLast, SendBatch, StoreMessage, Announce, KeysChecked, BlockInTheWay
<1>6. ASSUME NEW r \in Requests, ReadToHide(r) \/ DropInboxRow(r) \/ Fail(r) PROVE Kept
  BY <1>6, <1>p DEF ReadToHide, DropInboxRow, Fail, KeysChecked, BlockInTheWay
<1>7. ASSUME NEW r \in Requests, ReadMessage(r) \/ SetDeletedAt(r) \/ MarkRead(r) PROVE Kept
  BY <1>7, <1>p DEF ReadMessage, SetDeletedAt, MarkRead, KeysChecked, BlockInTheWay
<1>8. ASSUME NEW u \in Participants, NEW v \in Versions, UpsertPublicKey(u, v) PROVE Kept
  <2>1. /\ keys'[u] = keys[u] \cup {v}
        /\ \A w \in Participants \ {u} : keys'[w] = keys[w]
        /\ UNCHANGED <<messages, blocked, standing, kind, user, pc, kv, skv>>
    BY <1>8 DEF UpsertPublicKey, request
  <2>2. \E w \in keys'[u] : \A x \in keys'[u] : x <= w
    <3>1. v \in Nat /\ keys[u] \subseteq Nat
      BY DMAssumption
    <3>2. CASE keys[u] = {}
      BY <2>1, <3>1, <3>2
    <3>3. CASE keys[u] # {}
      <4>1. PICK w \in keys[u] : \A x \in keys[u] : x <= w
        BY <3>3 DEF KeysHaveNewest
      <4>2. CASE v <= w
        BY <2>1, <3>1, <4>1, <4>2
      <4>3. CASE w <= v
        BY <2>1, <3>1, <4>1, <4>3
      <4> QED BY <3>1, <4>1, <4>2, <4>3
    <3> QED BY <3>2, <3>3
  <2>3. KeysHaveNewest'
    BY <2>1, <2>2 DEF KeysHaveNewest
  <2>4. \A r \in Requests :
          keys[user[r]] \subseteq keys'[user[r]] /\ keys[Other(user[r])] \subseteq keys'[Other(user[r])]
    BY <2>1, OtherOne
  <2>5. KeysChecked'
    BY <2>1, <2>4 DEF KeysChecked
  <2> QED BY <2>1, <2>3, <2>5 DEF BlockInTheWay
<1>9. CASE BlockUser \/ UnblockUser
  BY <1>9, <1>p DEF BlockUser, UnblockUser, request, KeysChecked, BlockInTheWay
<1>10. CASE UNCHANGED vars
  BY <1>10, <1>p DEF vars, request, KeysChecked, BlockInTheWay
<1> QED
  BY <1>1, <1>2, <1>3, <1>4, <1>5, <1>6, <1>7, <1>8, <1>9, <1>10 DEF Next, Step

LEMMA MessageInit == Init => MessageInv
<1> SUFFICES ASSUME Init PROVE MessageInv
  OBVIOUS
<1>1. /\ created \in 0..clock /\ last \in 0..clock
      /\ created = 0 <=> last = 0
      /\ inbox \subseteq Participants \X (1..clock)
      /\ time \in [Requests -> 0..clock] /\ old \in [Requests -> 0..clock]
  BY DEF Init
<1>2. /\ receipts \in [Participants -> messages \cup {"none"}]
      /\ keys \in [Participants -> SUBSET Versions]
      /\ pc \in [Requests -> Labels]
  BY DEF Init, Labels
<1>3. /\ kv \in [Requests -> Versions \cup {0}] /\ skv \in [Requests -> Versions \cup {0}]
      /\ target \in [Requests -> Requests]
  BY DEF Init
<1>4. /\ clock \in Nat \ {0}
      /\ messages \subseteq Requests /\ deleted \subseteq messages /\ announced \subseteq messages
      /\ kind \in [Requests -> Kinds] /\ user \in [Requests -> Participants]
      /\ owed \subseteq Participants /\ hidden \subseteq Participants
      /\ standing \subseteq Requests
  BY DEF Init
<1>5. blocked \in BOOLEAN
  BY DEF Init
<1>6. TypeOK
  BY <1>1, <1>2, <1>3, <1>4, <1>5 DEF TypeOK
<1> QED
  BY <1>6 DEF Init, MessageInv, InOrder, KeysHaveNewest, KeysChecked, BlockInTheWay

\* Every reachable state is well typed: a row of an inbox is at a time that has
\* been, a receipt is for a message that was stored, and the conversation has a
\* last message exactly when it has been created.
THEOREM MessagesTypeCorrect == Spec => []TypeOK
<1>1. MessageInv /\ [Next]_vars => MessageInv'
  BY MessageTypeNext, KeysNext DEF MessageInv
<1>2. MessageInv => TypeOK
  BY DEF MessageInv
<1> QED
  BY <1>1, <1>2, MessageInit, PTL DEF Spec

\* What is stored names keys that were published, however they are rotated on the way.
THEOREM StoredHaveKeys == Spec => []StoredForKnownKeys
<1>1. MessageInv /\ [Next]_vars => MessageInv'
  BY MessageTypeNext, KeysNext DEF MessageInv
<1>2. MessageInv => StoredForKnownKeys
  BY DEF MessageInv, TypeOK, KeysChecked, StoredForKnownKeys
<1> QED
  BY <1>1, <1>2, MessageInit, PTL DEF Spec

\* A block that stood when a request came in, and stands, stops the request,
\* whatever else is under way.
THEOREM BlocksStop == Spec => []BlockStopsTraffic
<1>1. MessageInv /\ [Next]_vars => MessageInv'
  BY MessageTypeNext, KeysNext DEF MessageInv
<1>2. MessageInv => BlockStopsTraffic
  BY DEF MessageInv, BlockInTheWay, BlockStopsTraffic
<1> QED
  BY <1>1, <1>2, MessageInit, PTL DEF Spec

-----------------------------------------------------------------------------
(* Direct messages: the inboxes.                                           *)

InboxesInv == MessageInv /\ TimesDiffer /\ NeverLostFromInbox

LEMMA InboxesNext == ASSUME ~Ties PROVE InboxesInv /\ [Next]_vars => InboxesInv'
<1> SUFFICES ASSUME InboxesInv, [Next]_vars PROVE TimesDiffer' /\ NeverLostFromInbox'
  BY MessageTypeNext, KeysNext DEF InboxesInv, MessageInv
<1> DEFINE Kept == TimesDiffer' /\ NeverLostFromInbox'
<1> USE ~Ties DEF InboxesInv, MessageInv, TypeOK, InOrder, Goto, Now, Untouched, Unlisted,
        conv, Labels
<1>p. ASSUME UNCHANGED <<inbox, owed>>, clock <= clock', clock' \in Nat PROVE NeverLostFromInbox'
  BY <1>p DEF NeverLostFromInbox, Lists
<1>1. ASSUME NEW r \in Requests, Receive(r) PROVE Kept
  BY <1>1, <1>p DEF Receive, PostConversation, PostMessage, DeleteConversation,
     DeleteMessage, PutRead, Accept, IfCreated, TimesDiffer
<1>2. ASSUME NEW r \in Requests, MayOpen(r) \/ CheckBlock(r) PROVE Kept
  BY <1>2, <1>p DEF MayOpen, CheckBlock, TimesDiffer
<1>3. ASSUME NEW r \in Requests, CheckKeys(r) PROVE Kept
  BY <1>3, <1>p DEF CheckKeys, TimesDiffer
<1>4. ASSUME NEW r \in Requests, InsertConversation(r) PROVE Kept
  BY <1>4, <1>p DEF InsertConversation, TimesDiffer
<1>5. ASSUME NEW r \in Requests, InsertInboxRows(r) PROVE Kept
  <2>1. \A u \in Participants : <<u, time[r]>> \in inbox' /\ time[r] \in 1..clock'
    BY <1>5 DEF InsertInboxRows
  <2> QED BY <1>5, <2>1 DEF InsertInboxRows, TimesDiffer, NeverLostFromInbox, Lists
<1>6. ASSUME NEW r \in Requests, ReadExisting(r) \/ ReadLast(r) \/ ReadToHide(r) \/ Fail(r) PROVE Kept
  BY <1>6, <1>p DEF ReadExisting, ReadLast, ReadToHide, Fail, TimesDiffer
<1>7. ASSUME NEW r \in Requests, EnsureInboxRow(r) PROVE Kept
  <2>1. <<user[r], old[r]>> \in inbox' /\ old[r] \in 1..clock'
    BY <1>7 DEF EnsureInboxRow
  <2> QED BY <1>7, <2>1 DEF EnsureInboxRow, TimesDiffer, NeverLostFromInbox, Lists
<1>8. ASSUME NEW r \in Requests, SendBatch(r) PROVE Kept
  <2>1. time[r] \in 1..clock /\ old[r] # time[r]
    BY <1>8 DEF SendBatch, TimesDiffer
  <2>2. \A u \in Participants : <<u, time[r]>> \in inbox'
    BY <1>8, <2>1 DEF SendBatch, StoreMessage, Bumped
  <2>3. NeverLostFromInbox'
    BY <1>8, <2>1, <2>2 DEF SendBatch, StoreMessage, NeverLostFromInbox, Lists
  <2>4. TimesDiffer'
    BY <1>8, <2>1 DEF SendBatch, StoreMessage, TimesDiffer
  <2> QED BY <2>3, <2>4
<1>9. ASSUME NEW r \in Requests, DropInboxRow(r) PROVE Kept
  BY <1>9 DEF DropInboxRow, TimesDiffer, NeverLostFromInbox, Lists
<1>10. ASSUME NEW r \in Requests, Announce(r) \/ ReadMessage(r) \/ SetDeletedAt(r) \/ MarkRead(r)
       PROVE  Kept
  BY <1>10, <1>p DEF Announce, ReadMessage, SetDeletedAt, MarkRead, TimesDiffer
<1>11. ASSUME NEW u \in Participants, NEW v \in Versions, UpsertPublicKey(u, v) PROVE Kept
  BY <1>11, <1>p DEF UpsertPublicKey, request, TimesDiffer
<1>12. CASE BlockUser \/ UnblockUser
  BY <1>12, <1>p DEF BlockUser, UnblockUser, request, TimesDiffer
<1>13. CASE UNCHANGED vars
  BY <1>13, <1>p DEF vars, request, TimesDiffer
<1> QED
  BY <1>1, <1>2, <1>3, <1>4, <1>5, <1>6, <1>7, <1>8, <1>9, <1>10, <1>11, <1>12, <1>13
  DEF Next, Step

\* Where no two requests read the clock in one millisecond, only one's own deletion
\* takes the conversation out of an inbox, whatever sends, openings, deletions and
\* failures overlap.
THEOREM InboxesKeepConversation == ASSUME ~Ties PROVE Spec => []NeverLostFromInbox
<1>1. Init => InboxesInv
  BY MessageInit DEF InboxesInv, Init, TimesDiffer, NeverLostFromInbox
<1>2. InboxesInv => NeverLostFromInbox
  BY DEF InboxesInv
<1> QED
  BY <1>1, <1>2, InboxesNext, PTL DEF Spec
-----------------------------------------------------------------------------
(* The fan-out of a post: the invariant.                                   *)

\* The handlers of jobs that have a person still to be told, if ever.
Untold(j, p) == {c \in Consumers : Works(c) /\ Job(c) = j /\ p \notin seen[c]}

\* Who is in hand is in the log; nobody reads past its end.
WithinJobs ==
  /\ committed <= Len(jobLog) /\ position <= Len(jobLog)
  /\ \A c \in Consumers : inHand[c] <= Len(jobLog)

\* What a handler knows.
HandlerKnows ==
  \A c \in Consumers :
    /\ steady[c] \subseteq subscribed
    /\ ~Works(c) => cell[c] = 1 /\ toTell[c] = {} /\ ~passedOver[c]
    /\ Works(c) =>
         /\ Author \in seen[c]
         /\ ~passedOver[c] =>
              \A p \in People, k \in Cells :
                <<p, k>> \in steady[c] /\ k < cell[c] => p \in toTell[c] \cup seen[c]
         /\ \A p \in seen[c] \ {Author} : told[<<Job(c), p>>] > 0 \/ <<Job(c), p>> \in lost

\* Every handling of a job has told a person, or may yet, once.
OncePerHandling ==
  \A j \in Jobs, p \in People : told[<<j, p>>] + Cardinality(Untold(j, p)) <= handled[j]

FanoutInv == FanoutTypeOK /\ WithinJobs /\ HandlerKnows

-----------------------------------------------------------------------------
(* The fan-out of a post: types.                                           *)

\* The producer writes behind what is there, and nothing but the job.
LEMMA JobsGrow ==
  ASSUME jobLog \in Seq(Jobs), NEW j \in Jobs, DispatchNearbyFanout(j)
  PROVE  /\ jobLog' \in Seq(Jobs) /\ Len(jobLog) <= Len(jobLog')
         /\ \A o \in 1..Len(jobLog) : jobLog'[o] = jobLog[o]
<1>1. CASE jobLog' = Append(jobLog, j)
  BY <1>1
<1>2. CASE jobLog' = jobLog \o <<j, j>>
  <2>1. <<j, j>> \in Seq(Jobs) /\ Len(<<j, j>>) = 2
    OBVIOUS
  <2>2. jobLog' \in Seq(Jobs) /\ Len(jobLog') = Len(jobLog) + 2
        /\ \A i \in 1..Len(jobLog) + 2 :
             jobLog'[i] = IF i <= Len(jobLog) THEN jobLog[i] ELSE <<j, j>>[i - Len(jobLog)]
    BY <1>2, <2>1, ConcatProperties
  <2>3. Len(jobLog) \in Nat
    BY LenProperties
  <2> QED BY <2>2, <2>3
<1>3. CASE UNCHANGED jobLog
  BY <1>3, LenProperties
<1> QED
  BY <1>1, <1>2, <1>3 DEF DispatchNearbyFanout

LEMMA FanoutTypeNext == FanoutInv /\ [FanoutNext]_fanoutVars => FanoutTypeOK' /\ WithinJobs'
<1> SUFFICES ASSUME FanoutInv, [FanoutNext]_fanoutVars PROVE FanoutTypeOK' /\ WithinJobs'
  OBVIOUS
<1> DEFINE Kept == FanoutTypeOK' /\ WithinJobs'
<1> USE ConsumerAssumption, FanoutAssumption
    DEF FanoutInv, FanoutTypeOK, WithinJobs, GroupTypeOK, groupVars, handling, Subscriptions
<1>w. ASSUME NEW c \in Consumers, Works(c) PROVE Job(c) \in Jobs
  BY <1>w DEF Works, Job
<1>1. ASSUME NEW p \in People, NEW k \in Cells, ChangeSubscription(p, k) PROVE Kept
  <2>1. moves + 1 \in 0..MaxMoves /\ <<p, k>> \in People \X Cells
    BY <1>1 DEF ChangeSubscription
  <2> QED BY <1>1, <2>1 DEF ChangeSubscription
<1>2. ASSUME NEW j \in Jobs, DispatchNearbyFanout(j) PROVE Kept
  <2>1. jobLog' \in Seq(Jobs) /\ Len(jobLog) <= Len(jobLog')
    BY <1>2, JobsGrow
  <2>2. Len(jobLog) \in Nat /\ Len(jobLog') \in Nat
    BY <2>1, LenProperties
  <2>3. posted' \subseteq Jobs
        /\ UNCHANGED <<groupVars, subscribed, moves, handling, told, handled, lost, promised>>
    BY <1>2 DEF DispatchNearbyFanout
  <2>4. WithinJobs'
    BY <2>1, <2>2, <2>3
  <2>5. FanoutTypeOK'
    BY <2>1, <2>3
  <2> QED BY <2>4, <2>5
<1>3. ASSUME NEW c \in Consumers, FetchJob(c) PROVE Kept
  <2>1. jobLog[position + 1] \in Jobs
    BY <1>3 DEF FetchJob, FetchMessage
  <2>2. handled[jobLog[position + 1]] + 1 \in Nat
    BY <2>1
  <2>3. GroupTypeOK' /\ WithinJobs'
    BY <1>3 DEF FetchJob, FetchMessage
  <2>4. toTell[c] = {}
    BY <1>3 DEF FetchJob, FetchMessage, HandlerKnows, Works
  <2> QED BY <1>3, <2>1, <2>2, <2>3, <2>4 DEF FetchJob
<1>4. ASSUME NEW c \in Consumers, ReadCell(c) PROVE Kept
  <2>1. cell[c] + 1 \in 1..(CellCount + 1)
    BY <1>4 DEF ReadCell, Cells
  <2> QED BY <1>4, <2>1 DEF ReadCell
<1>5. ASSUME NEW c \in Consumers, ReadCellFails(c) PROVE Kept
  <2>1. cell[c] + 1 \in 1..(CellCount + 1)
    BY <1>5 DEF ReadCellFails, Cells
  <2> QED BY <1>5, <2>1 DEF ReadCellFails
<1>6. ASSUME NEW c \in Consumers, NEW p \in People, Tell(c, p) PROVE Kept
  <2>1. <<Job(c), p>> \in Jobs \X People
    BY <1>6, <1>w DEF Tell
  <2>2. told[<<Job(c), p>>] + 1 \in Nat
    BY <2>1
  <2>3. told' \in [Jobs \X People -> Nat] /\ lost' \subseteq Jobs \X People
    <3>1. CASE told' = [told EXCEPT ![<<Job(c), p>>] = @ + 1] /\ UNCHANGED lost
      BY <2>1, <2>2, <3>1
    <3>2. CASE lost' = lost \cup {<<Job(c), p>>} /\ UNCHANGED told
      BY <2>1, <3>2
    <3> QED BY <1>6, <3>1, <3>2 DEF Tell
  <2> QED BY <1>6, <2>3 DEF Tell
<1>7. ASSUME NEW c \in Consumers, FinishJob(c) PROVE Kept
  <2>1. promised' \subseteq Jobs \X People
    <3>1. {s[1] : s \in steady[c]} \subseteq People
      BY SMTT(30)
    <3>2. Job(c) \in Jobs
      BY <1>7, <1>w DEF FinishJob
    <3> QED BY <1>7, <3>1, <3>2, SMTT(30) DEF FinishJob
  <2>2. GroupTypeOK' /\ WithinJobs'
    BY <1>7, ConsumerAssumption, SMTT(30) DEF FinishJob, CommitMessages, Disrupt
  <2>3. /\ cell' \in [Consumers -> 1..(CellCount + 1)]
        /\ toTell' \in [Consumers -> SUBSET People] /\ seen' \in [Consumers -> SUBSET People]
        /\ \A d \in Consumers : toTell'[d] \cap seen'[d] = {}
        /\ steady' \in [Consumers -> SUBSET Subscriptions]
        /\ passedOver' \in [Consumers -> BOOLEAN]
    BY <1>7, SMTT(30) DEF FinishJob, Forgets
  <2> QED BY <1>7, <2>1, <2>2, <2>3 DEF FinishJob
<1>8. ASSUME NEW c \in Consumers, CrashInJob(c) PROVE Kept
  <2>1. GroupTypeOK' /\ WithinJobs'
    BY <1>8 DEF CrashInJob, Crash, Disrupt
  <2>2. /\ cell' \in [Consumers -> 1..(CellCount + 1)]
        /\ toTell' \in [Consumers -> SUBSET People] /\ seen' \in [Consumers -> SUBSET People]
        /\ \A d \in Consumers : toTell'[d] \cap seen'[d] = {}
        /\ steady' \in [Consumers -> SUBSET Subscriptions]
        /\ passedOver' \in [Consumers -> BOOLEAN]
    BY <1>8 DEF CrashInJob, Forgets
  <2> QED BY <1>8, <2>1, <2>2 DEF CrashInJob
<1>9. ASSUME NEW c \in Consumers, ReassignJobs(c) PROVE Kept
  <2>1. GroupTypeOK' /\ WithinJobs'
    BY <1>9 DEF ReassignJobs, Rebalance, Disrupt
  <2> QED BY <1>9, <2>1 DEF ReassignJobs
<1>10. CASE UNCHANGED fanoutVars
  BY <1>10 DEF fanoutVars
<1> QED
  BY <1>1, <1>2, <1>3, <1>4, <1>5, <1>6, <1>7, <1>8, <1>9, <1>10 DEF FanoutNext

-----------------------------------------------------------------------------
(* The fan-out of a post: each once.                                       *)

\* A handler that has a job keeps it: the log only grows.
LEMMA JobStays ==
  ASSUME FanoutInv, [FanoutNext]_fanoutVars, NEW c \in Consumers, inHand[c] # 0,
         inHand'[c] = inHand[c]
  PROVE  Job(c)' = Job(c) /\ Job(c) \in Jobs
<1> USE DEF FanoutInv, WithinJobs, FanoutTypeOK, GroupTypeOK
<1>1. inHand[c] \in 1..Len(jobLog)
  OBVIOUS
<1>2. \A o \in 1..Len(jobLog) : jobLog'[o] = jobLog[o]
  <2>1. ASSUME NEW j \in Jobs, DispatchNearbyFanout(j)
        PROVE  \A o \in 1..Len(jobLog) : jobLog'[o] = jobLog[o]
    BY <2>1, JobsGrow
  <2>2. (\A j \in Jobs : ~DispatchNearbyFanout(j)) => jobLog' = jobLog
    BY DEF FanoutNext, fanoutVars, ChangeSubscription, FetchJob, ReadCell, ReadCellFails,
           Tell, FinishJob, CrashInJob, ReassignJobs
  <2> QED BY <2>1, <2>2
<1> QED BY <1>1, <1>2 DEF Job

\* What a handler knows does not depend on what the others do.
KnowsOf(c) ==
  /\ steady[c] \subseteq subscribed
  /\ ~Works(c) => cell[c] = 1 /\ toTell[c] = {} /\ ~passedOver[c]
  /\ Works(c) =>
       /\ Author \in seen[c]
       /\ ~passedOver[c] =>
            \A p \in People, k \in Cells :
              <<p, k>> \in steady[c] /\ k < cell[c] => p \in toTell[c] \cup seen[c]
       /\ \A p \in seen[c] \ {Author} : told[<<Job(c), p>>] > 0 \/ <<Job(c), p>> \in lost

LEMMA KnowsStays ==
  ASSUME FanoutInv, [FanoutNext]_fanoutVars, NEW c \in Consumers,
         inHand'[c] = inHand[c], cell'[c] = cell[c], toTell'[c] = toTell[c],
         seen'[c] = seen[c], passedOver'[c] = passedOver[c],
         steady'[c] \subseteq steady[c], steady'[c] \subseteq subscribed',
         \A jp \in Jobs \X People : told[jp] > 0 => told'[jp] > 0,
         lost \subseteq lost'
  PROVE  KnowsOf(c)'
<1>1. KnowsOf(c)
  BY DEF FanoutInv, HandlerKnows, KnowsOf
<1>2. CASE inHand[c] = 0
  BY <1>1, <1>2 DEF KnowsOf, Works
<1>3. CASE inHand[c] # 0
  <2>1. Job(c)' = Job(c) /\ Job(c) \in Jobs
    BY <1>3, JobStays
  <2>2. seen[c] \subseteq People
    BY DEF FanoutInv, FanoutTypeOK
  <2> QED BY <1>1, <1>3, <2>1, <2>2 DEF KnowsOf, Works
<1> QED BY <1>2, <1>3

LEMMA KnowsNext == FanoutInv /\ [FanoutNext]_fanoutVars => HandlerKnows'
<1> SUFFICES ASSUME FanoutInv, [FanoutNext]_fanoutVars, NEW d \in Consumers PROVE KnowsOf(d)'
  BY DEF HandlerKnows, KnowsOf
<1>t. FanoutTypeOK /\ GroupTypeOK /\ WithinJobs /\ KnowsOf(d)
  BY DEF FanoutInv, FanoutTypeOK, HandlerKnows, KnowsOf
<1> USE DEF groupVars, handling
<1>1. ASSUME NEW p \in People, NEW k \in Cells, ChangeSubscription(p, k) PROVE KnowsOf(d)'
  <2>1. steady'[d] = steady[d] \cap subscribed'
    BY <1>1 DEF ChangeSubscription
  <2> QED BY <1>1, <2>1, KnowsStays DEF ChangeSubscription
<1>2. CASE (\E j \in Jobs : DispatchNearbyFanout(j)) \/ (\E c \in Consumers : ReassignJobs(c))
           \/ UNCHANGED fanoutVars
  <2>1. UNCHANGED <<inHand, handling, subscribed, told, lost>>
    BY <1>2 DEF DispatchNearbyFanout, ReassignJobs, Rebalance, fanoutVars
  <2> QED BY <2>1, <1>t, KnowsStays DEF KnowsOf
<1>3. ASSUME NEW c \in Consumers, FetchJob(c) PROVE KnowsOf(d)'
  <2>1. CASE d = c
    <3>1. /\ inHand'[c] # 0 /\ seen'[c] = {Author} /\ steady'[c] = subscribed
          /\ UNCHANGED <<subscribed, cell, toTell, passedOver>> /\ inHand[c] = 0
      BY <1>3, <1>t DEF FetchJob, FetchMessage, FanoutTypeOK, GroupTypeOK
    <3>2. cell[c] = 1
      BY <2>1, <3>1, <1>t DEF KnowsOf, Works
    <3> QED BY <2>1, <3>1, <3>2 DEF KnowsOf, Works, Cells
  <2>2. CASE d # c
    <3>1. /\ inHand'[d] = inHand[d] /\ seen'[d] = seen[d] /\ steady'[d] = steady[d]
          /\ UNCHANGED <<subscribed, cell, toTell, passedOver, told, lost>>
      BY <1>3, <2>2, <1>t DEF FetchJob, FetchMessage, FanoutTypeOK, GroupTypeOK
    <3> QED BY <3>1, <1>t, KnowsStays DEF KnowsOf
  <2> QED BY <2>1, <2>2
<1>4. ASSUME NEW c \in Consumers, ReadCell(c) PROVE KnowsOf(d)'
  <2>1. UNCHANGED <<inHand, jobLog, subscribed, seen, steady, passedOver, told, lost>> /\ Works(c)
    BY <1>4 DEF ReadCell
  <2>2. CASE d = c
    <3>1. /\ cell'[c] = cell[c] + 1 /\ cell[c] \in Cells /\ toTell[c] = {}
          /\ toTell'[c] = {p \in People : <<p, cell[c]>> \in subscribed} \ seen[c]
      BY <1>4, <1>t DEF ReadCell, FanoutTypeOK
    <3>2. ASSUME NEW p \in People, NEW k \in Cells, ~passedOver[c], <<p, k>> \in steady[c], k < cell[c] + 1
          PROVE  p \in toTell'[c] \cup seen[c]
      <4>1. CASE k < cell[c]
        BY <2>1, <2>2, <3>1, <3>2, <4>1, <1>t DEF KnowsOf
      <4>2. CASE k = cell[c]
        BY <2>2, <3>1, <3>2, <4>2, <1>t DEF KnowsOf
      <4> QED BY <3>1, <3>2, <4>1, <4>2 DEF Cells
    <3>3. Job(c)' = Job(c) /\ Works(c)'
      BY <2>1 DEF Job, Works
    <3> QED BY <2>1, <2>2, <3>1, <3>2, <3>3, <1>t DEF KnowsOf
  <2>3. CASE d # c
    BY <1>4, <2>1, <2>3, <1>t, KnowsStays DEF ReadCell, FanoutTypeOK, KnowsOf
  <2> QED BY <2>2, <2>3
<1>5. ASSUME NEW c \in Consumers, ReadCellFails(c) PROVE KnowsOf(d)'
  <2>1. UNCHANGED <<inHand, jobLog, subscribed, toTell, seen, steady, told, lost>> /\ Works(c)
    BY <1>5 DEF ReadCellFails
  <2>2. CASE d = c
    <3>1. passedOver'[c]
      BY <1>5, <1>t DEF ReadCellFails, FanoutTypeOK
    <3>2. Job(c)' = Job(c) /\ Works(c)'
      BY <2>1 DEF Job, Works
    <3> QED BY <2>1, <2>2, <3>1, <3>2, <1>t DEF KnowsOf
  <2>3. CASE d # c
    BY <1>5, <2>1, <2>3, <1>t, KnowsStays DEF ReadCellFails, FanoutTypeOK, KnowsOf
  <2> QED BY <2>2, <2>3
<1>6. ASSUME NEW c \in Consumers, NEW p \in People, Tell(c, p) PROVE KnowsOf(d)'
  <2>1. /\ UNCHANGED <<inHand, jobLog, subscribed, cell, steady, passedOver>> /\ Works(c)
        /\ p \in toTell[c]
    BY <1>6 DEF Tell
  <2>2. Job(c) \in Jobs
    BY <2>1, <1>t DEF FanoutTypeOK, GroupTypeOK, WithinJobs, Works, Job
  <2>3. /\ \A jp \in Jobs \X People : told[jp] > 0 => told'[jp] > 0
        /\ lost \subseteq lost'
        /\ told'[<<Job(c), p>>] > 0 \/ <<Job(c), p>> \in lost'
    <3>1. told[<<Job(c), p>>] \in Nat /\ <<Job(c), p>> \in Jobs \X People
      BY <2>2, <1>t DEF FanoutTypeOK
    <3>2. CASE told' = [told EXCEPT ![<<Job(c), p>>] = @ + 1] /\ UNCHANGED lost
      BY <3>1, <3>2, <1>t DEF FanoutTypeOK
    <3>3. CASE lost' = lost \cup {<<Job(c), p>>} /\ UNCHANGED told
      BY <3>3
    <3> QED BY <1>6, <3>2, <3>3 DEF Tell
  <2>4. CASE d = c
    <3>1. toTell'[c] = toTell[c] \ {p} /\ seen'[c] = seen[c] \cup {p} /\ seen[c] \subseteq People
      BY <1>6, <1>t DEF Tell, FanoutTypeOK
    <3>2. Job(c)' = Job(c) /\ Works(c)'
      BY <2>1 DEF Job, Works
    <3> QED BY <2>1, <2>2, <2>3, <2>4, <3>1, <3>2, <1>t DEF KnowsOf
  <2>5. CASE d # c
    <3>1. toTell'[d] = toTell[d] /\ seen'[d] = seen[d]
      BY <1>6, <2>5, <1>t DEF Tell, FanoutTypeOK
    <3> QED BY <2>1, <2>3, <3>1, <1>t, KnowsStays DEF KnowsOf
  <2> QED BY <2>4, <2>5
<1>7. ASSUME NEW c \in Consumers, FinishJob(c) \/ CrashInJob(c) PROVE KnowsOf(d)'
  <2>1. /\ UNCHANGED <<subscribed, told, lost>> /\ Forgets(c)
        /\ inHand' = [inHand EXCEPT ![c] = 0]
    BY <1>7 DEF FinishJob, CrashInJob, CommitMessages, Crash
  <2>2. CASE d = c
    BY <2>1, <2>2, <1>t DEF Forgets, KnowsOf, Works, FanoutTypeOK, GroupTypeOK
  <2>3. CASE d # c
    <3>1. /\ inHand'[d] = inHand[d] /\ cell'[d] = cell[d] /\ toTell'[d] = toTell[d]
          /\ seen'[d] = seen[d] /\ steady'[d] = steady[d] /\ passedOver'[d] = passedOver[d]
      BY <2>1, <2>3, <1>t DEF Forgets, FanoutTypeOK, GroupTypeOK
    <3> QED BY <2>1, <3>1, <1>t, KnowsStays DEF KnowsOf
  <2> QED BY <2>2, <2>3
<1> QED
  BY <1>1, <1>2, <1>3, <1>4, <1>5, <1>6, <1>7 DEF FanoutNext

\* Sets of processes, before and after one of them comes in or goes out.
LEMMA OneProcessMoves ==
  ASSUME NEW S, NEW T, NEW c, IsFiniteSet(S), T \ {c} = S \ {c}
  PROVE  /\ Cardinality(S) \in Nat /\ Cardinality(T) \in Nat
         /\ c \in S => Cardinality(S) > 0
         /\ Cardinality(T) =
              Cardinality(S) + (IF c \in T THEN 1 ELSE 0) - (IF c \in S THEN 1 ELSE 0)
<1>1. /\ IsFiniteSet(S \cup {c}) /\ IsFiniteSet(S \ {c}) /\ Cardinality(S) \in Nat
      /\ Cardinality(S \cup {c}) = IF c \in S THEN Cardinality(S) ELSE Cardinality(S) + 1
      /\ Cardinality(S \ {c}) = IF c \in S THEN Cardinality(S) - 1 ELSE Cardinality(S)
      /\ Cardinality(S \cup {c}) \in Nat /\ Cardinality(S \ {c}) \in Nat
  BY FS_AddElement, FS_RemoveElement, FS_CardinalityType
<1>2. CASE c \in T
  <2>1. T = S \cup {c}
    BY <1>2
  <2> QED BY <1>1, <1>2, <2>1
<1>3. CASE c \notin T
  <2>1. T = S \ {c}
    BY <1>3
  <2> QED BY <1>1, <1>3, <2>1
<1> QED BY <1>2, <1>3

\* How the handlers that may still tell p about j change with the step of one.
LEMMA UntoldMoves ==
  ASSUME FanoutInv, [FanoutNext]_fanoutVars, NEW c \in Consumers,
         \A d \in Consumers \ {c} : inHand'[d] = inHand[d] /\ seen'[d] = seen[d],
         NEW j, NEW p
  PROVE  /\ Cardinality(Untold(j, p)) \in Nat /\ Cardinality(Untold(j, p))' \in Nat
         /\ c \in Untold(j, p) => Cardinality(Untold(j, p)) > 0
         /\ Cardinality(Untold(j, p))' = Cardinality(Untold(j, p))
              + (IF c \in Untold(j, p)' THEN 1 ELSE 0) - (IF c \in Untold(j, p) THEN 1 ELSE 0)
<1>1. Untold(j, p) \in SUBSET Consumers
  BY DEF Untold
<1>2. IsFiniteSet(Untold(j, p))
  BY <1>1, ConsumerAssumption, FS_Subset
<1>3. Untold(j, p)' \ {c} = Untold(j, p) \ {c}
  <2>1. ASSUME NEW d \in Consumers \ {c} PROVE d \in Untold(j, p)' <=> d \in Untold(j, p)
    <3>1. CASE inHand[d] = 0
      BY <3>1 DEF Untold, Works
    <3>2. CASE inHand[d] # 0
      <4>1. Job(d)' = Job(d)
        BY <3>2, JobStays
      <4> QED BY <4>1 DEF Untold, Works
    <3> QED BY <3>1, <3>2
  <2> QED BY <2>1 DEF Untold
<1> QED BY <1>2, <1>3, OneProcessMoves

\* What every handler that saw everything had to tell is told or lost.
PromisesKept == \A jp \in promised \ lost : told[jp] > 0

AuthorIsQuiet == \A j \in Jobs : told[<<j, Author>>] = 0

OnceInv == FanoutInv /\ OncePerHandling /\ PromisesKept /\ AuthorIsQuiet

LEMMA OnceNext == OnceInv /\ [FanoutNext]_fanoutVars => OnceInv'
<1> SUFFICES ASSUME OnceInv, [FanoutNext]_fanoutVars
             PROVE  OncePerHandling' /\ PromisesKept' /\ AuthorIsQuiet'
  BY FanoutTypeNext, KnowsNext DEF OnceInv, FanoutInv
<1> DEFINE Kept == OncePerHandling' /\ PromisesKept' /\ AuthorIsQuiet'
<1>t. /\ FanoutInv /\ FanoutInv' /\ FanoutTypeOK /\ GroupTypeOK /\ WithinJobs /\ HandlerKnows
      /\ OncePerHandling /\ PromisesKept /\ AuthorIsQuiet
  BY FanoutTypeNext, KnowsNext DEF OnceInv, FanoutInv, FanoutTypeOK
<1>n. \A j \in Jobs, p \in People :
        told[<<j, p>>] \in Nat /\ handled[j] \in Nat /\ <<j, p>> \in Jobs \X People
  BY <1>t DEF FanoutTypeOK
<1> USE DEF groupVars, handling
\* The handlers stay where they are, or c ends one that may have had somebody to tell.
<1>p. ASSUME NEW c \in Consumers, UNCHANGED <<told, handled, lost, promised>>,
             \A d \in Consumers \ {c} : inHand'[d] = inHand[d] /\ seen'[d] = seen[d],
             \A j, p : c \in Untold(j, p)' => c \in Untold(j, p)
      PROVE  Kept
  <2>1. ASSUME NEW j \in Jobs, NEW p \in People
        PROVE  told'[<<j, p>>] + Cardinality(Untold(j, p))' <= handled'[j]
    <3>1. /\ Cardinality(Untold(j, p)) \in Nat /\ Cardinality(Untold(j, p))' \in Nat
          /\ Cardinality(Untold(j, p))' <= Cardinality(Untold(j, p))
      BY <1>p, <1>t, UntoldMoves
    <3> QED BY <3>1, <1>p, <1>n, <1>t DEF OncePerHandling
  <2> QED BY <2>1, <1>p, <1>t DEF OncePerHandling, PromisesKept, AuthorIsQuiet
<1>q. ASSUME UNCHANGED <<inHand, seen, told, handled, lost, promised>> PROVE Kept
  <2>1. PICK c \in Consumers : TRUE
    BY ConsumerAssumption
  <2>2. ASSUME NEW j, NEW p, c \in Untold(j, p)' PROVE c \in Untold(j, p)
    <3>1. inHand[c] # 0
      BY <1>q, <2>2 DEF Untold, Works
    <3>2. Job(c)' = Job(c)
      BY <3>1, <1>q, <1>t, JobStays
    <3> QED BY <1>q, <2>2, <3>2 DEF Untold, Works
  <2> QED BY <1>q, <1>p, <2>2
<1>1. ASSUME NEW p \in People, NEW k \in Cells, ChangeSubscription(p, k) PROVE Kept
  BY <1>1, <1>q DEF ChangeSubscription
<1>2. ASSUME NEW j \in Jobs, DispatchNearbyFanout(j) PROVE Kept
  BY <1>2, <1>q DEF DispatchNearbyFanout
<1>3. ASSUME NEW c \in Consumers, FetchJob(c) PROVE Kept
  <2>1. /\ UNCHANGED <<jobLog, told, lost, promised>>
        /\ handled' = [handled EXCEPT ![jobLog[position + 1]] = @ + 1]
        /\ inHand[c] = 0 /\ inHand'[c] = position + 1
        /\ \A d \in Consumers \ {c} : inHand'[d] = inHand[d] /\ seen'[d] = seen[d]
    BY <1>3, <1>t DEF FetchJob, FetchMessage, FanoutTypeOK, GroupTypeOK
  <2>2. jobLog[position + 1] \in Jobs
    BY <1>3, <1>t DEF FetchJob, FetchMessage, FanoutTypeOK, GroupTypeOK
  <2>3. ASSUME NEW j \in Jobs, NEW p \in People
        PROVE  told'[<<j, p>>] + Cardinality(Untold(j, p))' <= handled'[j]
    <3>1. c \notin Untold(j, p) /\ (c \in Untold(j, p)' => j = jobLog[position + 1])
      BY <2>1 DEF Untold, Works, Job
    <3>2. /\ Cardinality(Untold(j, p)) \in Nat /\ Cardinality(Untold(j, p))' \in Nat
          /\ Cardinality(Untold(j, p))' <=
               Cardinality(Untold(j, p)) + (IF j = jobLog[position + 1] THEN 1 ELSE 0)
      BY <2>1, <3>1, <1>t, UntoldMoves
    <3>3. handled'[j] = handled[j] + (IF j = jobLog[position + 1] THEN 1 ELSE 0)
      BY <2>1, <2>2, <1>n, <1>t DEF FanoutTypeOK
    <3>4. told'[<<j, p>>] = told[<<j, p>>] /\ told[<<j, p>>] \in Nat /\ handled[j] \in Nat
          /\ told[<<j, p>>] + Cardinality(Untold(j, p)) <= handled[j]
      BY <2>1, <1>n, <1>t DEF OncePerHandling
    <3> QED BY <3>2, <3>3, <3>4
  <2> QED BY <2>1, <2>3, <1>t DEF OncePerHandling, PromisesKept, AuthorIsQuiet
<1>4. ASSUME NEW c \in Consumers, ReadCell(c) \/ ReadCellFails(c) PROVE Kept
  BY <1>4, <1>q DEF ReadCell, ReadCellFails
<1>5. ASSUME NEW c \in Consumers, NEW q \in People, Tell(c, q) PROVE Kept
  <2>1. /\ UNCHANGED <<inHand, jobLog, handled, promised>> /\ inHand[c] # 0
        /\ q \in toTell[c] /\ seen'[c] = seen[c] \cup {q}
        /\ \A d \in Consumers \ {c} : seen'[d] = seen[d]
    BY <1>5, <1>t DEF Tell, Works, FanoutTypeOK
  <2>2. Job(c) \in Jobs /\ Job(c)' = Job(c)
    BY <2>1, <1>t, JobStays
  <2>3. q \notin seen[c] /\ q # Author
    BY <2>1, <1>t DEF FanoutTypeOK, HandlerKnows, Works
  <2>4. /\ told' \in {told, [told EXCEPT ![<<Job(c), q>>] = @ + 1]} /\ lost \subseteq lost'
    BY <1>5 DEF Tell
  <2>5. ASSUME NEW j \in Jobs, NEW p \in People
        PROVE  /\ told'[<<j, p>>] >= told[<<j, p>>]
               /\ told'[<<j, p>>] <= told[<<j, p>>] + (IF j = Job(c) /\ p = q THEN 1 ELSE 0)
               /\ told'[<<j, p>>] \in Nat
    <3>1. CASE told' = told
      BY <3>1, <1>n
    <3>2. CASE told' = [told EXCEPT ![<<Job(c), q>>] = @ + 1]
      <4>1. told'[<<j, p>>] = IF j = Job(c) /\ p = q THEN told[<<j, p>>] + 1 ELSE told[<<j, p>>]
        BY <3>2, <1>n, <1>t DEF FanoutTypeOK
      <4> QED BY <4>1, <1>n
    <3> QED BY <2>4, <3>1, <3>2
  <2>6. ASSUME NEW j \in Jobs, NEW p \in People
        PROVE  told'[<<j, p>>] + Cardinality(Untold(j, p))' <= handled'[j]
    <3>1. /\ c \in Untold(j, p) <=> j = Job(c) /\ p \notin seen[c]
          /\ c \in Untold(j, p)' <=> j = Job(c) /\ p \notin seen[c] \cup {q}
      BY <2>1, <2>2 DEF Untold, Works
    <3>2. /\ Cardinality(Untold(j, p)) \in Nat /\ Cardinality(Untold(j, p))' \in Nat
          /\ Cardinality(Untold(j, p))' = Cardinality(Untold(j, p))
               + (IF c \in Untold(j, p)' THEN 1 ELSE 0) - (IF c \in Untold(j, p) THEN 1 ELSE 0)
      BY <2>1, <1>t, UntoldMoves
    <3>3. Cardinality(Untold(j, p))' =
            Cardinality(Untold(j, p)) - (IF j = Job(c) /\ p = q THEN 1 ELSE 0)
      BY <2>3, <3>1, <3>2
    <3>4. told[<<j, p>>] \in Nat /\ handled'[j] = handled[j] /\ handled[j] \in Nat
          /\ told[<<j, p>>] + Cardinality(Untold(j, p)) <= handled[j]
      BY <2>1, <1>n, <1>t DEF OncePerHandling
    <3> QED BY <2>5, <3>2, <3>3, <3>4
  <2>7. PromisesKept'
    <3>1. promised \subseteq Jobs \X People
      BY <1>t DEF FanoutTypeOK
    <3>2. \A jp \in Jobs \X People : told[jp] > 0 => told'[jp] > 0
      <4>1. ASSUME NEW j \in Jobs, NEW p \in People, told[<<j, p>>] > 0 PROVE told'[<<j, p>>] > 0
        BY <4>1, <2>5, <1>n
      <4> QED BY <4>1
    <3> QED BY <2>1, <2>4, <3>1, <3>2, <1>t DEF PromisesKept
  <2>8. AuthorIsQuiet'
    <3> SUFFICES ASSUME NEW j \in Jobs PROVE told'[<<j, Author>>] = 0
      BY DEF AuthorIsQuiet
    <3>1. told[<<j, Author>>] = 0
      BY <1>t DEF AuthorIsQuiet
    <3> QED BY <3>1, <2>3, <2>5, FanoutAssumption
  <2> QED BY <2>6, <2>7, <2>8 DEF OncePerHandling
<1>6. ASSUME NEW c \in Consumers, FinishJob(c) PROVE Kept
  <2>1. /\ UNCHANGED <<jobLog, told, handled, lost>> /\ Works(c)
        /\ inHand' = [inHand EXCEPT ![c] = 0] /\ seen' = [seen EXCEPT ![c] = {}]
        /\ toTell[c] = {} /\ cell[c] = CellCount + 1
        /\ promised' = IF passedOver[c] THEN promised
             ELSE promised \cup {<<Job(c), p>> : p \in {s[1] : s \in steady[c]} \ {Author}}
    BY <1>6 DEF FinishJob, CommitMessages, Forgets
  <2>2. \A d \in Consumers \ {c} : inHand'[d] = inHand[d] /\ seen'[d] = seen[d]
    BY <2>1, <1>t DEF FanoutTypeOK, GroupTypeOK
  <2>3. \A j, p : c \notin Untold(j, p)'
    BY <2>1, <1>t DEF Untold, Works, FanoutTypeOK, GroupTypeOK
  <2>4. ASSUME NEW j \in Jobs, NEW p \in People
        PROVE  told'[<<j, p>>] + Cardinality(Untold(j, p))' <= handled'[j]
    <3>1. /\ Cardinality(Untold(j, p)) \in Nat /\ Cardinality(Untold(j, p))' \in Nat
          /\ Cardinality(Untold(j, p))' <= Cardinality(Untold(j, p))
      BY <2>2, <2>3, <1>t, UntoldMoves
    <3> QED BY <2>1, <3>1, <1>n, <1>t DEF OncePerHandling
  <2>5. ASSUME ~passedOver[c], NEW s \in steady[c], s[1] # Author
        PROVE  told[<<Job(c), s[1]>>] > 0 \/ <<Job(c), s[1]>> \in lost
    <3>1. s \in People \X Cells
      BY <1>t DEF FanoutTypeOK, Subscriptions
    <3>2. s = <<s[1], s[2]>> /\ s[1] \in People /\ s[2] \in Cells /\ s[2] < cell[c]
      BY <2>1, <3>1, FanoutAssumption DEF Cells
    <3>3. s[1] \in toTell[c] \cup seen[c]
      BY <2>1, <2>5, <3>2, <1>t DEF HandlerKnows
    <3>4. s[1] \in seen[c] \ {Author}
      BY <2>1, <2>5, <3>3
    <3> QED BY <2>1, <3>4, <1>t DEF HandlerKnows
  <2>6. PromisesKept'
    BY <2>1, <2>5, <1>t DEF PromisesKept
  <2> QED BY <2>1, <2>4, <2>6, <1>t DEF OncePerHandling, AuthorIsQuiet
<1>7. ASSUME NEW c \in Consumers, CrashInJob(c) PROVE Kept
  <2>1. /\ UNCHANGED <<told, handled, lost, promised>>
        /\ inHand' = [inHand EXCEPT ![c] = 0] /\ seen' = [seen EXCEPT ![c] = {}]
    BY <1>7 DEF CrashInJob, Crash, Forgets
  <2>2. \A d \in Consumers \ {c} : inHand'[d] = inHand[d] /\ seen'[d] = seen[d]
    BY <2>1, <1>t DEF FanoutTypeOK, GroupTypeOK
  <2>3. \A j, p : c \notin Untold(j, p)'
    BY <2>1, <1>t DEF Untold, Works, FanoutTypeOK, GroupTypeOK
  <2> QED BY <2>1, <2>2, <2>3, <1>p
<1>8. ASSUME NEW c \in Consumers, ReassignJobs(c) PROVE Kept
  BY <1>8, <1>q DEF ReassignJobs, Rebalance
<1>9. CASE UNCHANGED fanoutVars
  BY <1>9, <1>q DEF fanoutVars
<1> QED
  BY <1>1, <1>2, <1>3, <1>4, <1>5, <1>6, <1>7, <1>8, <1>9 DEF FanoutNext

LEMMA OnceInit == FanoutInit => OnceInv
<1> SUFFICES ASSUME FanoutInit PROVE OnceInv
  OBVIOUS
<1>1. jobLog \in Seq(Jobs) /\ Len(jobLog) = 0
  BY DEF FanoutInit
<1>2. GroupTypeOK /\ WithinJobs /\ \A c \in Consumers : inHand[c] = 0
  BY <1>1, ConsumerAssumption DEF FanoutInit, GroupInit, GroupTypeOK, WithinJobs
<1>3. FanoutTypeOK
  <2>1. /\ cell \in [Consumers -> 1..(CellCount + 1)] /\ moves \in 0..MaxMoves
        /\ told \in [Jobs \X People -> Nat] /\ handled \in [Jobs -> Nat]
    BY FanoutAssumption DEF FanoutInit
  <2>2. /\ toTell \in [Consumers -> SUBSET People] /\ seen \in [Consumers -> SUBSET People]
        /\ \A c \in Consumers : toTell[c] \cap seen[c] = {}
        /\ steady \in [Consumers -> SUBSET Subscriptions]
        /\ passedOver \in [Consumers -> BOOLEAN]
    BY DEF FanoutInit
  <2> QED BY <1>1, <1>2, <2>1, <2>2 DEF FanoutInit, FanoutTypeOK
<1>4. HandlerKnows
  BY <1>2 DEF FanoutInit, HandlerKnows, Works
<1>5. \A j, p : Untold(j, p) = {}
  BY <1>2 DEF Untold, Works
<1>6. IsFiniteSet({}) /\ Cardinality({}) = 0
  BY FS_EmptySet
<1>7. \A j \in Jobs, p \in People : told[<<j, p>>] = 0 /\ handled[j] = 0
  BY DEF FanoutInit
<1>8. OncePerHandling
  <2> SUFFICES ASSUME NEW j \in Jobs, NEW p \in People
               PROVE  told[<<j, p>>] + Cardinality(Untold(j, p)) <= handled[j]
    BY DEF OncePerHandling
  <2>1. Cardinality(Untold(j, p)) = 0
    BY <1>5, <1>6
  <2> QED BY <2>1, <1>7
<1>9. PromisesKept /\ AuthorIsQuiet
  BY <1>7, FanoutAssumption DEF FanoutInit, PromisesKept, AuthorIsQuiet
<1> QED
  BY <1>2, <1>3, <1>4, <1>8, <1>9 DEF OnceInv, FanoutInv

\* Every reachable state of the fan-out is well typed: in particular no handler has
\* somebody to tell whom it has told.
THEOREM FanoutTypeCorrect == FanoutSpec => []FanoutTypeOK
<1>1. OnceInv => FanoutTypeOK
  BY DEF OnceInv, FanoutInv
<1> QED
  BY <1>1, OnceInit, OnceNext, PTL DEF FanoutSpec

\* A handling tells nobody twice and the author never, however people come and go
\* between the cells it reads, and one that could read every cell has told
\* everybody who followed one of them throughout.
THEOREM EachIsReachedOnce == FanoutSpec => []FanoutReachesEachOnce
<1>1. OnceInv => FanoutReachesEachOnce
  <2> SUFFICES ASSUME OnceInv PROVE FanoutReachesEachOnce
    OBVIOUS
  <2>1. ASSUME NEW j \in Jobs, NEW p \in People PROVE told[<<j, p>>] <= handled[j]
    <3>1. Untold(j, p) \in SUBSET Consumers
      BY DEF Untold
    <3>2. Cardinality(Untold(j, p)) \in Nat
      BY <3>1, ConsumerAssumption, FS_Subset, FS_CardinalityType
    <3>3. told[<<j, p>>] \in Nat /\ handled[j] \in Nat
          /\ told[<<j, p>>] + Cardinality(Untold(j, p)) <= handled[j]
      BY DEF OnceInv, FanoutInv, FanoutTypeOK, OncePerHandling
    <3> QED BY <3>2, <3>3
  <2> QED BY <2>1 DEF OnceInv, PromisesKept, AuthorIsQuiet, FanoutReachesEachOnce
<1> QED
  BY <1>1, OnceInit, OnceNext, PTL DEF FanoutSpec
-----------------------------------------------------------------------------
(* The search index: the invariant.                                        *)

\* What is published has been saved, and the handlers are within the topic.
WithinTopic ==
  /\ \A s \in Saves : saving[s] = "publish" => snapshot[s] > 0
  /\ \A s \in Saves : saving[s] = "reread" => stored > 0
  /\ committed <= Len(topic) /\ position <= Len(topic)
  /\ \A c \in Consumers : inHand[c] <= Len(topic)

\* The document is that of message o, or of a later one.
WrittenFrom(o) == \E i \in o..Len(topic) : doc = topic[i]

\* Unless it has passed a message, or a late write came after it, the document is
\* that of the message the reader is at, or of a later one where it has gone back;
\* or the reader's process is about to write that message.
DocumentInTurn ==
  (~passed /\ ~outOfTurn /\ position > 0) =>
    \/ WrittenFrom(position)
    \/ /\ works[owner] = "index" /\ inHand[owner] = position
       /\ position = 1 \/ WrittenFrom(position - 1)

\* So with the suggested name.
NameKnown == suggested \/ nameLost

NameInTurn ==
  /\ \A c \in Consumers : works[c] = "commit" => NameKnown
  /\ committed > 0 => NameKnown
  /\ (~passed /\ position > 0) => NameKnown \/ works[owner] \in {"index", "name"}

\* A search knows an earlier state of the row, or the present one.
SearchSawRow == asked.stored <= stored /\ (asked.gone => gone) /\ ~misled

IndexInv == IndexTypeOK /\ WithinTopic

-----------------------------------------------------------------------------
(* The search index: types.                                                *)

LEMMA IndexTypeNext == IndexInv /\ [IndexNext]_indexVars => IndexInv'
<1> SUFFICES ASSUME IndexInv, [IndexNext]_indexVars PROVE IndexInv'
  OBVIOUS
<1> USE ConsumerAssumption
    DEF IndexInv, IndexTypeOK, WithinTopic, GroupTypeOK, groupVars, entity, copies, backfill,
        searching, lapses
<1>l. Len(topic) \in Nat /\ \A o \in 1..Len(topic) : topic[o] \in 1..stored
  BY LenProperties
<1>g. ASSUME UNCHANGED <<isPost, stored, gone, saving, snapshot, topic, backfill, searching>>,
             GroupTypeOK', committed' <= Len(topic), position' <= Len(topic),
             \A c \in Consumers : inHand'[c] <= Len(topic),
             works' \in [Consumers -> {"idle", "index", "name", "commit"}],
             \A c \in Consumers : works'[c] = "idle" <=> inHand'[c] = 0,
             doc' \in 0..stored, suggested' \in BOOLEAN,
             passed' \in BOOLEAN, outOfTurn' \in BOOLEAN, nameLost' \in BOOLEAN
      PROVE  IndexInv'
  BY <1>g
<1>1. ASSUME NEW s \in Saves, Create(s) PROVE IndexInv'
  <2>1. stored = 0 /\ stored' = 1 /\ 1..stored \subseteq 1..stored'
    BY <1>1 DEF Create
  <2>2. topic' \in Seq(1..stored') /\ topic' = topic
    BY <1>1, <2>1, SeqMonotonic DEF Create
  <2>3. snapshot' \in [Saves -> 0..stored'] /\ snapshot' = [snapshot EXCEPT ![s] = 1]
    BY <1>1, <2>1 DEF Create
  <2>4. saving' = [saving EXCEPT ![s] = "publish"]
    BY <1>1 DEF Create, SaveStep
  <2> QED BY <1>1, <2>1, <2>2, <2>3, <2>4 DEF Create
<1>2. ASSUME NEW s \in Saves, Update(s) PROVE IndexInv'
  <2>1. stored' = stored + 1 /\ 1..stored \subseteq 1..stored'
    BY <1>2 DEF Update
  <2>2. topic' \in Seq(1..stored') /\ topic' = topic
    BY <1>2, <2>1, SeqMonotonic DEF Update
  <2>3. saving' = [saving EXCEPT ![s] = "reread"]
    BY <1>2 DEF Update, SaveStep
  <2> QED BY <1>2, <2>1, <2>2, <2>3 DEF Update
<1>3. ASSUME NEW s \in Saves, Reread(s) PROVE IndexInv'
  BY <1>3 DEF Reread, SaveStep
<1>4. ASSUME NEW s \in Saves, RereadFails(s) PROVE IndexInv'
  BY <1>4 DEF RereadFails, SaveStep
<1>5. ASSUME NEW s \in Saves, Publish(s) PROVE IndexInv'
  <2>1. snapshot[s] \in 1..stored /\ saving' = [saving EXCEPT ![s] = "done"]
    BY <1>5 DEF Publish, SaveStep
  <2>2. topic' \in Seq(1..stored) /\ Len(topic') \in {Len(topic), Len(topic) + 1}
    <3>1. CASE topic' = Append(topic, snapshot[s])
      BY <2>1, <3>1, AppendProperties
    <3>2. CASE UNCHANGED topic
      BY <3>2
    <3>3. UNCHANGED stored
      BY <1>5 DEF Publish
    <3> QED BY <1>5, <3>1, <3>2 DEF Publish
  <2> QED BY <1>5, <1>l, <2>1, <2>2, SMTT(30) DEF Publish
<1>6. CASE Delete
  <2>1. stored' \in {stored, stored + 1} /\ 1..stored \subseteq 1..stored'
    BY <1>6 DEF Delete, DeletePost, DeleteAccount
  <2>2. topic' \in Seq(1..stored') /\ topic' = topic
    BY <1>6, <2>1, SeqMonotonic DEF Delete, DeletePost, DeleteAccount
  <2>3. /\ gone' \in BOOLEAN
        /\ UNCHANGED <<groupVars, isPost, saving, snapshot, topic, copies, works, backfill,
                       searching, lapses>>
    BY <1>6 DEF Delete, DeletePost, DeleteAccount
  <2> QED BY <2>1, <2>2, <2>3
<1>7. ASSUME NEW c \in Consumers, FetchEvent(c) PROVE IndexInv'
  BY <1>7, <1>g, <1>l DEF FetchEvent, FetchMessage, WorkStep
<1>8. ASSUME NEW c \in Consumers, IndexEvent(c) PROVE IndexInv'
  <2>1. topic[inHand[c]] \in 1..stored
    BY <1>8, <1>l DEF IndexEvent, WorkStep
  <2>2. passed' \in BOOLEAN /\ outOfTurn' \in BOOLEAN
    <3>1. passed' = (IF owner = c THEN FALSE ELSE passed) /\ outOfTurn' = (inHand[c] < position)
      BY <1>8 DEF IndexEvent, Passes
    <3>2. passed' \in BOOLEAN
      BY <3>1
    <3>3. outOfTurn' \in BOOLEAN
      <4>1. CASE inHand[c] < position
        BY <3>1, <4>1
      <4>2. CASE ~(inHand[c] < position)
        BY <3>1, <4>2
      <4> QED BY <4>1, <4>2
    <3> QED BY <3>2, <3>3
  <2>3. works' = [works EXCEPT ![c] = "name"] /\ works[c] = "index"
    BY <1>8 DEF IndexEvent, WorkStep
  <2> QED BY <1>8, <1>g, <1>l, <2>1, <2>2, <2>3, SMTT(30) DEF IndexEvent
<1>9. ASSUME NEW c \in Consumers, IndexEventFails(c) PROVE IndexInv'
  <2>1. topic[inHand[c]] \in 1..stored
    BY <1>9, <1>l DEF IndexEventFails, WorkStep
  <2>2. passed' \in BOOLEAN /\ outOfTurn' \in BOOLEAN /\ doc' \in 0..stored
    <3>1. passed' = (IF owner = c THEN TRUE ELSE passed)
          /\ (outOfTurn' = (inHand[c] < position) \/ outOfTurn' = outOfTurn)
      BY <1>9 DEF IndexEventFails, Passes
    <3>2. passed' \in BOOLEAN /\ outOfTurn' \in BOOLEAN
      <4>1. passed' \in BOOLEAN
        BY <3>1
      <4>2. CASE outOfTurn' = outOfTurn
        BY <4>1, <4>2
      <4>3. CASE outOfTurn' = (inHand[c] < position) /\ inHand[c] < position
        BY <4>1, <4>3
      <4>4. CASE outOfTurn' = (inHand[c] < position) /\ ~(inHand[c] < position)
        BY <4>1, <4>4
      <4> QED BY <3>1, <4>2, <4>3, <4>4
    <3>3. doc' \in 0..stored
      BY <1>9, <2>1 DEF IndexEventFails
    <3> QED BY <3>2, <3>3
  <2>3. works' = [works EXCEPT ![c] = "idle"] /\ works[c] = "index"
    BY <1>9 DEF IndexEventFails, WorkStep
  <2> QED BY <1>9, <1>g, <1>l, <2>2, <2>3 DEF IndexEventFails, HandlerError
<1>10. ASSUME NEW c \in Consumers, NameEvent(c) PROVE IndexInv'
  BY <1>10, <1>g, <1>l DEF NameEvent, WorkStep, AddsName
<1>11. ASSUME NEW c \in Consumers, CommitEvent(c) PROVE IndexInv'
  <2>1. committed' \in {committed, inHand[c]} /\ disruptions' \in 0..MaxDisruptions
    BY <1>11 DEF CommitEvent, CommitMessages, Disrupt
  <2>2. inHand' = [inHand EXCEPT ![c] = 0] /\ UNCHANGED <<owner, position>>
    BY <1>11 DEF CommitEvent, CommitMessages
  <2>3. GroupTypeOK' /\ committed' <= Len(topic)
    BY <2>1, <2>2, <1>l
  <2>4. works' = [works EXCEPT ![c] = "idle"]
    BY <1>11 DEF CommitEvent, WorkStep
  <2>5. UNCHANGED <<isPost, stored, gone, saving, snapshot, topic, backfill, searching, doc, suggested,
                    passed, outOfTurn, nameLost>>
    BY <1>11 DEF CommitEvent
  <2>6. \A d \in Consumers : inHand'[d] <= Len(topic) /\ (works'[d] = "idle" <=> inHand'[d] = 0)
    BY <2>2, <2>4, <1>l
  <2> QED BY <1>g, <2>2, <2>3, <2>4, <2>5, <2>6
<1>12. ASSUME NEW c \in Consumers, CrashIndexer(c) PROVE IndexInv'
  BY <1>12, <1>g, <1>l DEF CrashIndexer, Crash, Disrupt, StartsPast
<1>13. ASSUME NEW c \in Consumers, ReassignTopic(c) PROVE IndexInv'
  BY <1>13, <1>g, <1>l DEF ReassignTopic, Rebalance, Disrupt, StartsPast
<1>14. CASE Scan
  BY <1>14 DEF Scan
<1>15. CASE ScanIndex
  <2>1. doc' \in 0..stored /\ suggested' \in BOOLEAN /\ outOfTurn' \in BOOLEAN /\ nameLost' \in BOOLEAN
    BY <1>15 DEF ScanIndex, AddsName
  <2> QED BY <1>15, <2>1 DEF ScanIndex
<1>16. CASE Ask
  BY <1>16 DEF Ask
<1>17. CASE Hydrate \/ HydrateNone
  <2>1. asked' \in [stored : 0..stored, gone : BOOLEAN]
    <3>1. asked' = [stored |-> 0, gone |-> FALSE] /\ 0 \in 0..stored /\ FALSE \in BOOLEAN
      BY <1>17 DEF Hydrate, HydrateNone, Show, Nothing
    <3> QED BY <3>1, Zenon
  <2>2. misled' \in BOOLEAN
    BY <1>17 DEF Hydrate, HydrateNone, Show
  <2> QED BY <1>17, <2>1, <2>2 DEF Hydrate, HydrateNone, Show
<1>18. CASE UNCHANGED indexVars
  BY <1>18 DEF indexVars
<1> QED
  BY <1>1, <1>2, <1>3, <1>4, <1>5, <1>6, <1>7, <1>8, <1>9, <1>10, <1>11, <1>12, <1>13,
     <1>14, <1>15, <1>16, <1>17, <1>18 DEF IndexNext

-----------------------------------------------------------------------------
(* The search index: what it is left with, and what a search shows.        *)

FollowInv == IndexInv /\ DocumentInTurn /\ NameInTurn /\ SearchSawRow

\* Where the reader is, or starts anew, the document is that of its message.
LEMMA RestartInTurn ==
  ASSUME IndexInv, DocumentInTurn, UNCHANGED <<topic, doc, outOfTurn>>,
         position' = committed, passed' = (passed \/ StartsPast)
  PROVE  DocumentInTurn'
<1> SUFFICES ASSUME ~passed, ~StartsPast, ~outOfTurn, committed > 0
             PROVE  \E i \in committed..Len(topic) : doc = topic[i]
  BY DEF DocumentInTurn, WrittenFrom
<1>1. committed \in Nat /\ position \in Nat /\ committed <= position
  BY DEF IndexInv, IndexTypeOK, GroupTypeOK, StartsPast
<1>2. CASE WrittenFrom(position)
  BY <1>1, <1>2 DEF WrittenFrom
<1>3. CASE /\ works[owner] = "index" /\ inHand[owner] = position
           /\ position = 1 \/ WrittenFrom(position - 1)
  <2>1. committed < position
    BY <1>1, <1>3 DEF StartsPast
  <2>2. WrittenFrom(position - 1)
    BY <1>1, <1>3, <2>1
  <2> QED BY <1>1, <2>1, <2>2 DEF WrittenFrom
<1> QED BY <1>1, <1>2, <1>3 DEF DocumentInTurn

LEMMA DocumentNext == IndexInv /\ DocumentInTurn /\ [IndexNext]_indexVars => DocumentInTurn'
<1> SUFFICES ASSUME IndexInv, DocumentInTurn, [IndexNext]_indexVars PROVE DocumentInTurn'
  OBVIOUS
<1>t. /\ Len(topic) \in Nat /\ position \in Nat /\ position <= Len(topic)
      /\ inHand \in [Consumers -> Nat] /\ owner \in Consumers
      /\ works \in [Consumers -> {"idle", "index", "name", "commit"}]
      /\ \A c \in Consumers : works[c] = "idle" <=> inHand[c] = 0
      /\ \A c \in Consumers : inHand[c] <= Len(topic)
  BY LenProperties DEF IndexInv, IndexTypeOK, WithinTopic, GroupTypeOK
<1> USE DEF groupVars, entity, copies, backfill, searching, lapses
\* Nothing that matters changes, or a handler moves that is not about to write.
<1>p. ASSUME UNCHANGED <<position, owner, topic, doc, passed, outOfTurn>>,
             works[owner] = "index" => works'[owner] = "index" /\ inHand'[owner] = inHand[owner]
      PROVE  DocumentInTurn'
  BY <1>p DEF DocumentInTurn, WrittenFrom
\* The document is written: that of a message the reader is at or has not come to.
<1>q. ASSUME NEW c \in Consumers, UNCHANGED <<position, topic>>, works[c] # "idle",
             doc' = topic[inHand[c]], outOfTurn' = (inHand[c] < position)
      PROVE  DocumentInTurn'
  <2>1. outOfTurn' <=> inHand[c] < position
    BY <1>q
  <2>2. inHand[c] \in 1..Len(topic)
    BY <1>q, <1>t
  <2>3. ~outOfTurn' => \E i \in position..Len(topic) : doc' = topic[i]
    BY <2>1, <2>2, <1>q, <1>t
  <2> QED BY <1>q, <2>3 DEF DocumentInTurn, WrittenFrom
<1>1. ASSUME NEW s \in Saves, Create(s) \/ Update(s) \/ Reread(s) \/ RereadFails(s)
      PROVE  DocumentInTurn'
  BY <1>1, <1>p DEF Create, Update, Reread, RereadFails
<1>2. ASSUME NEW s \in Saves, Publish(s) PROVE DocumentInTurn'
  <2>1. UNCHANGED <<groupVars, copies, works, lapses>>
    BY <1>2 DEF Publish
  <2>2. /\ Len(topic') \in Nat /\ Len(topic') >= Len(topic)
        /\ \A i \in 1..Len(topic) : topic'[i] = topic[i]
    <3>1. topic \in Seq(1..stored) /\ (topic' = topic \/ topic' = Append(topic, snapshot[s]))
          /\ snapshot[s] \in 1..stored
      BY <1>2 DEF Publish, SaveStep, IndexInv, IndexTypeOK, WithinTopic
    <3> QED BY <3>1, <1>t, AppendProperties
  <2>3. ASSUME NEW o \in Nat \ {0}, WrittenFrom(o) PROVE WrittenFrom(o)'
    BY <2>1, <2>2, <2>3, <1>t DEF WrittenFrom
  <2> QED BY <2>1, <2>3, <1>t DEF DocumentInTurn
<1>3. CASE Delete \/ Scan \/ Ask \/ Hydrate \/ HydrateNone
  BY <1>3, <1>p DEF Delete, DeletePost, DeleteAccount, Scan, Ask, Hydrate, HydrateNone, Show
<1>4. ASSUME NEW c \in Consumers, FetchEvent(c) PROVE DocumentInTurn'
  <2>1. /\ UNCHANGED <<owner, topic, doc, passed, outOfTurn>>
        /\ owner = c /\ works[c] = "idle"
        /\ position' = position + 1 /\ inHand'[c] = position' /\ works'[c] = "index"
    BY <1>4, <1>t DEF FetchEvent, FetchMessage, WorkStep
  <2> QED BY <2>1, <1>t DEF DocumentInTurn, WrittenFrom
<1>5. ASSUME NEW c \in Consumers, IndexEvent(c) PROVE DocumentInTurn'
  BY <1>5, <1>q DEF IndexEvent, WorkStep
<1>6. ASSUME NEW c \in Consumers, IndexEventFails(c) PROVE DocumentInTurn'
  <2>1. /\ UNCHANGED <<position, owner, topic>> /\ works[c] = "index"
        /\ works' = [works EXCEPT ![c] = "idle"] /\ inHand' = [inHand EXCEPT ![c] = 0]
        /\ passed' = IF owner = c THEN TRUE ELSE passed
    BY <1>6 DEF IndexEventFails, WorkStep, HandlerError, Passes
  <2>2. CASE UNCHANGED <<doc, outOfTurn>>
    <3>1. CASE owner = c
      BY <2>1, <3>1 DEF DocumentInTurn
    <3>2. CASE owner # c
      BY <2>1, <2>2, <3>2, <1>t, <1>p
    <3> QED BY <3>1, <3>2
  <2>3. CASE doc' = topic[inHand[c]] /\ outOfTurn' = (inHand[c] < position)
    BY <2>1, <2>3, <1>q
  <2> QED BY <1>6, <2>2, <2>3 DEF IndexEventFails
<1>7. ASSUME NEW c \in Consumers, NameEvent(c) \/ CommitEvent(c) PROVE DocumentInTurn'
  <2>1. /\ UNCHANGED <<position, owner, topic, doc, passed, outOfTurn>>
        /\ works[c] # "index"
        /\ \A d \in Consumers \ {c} : works'[d] = works[d] /\ inHand'[d] = inHand[d]
    BY <1>7, <1>t DEF NameEvent, CommitEvent, WorkStep, CommitMessages
  <2> QED BY <2>1, <1>t, <1>p
<1>8. ASSUME NEW c \in Consumers, CrashIndexer(c) PROVE DocumentInTurn'
  <2>1. CASE owner = c
    BY <1>8, <2>1, RestartInTurn DEF CrashIndexer, Crash
  <2>2. CASE owner # c
    <3>1. /\ UNCHANGED <<position, owner, topic, doc, outOfTurn>> /\ (passed' <=> passed)
          /\ works'[owner] = works[owner] /\ inHand'[owner] = inHand[owner]
      BY <1>8, <2>2, <1>t DEF CrashIndexer, Crash
    <3> QED BY <3>1 DEF DocumentInTurn, WrittenFrom
  <2> QED BY <2>1, <2>2
<1>9. ASSUME NEW c \in Consumers, ReassignTopic(c) PROVE DocumentInTurn'
  BY <1>9, RestartInTurn DEF ReassignTopic, Rebalance
<1>10. CASE ScanIndex
  <2>1. CASE outOfTurn' = TRUE
    BY <2>1 DEF DocumentInTurn
  <2>2. CASE UNCHANGED <<doc, outOfTurn>>
    BY <1>10, <2>2, <1>p DEF ScanIndex
  <2> QED BY <1>10, <2>1, <2>2 DEF ScanIndex
<1>11. CASE UNCHANGED indexVars
  BY <1>11, <1>p DEF indexVars
<1> QED
  BY <1>1, <1>2, <1>3, <1>4, <1>5, <1>6, <1>7, <1>8, <1>9, <1>10, <1>11 DEF IndexNext

LEMMA NameNext == IndexInv /\ NameInTurn /\ [IndexNext]_indexVars => NameInTurn'
<1> SUFFICES ASSUME IndexInv, NameInTurn, [IndexNext]_indexVars PROVE NameInTurn'
  OBVIOUS
<1>t. /\ position \in Nat /\ committed \in Nat /\ owner \in Consumers
      /\ inHand \in [Consumers -> Nat]
      /\ works \in [Consumers -> {"idle", "index", "name", "commit"}]
      /\ \A c \in Consumers : works[c] = "idle" <=> inHand[c] = 0
  BY DEF IndexInv, IndexTypeOK, GroupTypeOK
<1> USE DEF groupVars, entity, copies, backfill, searching, lapses, NameInTurn
<1>p. ASSUME UNCHANGED <<groupVars, passed>>, NameKnown => NameKnown', UNCHANGED works
      PROVE  NameInTurn'
  BY <1>p
<1>1. CASE (\E s \in Saves : Create(s) \/ Update(s) \/ Reread(s) \/ RereadFails(s) \/ Publish(s))
           \/ Delete \/ Scan \/ Ask \/ Hydrate \/ HydrateNone \/ UNCHANGED indexVars
  <2>1. UNCHANGED <<groupVars, works, suggested, nameLost, passed>>
    BY <1>1 DEF Create, Update, Reread, RereadFails, Publish, Delete, Scan, Ask, Hydrate,
                HydrateNone, Show, indexVars
  <2> QED BY <2>1, <1>p DEF NameKnown
<1>2. CASE ScanIndex
  BY <1>2, <1>p DEF ScanIndex, AddsName, NameKnown
<1>3. ASSUME NEW c \in Consumers, FetchEvent(c) PROVE NameInTurn'
  <2>1. /\ UNCHANGED <<owner, committed, suggested, nameLost>> /\ owner = c
        /\ works' = [works EXCEPT ![c] = "index"]
    BY <1>3 DEF FetchEvent, FetchMessage, WorkStep
  <2> QED BY <2>1, <1>t DEF NameKnown
<1>4. ASSUME NEW c \in Consumers, IndexEvent(c) PROVE NameInTurn'
  <2>1. /\ UNCHANGED <<groupVars, suggested, nameLost>> /\ works[c] = "index"
        /\ works' = [works EXCEPT ![c] = "name"]
        /\ passed' = IF owner = c THEN FALSE ELSE passed
    BY <1>4 DEF IndexEvent, WorkStep, Passes
  <2> QED BY <2>1, <1>t DEF NameKnown
<1>5. ASSUME NEW c \in Consumers, IndexEventFails(c) PROVE NameInTurn'
  <2>1. /\ UNCHANGED <<owner, committed, position, suggested, nameLost>>
        /\ works' = [works EXCEPT ![c] = "idle"]
        /\ passed' = IF owner = c THEN TRUE ELSE passed
    BY <1>5 DEF IndexEventFails, HandlerError, WorkStep, Passes
  <2> QED BY <2>1, <1>t DEF NameKnown
<1>6. ASSUME NEW c \in Consumers, NameEvent(c) PROVE NameInTurn'
  <2>1. NameKnown'
    BY <1>6 DEF NameEvent, AddsName, NameKnown
  <2> QED BY <2>1
<1>7. ASSUME NEW c \in Consumers, CommitEvent(c) PROVE NameInTurn'
  <2>1. NameKnown /\ UNCHANGED <<suggested, nameLost>>
    BY <1>7 DEF CommitEvent, WorkStep
  <2> QED BY <2>1 DEF NameKnown
<1>8. ASSUME NEW c \in Consumers, CrashIndexer(c) PROVE NameInTurn'
  <2>1. /\ UNCHANGED <<owner, committed, suggested, nameLost>> /\ (passed => passed')
        /\ works' = [works EXCEPT ![c] = "idle"]
        /\ position' = IF owner = c THEN committed ELSE position
    BY <1>8 DEF CrashIndexer, Crash
  <2> QED BY <2>1, <1>t DEF NameKnown
<1>9. ASSUME NEW c \in Consumers, ReassignTopic(c) PROVE NameInTurn'
  <2>1. UNCHANGED <<committed, works, suggested, nameLost>> /\ position' = committed
    BY <1>9 DEF ReassignTopic, Rebalance
  <2> QED BY <2>1, <1>t DEF NameKnown
<1> QED
  BY <1>1, <1>2, <1>3, <1>4, <1>5, <1>6, <1>7, <1>8, <1>9 DEF IndexNext

LEMMA SearchNext == IndexInv /\ SearchSawRow /\ [IndexNext]_indexVars => SearchSawRow'
<1> SUFFICES ASSUME IndexInv, SearchSawRow, [IndexNext]_indexVars PROVE SearchSawRow'
  OBVIOUS
<1>t. stored \in Nat /\ asked.stored \in 0..stored
  BY DEF IndexInv, IndexTypeOK
<1> USE DEF entity, searching, SearchSawRow
<1>1. ASSUME NEW s \in Saves,
             Create(s) \/ Update(s) \/ Reread(s) \/ RereadFails(s) \/ Publish(s)
      PROVE  SearchSawRow'
  BY <1>1, <1>t DEF Create, Update, Reread, RereadFails, Publish
<1>2. ASSUME NEW c \in Consumers,
             FetchEvent(c) \/ IndexEvent(c) \/ IndexEventFails(c) \/ NameEvent(c)
               \/ CommitEvent(c) \/ CrashIndexer(c) \/ ReassignTopic(c)
      PROVE  SearchSawRow'
  <2>1. UNCHANGED <<stored, gone, asked, misled>>
    BY <1>2 DEF FetchEvent, IndexEvent, IndexEventFails, NameEvent, CommitEvent, CrashIndexer,
                ReassignTopic
  <2> QED BY <2>1
<1>3. CASE Delete \/ Scan \/ ScanIndex \/ UNCHANGED indexVars
  <2>1. stored' \in {stored, stored + 1} /\ UNCHANGED <<isPost, search, asked, misled>>
    BY <1>3 DEF Delete, DeletePost, DeleteAccount, Scan, ScanIndex, indexVars
  <2>2. gone => gone'
    BY <1>3 DEF Delete, DeletePost, DeleteAccount, Scan, ScanIndex, indexVars
  <2> QED BY <2>1, <2>2, <1>t
<1>4. CASE Ask
  BY <1>4, <1>t DEF Ask
<1>5. CASE Hydrate
  <2>1. asked' = Nothing /\ UNCHANGED <<stored, gone>>
    BY <1>5 DEF Hydrate, Show
  <2>2. ~misled'
    <3>1. misled' = (misled \/ stored < asked.stored \/ (isPost /\ asked.gone))
      BY <1>5 DEF Hydrate, Show
    <3>2. ~(stored < asked.stored)
      BY <1>t
    <3>3. ~(isPost /\ asked.gone)
      BY <1>5 DEF Hydrate, Absent
    <3> QED BY <3>1, <3>2, <3>3
  <2> QED BY <2>1, <2>2, <1>t DEF Nothing
<1>6. CASE HydrateNone
  BY <1>6, <1>t DEF HydrateNone, Nothing
<1> QED
  BY <1>1, <1>2, <1>3, <1>4, <1>5, <1>6 DEF IndexNext

LEMMA FollowInit == IndexInit => FollowInv
<1> SUFFICES ASSUME IndexInit PROVE FollowInv
  OBVIOUS
<1>1. topic \in Seq(1..stored) /\ Len(topic) = 0
  BY DEF IndexInit
<1>2. /\ GroupTypeOK /\ committed = 0 /\ position = 0
      /\ works \in [Consumers -> {"idle", "index", "name", "commit"}]
      /\ \A c \in Consumers : works[c] = "idle" /\ inHand[c] = 0
  BY ConsumerAssumption DEF IndexInit, GroupInit, GroupTypeOK
<1>3. /\ saving \in [Saves -> {"new", "reread", "publish", "done"}]
      /\ snapshot \in [Saves -> 0..stored]
  BY DEF IndexInit
<1>4. asked \in [stored : 0..stored, gone : BOOLEAN]
  <2>1. asked = [stored |-> 0, gone |-> FALSE] /\ 0 \in 0..stored /\ FALSE \in BOOLEAN
    BY DEF IndexInit, Nothing
  <2> QED BY <2>1, Zenon
<1>5. IndexTypeOK
  <2>1. /\ isPost \in BOOLEAN /\ gone \in BOOLEAN /\ suggested \in BOOLEAN /\ misled \in BOOLEAN
        /\ passed \in BOOLEAN /\ outOfTurn \in BOOLEAN /\ nameLost \in BOOLEAN
    BY Zenon DEF IndexInit
  <2>2. /\ stored \in Nat /\ doc \in 0..stored /\ scanned \in 0..stored
        /\ scan \in {"ready", "index", "done"} /\ search \in {"idle", "hydrate"}
    BY DEF IndexInit
  <2> QED BY <1>1, <1>2, <1>3, <1>4, <2>1, <2>2 DEF IndexTypeOK
<1>6. WithinTopic
  BY <1>1, <1>2 DEF IndexInit, WithinTopic
<1>7. DocumentInTurn /\ NameInTurn
  BY <1>2 DEF DocumentInTurn, NameInTurn
<1>8. SearchSawRow
  BY DEF IndexInit, Nothing, SearchSawRow
<1> QED
  BY <1>5, <1>6, <1>7, <1>8 DEF FollowInv, IndexInv

\* Every reachable state of the index is well typed: in particular the document, the
\* topic and the scan only have versions that were saved.
THEOREM IndexTypeCorrect == IndexSpec => []IndexTypeOK
<1>1. FollowInv => IndexTypeOK
  BY DEF FollowInv, IndexInv
<1>2. FollowInv /\ [IndexNext]_indexVars => FollowInv'
  BY IndexTypeNext, DocumentNext, NameNext, SearchNext DEF FollowInv
<1> QED
  BY <1>1, <1>2, FollowInit, PTL DEF IndexSpec

\* At rest the document is the row and its name is suggested, but for the lapses the
\* history names, for any saves, processes, crashes and rebalances; and whatever the
\* index has, a search shows the row, as it is when the search begins or later.
THEOREM SearchShowsRow == IndexSpec => []SearchFollowsRow
<1>1. FollowInv => SearchFollowsRow
  <2> SUFFICES ASSUME FollowInv PROVE SearchFollowsRow
    OBVIOUS
  <2>1. AnswersFollowRow
    BY DEF FollowInv, SearchSawRow, AnswersFollowRow
  <2>2. IndexFollowsRow
    <3> SUFFICES ASSUME IndexAtRest, topic # <<>>, topic[Len(topic)] = stored, ~passed
                 PROVE  (outOfTurn \/ doc = stored) /\ (nameLost \/ suggested)
      BY DEF IndexFollowsRow
    <3>1. position \in Nat \ {0} /\ position = Len(topic) /\ works[owner] = "idle"
      BY EmptySeq, LenProperties DEF FollowInv, IndexInv, IndexTypeOK, GroupTypeOK, IndexAtRest
    <3>2. outOfTurn \/ doc = topic[position]
      BY <3>1 DEF FollowInv, DocumentInTurn, WrittenFrom
    <3>3. NameKnown
      BY <3>1 DEF FollowInv, NameInTurn
    <3> QED BY <3>1, <3>2, <3>3 DEF NameKnown
  <2> QED BY <2>1, <2>2 DEF SearchFollowsRow
<1>2. FollowInv /\ [IndexNext]_indexVars => FollowInv'
  BY IndexTypeNext, DocumentNext, NameNext, SearchNext DEF FollowInv
<1> QED
  BY <1>1, <1>2, FollowInit, PTL DEF IndexSpec

-----------------------------------------------------------------------------
(* The three parts side by side.                                           *)

\* The messages move or stay; the other two share the loop of the consumers, so
\* what holds of them holds in their scenes.
ScenesInv ==
  /\ scene \in {"messages", "fanout", "search"}
  /\ MessageInv
  /\ scene = "fanout" => OnceInv
  /\ scene = "search" => FollowInv

LEMMA ScenesNext == ScenesInv /\ [SideBySideNext]_allVars => ScenesInv'
<1> SUFFICES ASSUME ScenesInv, [SideBySideNext]_allVars PROVE ScenesInv'
  OBVIOUS
<1>1. scene' = scene /\ [Next]_vars
  BY Zenon DEF SideBySideNext, allVars
<1>2. MessageInv'
  BY <1>1, MessageTypeNext, KeysNext DEF ScenesInv, MessageInv
<1>3. ASSUME scene = "fanout" PROVE OnceInv'
  <2>1. [FanoutNext]_fanoutVars
    BY <1>3, Zenon DEF SideBySideNext, allVars, fanoutVars, fanoutOnly
  <2> QED BY <1>3, <2>1, OnceNext DEF ScenesInv
<1>4. ASSUME scene = "search" PROVE FollowInv'
  <2>1. [IndexNext]_indexVars
    BY <1>4, Zenon DEF SideBySideNext, allVars, indexVars, indexOnly
  <2> QED
    BY <1>4, <2>1, IndexTypeNext, DocumentNext, NameNext, SearchNext DEF ScenesInv, FollowInv
<1> QED
  BY <1>1, <1>2, <1>3, <1>4 DEF ScenesInv

\* Whichever of the parts moves, it and the messages stay well typed.
THEOREM DeliveryTypesCorrect == SideBySide => []AllTypesOK
<1>1. SideBySideInit => ScenesInv
  BY MessageInit, OnceInit, FollowInit DEF SideBySideInit, ScenesInv
<1>2. ScenesInv => AllTypesOK
  BY DEF ScenesInv, MessageInv, OnceInv, FanoutInv, FollowInv, IndexInv, AllTypesOK
<1> QED
  BY <1>1, <1>2, ScenesNext, PTL DEF SideBySide
=============================================================================
