--------------------------- MODULE DirectMessages ---------------------------
(***************************************************************************)
(* One conversation of two people: internal/data/dm_repository.go and the  *)
(* handlers of internal/handlers/dm_handler.go.                            *)
(*                                                                         *)
(* The conversation row holds last_message_at, and dm_conversations_by_user *)
(* lists the conversation in an inbox under that very time: to move it up,  *)
(* SendMessage reads the old time, deletes the rows at it and inserts rows  *)
(* at the new one.  Read and batch are two calls, and the requests of both  *)
(* people and all their devices interleave.                                *)
(*                                                                         *)
(* A request is a handler goroutine; it is also the id of its message.  A  *)
(* logged batch takes effect as one step.                                  *)
(***************************************************************************)
EXTENDS Naturals, FiniteSets

CONSTANTS
  Participants,  \* the two of them
  Requests,      \* HTTP requests; a bound on the workload
  Kinds,         \* the endpoints they may go to, a subset of AllKinds
  Versions,      \* key versions that may be uploaded
  Ties,          \* TRUE: two requests may read the clock in one millisecond
  Failures       \* TRUE: calls fail and processes end

AllKinds == {"create", "send", "deleteConv", "deleteMsg", "read"}

ASSUME DMAssumption ==
  /\ Cardinality(Participants) = 2
  /\ Kinds \subseteq AllKinds
  /\ Versions \subseteq Nat \ {0} /\ Ties \in BOOLEAN /\ Failures \in BOOLEAN

VARIABLES
  clock,      \* milliseconds, as time.Now() is stored
  created,    \* dm_conversations.created_at, 0 for no row
  last,       \* dm_conversations.last_message_at
  inbox,      \* rows <<user, last_message_at>> of dm_conversations_by_user
  messages,   \* rows of dm_messages: the requests that have stored one
  deleted,    \* those with deleted_at
  receipts,   \* last_read_id of each user, a message, or "none"
  keys,       \* key versions of each user in user_public_keys
  blocked,    \* a row in blocks, in either direction
  kind, user, \* what a request asks for, and who sends it
  pc,         \* where its handler is
  time,       \* the time it has read: now, or the SentAt of its message
  old,        \* the last_message_at it has read
  kv, skv,    \* KeyVersion and SenderKeyVersion of its message
  target,     \* the message it is about
  announced,  \* messages published to the recipient
  owed,       \* those the conversation was put into the inbox of, and not taken
  standing,   \* requests that came under a block which still stands
  hidden      \* users who deleted the conversation after all that happened to it

conv == <<created, last>>
request == <<kind, user, pc, time, old, kv, skv, target>>
vars == <<clock, conv, inbox, messages, deleted, receipts, keys, blocked, request,
          announced, owed, standing, hidden>>

Labels == {"idle", "mayOpen", "lwt", "rows", "existing", "ensure", "check", "keys", "last",
           "batch", "notify", "deleteConv", "drop", "deleteMsg", "tomb", "read",
           "done", "failed"}

TypeOK ==
  /\ clock \in Nat \ {0} /\ created \in 0..clock /\ last \in 0..clock
  /\ (created = 0) <=> (last = 0)
  /\ inbox \subseteq Participants \X (1..clock)
  /\ messages \subseteq Requests /\ deleted \subseteq messages
  /\ receipts \in [Participants -> messages \cup {"none"}]
  /\ keys \in [Participants -> SUBSET Versions]
  /\ blocked \in BOOLEAN
  /\ kind \in [Requests -> Kinds] /\ user \in [Requests -> Participants]
  /\ pc \in [Requests -> Labels]
  /\ time \in [Requests -> 0..clock] /\ old \in [Requests -> 0..clock]
  /\ kv \in [Requests -> Versions \cup {0}] /\ skv \in [Requests -> Versions \cup {0}]
  /\ target \in [Requests -> Requests]
  /\ announced \subseteq messages
  /\ owed \subseteq Participants /\ hidden \subseteq Participants
  /\ standing \subseteq Requests

Init ==
  /\ clock = 1 /\ created = 0 /\ last = 0 /\ inbox = {}
  /\ messages = {} /\ deleted = {} /\ announced = {}
  /\ receipts = [u \in Participants |-> "none"]
  /\ keys = [u \in Participants |-> {}]
  /\ blocked = FALSE
  /\ kind \in [Requests -> Kinds] /\ user \in [Requests -> Participants]
  /\ pc = [r \in Requests |-> "idle"]
  /\ time = [r \in Requests |-> 0] /\ old = [r \in Requests |-> 0]
  /\ kv = [r \in Requests |-> 0] /\ skv = [r \in Requests |-> 0]
  /\ target = [r \in Requests |-> r]
  /\ owed = {} /\ standing = {} /\ hidden = {}

-----------------------------------------------------------------------------
(* What the steps have in common.                                          *)

Goto(r, label) == pc' = [pc EXCEPT ![r] = label]
Other(u) == CHOOSE v \in Participants : v # u

\* GetPublicKey: the newest version, by the clustering order of the table.
CurrentKey(u) ==
  IF keys[u] = {} THEN 0 ELSE CHOOSE v \in keys[u] : \A w \in keys[u] : w <= v

\* time.Now(): later than every reading before, unless in the same millisecond.
Now(r) ==
  /\ clock' \in {clock + 1} \cup (IF Ties THEN {clock} ELSE {})
  /\ time' = [time EXCEPT ![r] = clock']

\* What a request leaves alone until its last step.
Untouched == UNCHANGED <<messages, deleted, receipts, keys, blocked, kind, user,
                         announced, standing>>
Unlisted == UNCHANGED <<conv, inbox, owed, hidden>>

\* A request comes in: it names a key version, and a message it is about.
Accept(r, k, label, versions, named) ==
  /\ pc[r] = "idle" /\ kind[r] = k
  /\ Goto(r, label)
  /\ \E v \in versions : kv' = [kv EXCEPT ![r] = v]
  /\ \E m \in named : target' = [target EXCEPT ![r] = m]
  /\ standing' = IF blocked THEN standing \cup {r} ELSE standing
  /\ Unlisted
  /\ UNCHANGED <<clock, messages, deleted, receipts, keys, blocked, kind, user, time,
                 old, skv, announced>>

PostConversation(r) == Accept(r, "create", "mayOpen", {0}, {r})
PostMessage(r) == Accept(r, "send", "check", Versions, {r})

\* The others begin with GetConversation.
IfCreated(label) == IF created = 0 THEN "failed" ELSE label
DeleteConversation(r) == Accept(r, "deleteConv", IfCreated("deleteConv"), {0}, {r})
DeleteMessage(r) == Accept(r, "deleteMsg", IfCreated("deleteMsg"), {0}, messages)
PutRead(r) == Accept(r, "read", IfCreated("read"), {0}, messages)

Receive(r) ==
  PostConversation(r) \/ PostMessage(r) \/ DeleteConversation(r) \/ DeleteMessage(r)
    \/ PutRead(r)

-----------------------------------------------------------------------------
(* postConversation: IsBlocked, then GetOrCreateConversation.              *)

MayOpen(r) ==
  /\ pc[r] = "mayOpen"
  /\ Goto(r, IF blocked THEN "failed" ELSE "lwt")
  /\ Untouched /\ Unlisted
  /\ UNCHANGED <<clock, time, old, kv, skv, target>>

\* INSERT INTO dm_conversations ... IF NOT EXISTS.
InsertConversation(r) ==
  /\ pc[r] = "lwt"
  /\ Now(r)
  /\ IF created = 0
       THEN created' = clock' /\ last' = clock' /\ Goto(r, "rows")
       ELSE UNCHANGED conv /\ Goto(r, "existing")
  /\ Untouched
  /\ UNCHANGED <<inbox, owed, hidden, old, kv, skv, target>>

\* It was inserted: the batch of the two inbox rows.
InsertInboxRows(r) ==
  /\ pc[r] = "rows"
  /\ inbox' = inbox \cup (Participants \X {time[r]})
  /\ owed' = Participants /\ hidden' = {}
  /\ Goto(r, "done")
  /\ Untouched
  /\ UNCHANGED <<clock, conv, time, old, kv, skv, target>>

\* It was there: GetConversation, then ensureInboxRow at the time read.
ReadExisting(r) ==
  /\ pc[r] = "existing"
  /\ old' = [old EXCEPT ![r] = last]
  /\ Goto(r, "ensure")
  /\ Untouched /\ Unlisted
  /\ UNCHANGED <<clock, time, kv, skv, target>>

\* Mutant of EnsureInboxRow: the time of the conversation is not loaded.
EnsureAtZero(r) ==
  /\ pc[r] = "ensure"
  /\ inbox' = inbox \cup {<<user[r], 0>>}
  /\ owed' = owed \cup {user[r]} /\ hidden' = hidden \ {user[r]}
  /\ Goto(r, "done")
  /\ Untouched
  /\ UNCHANGED <<clock, conv, time, old, kv, skv, target>>

EnsureInboxRow(r) ==
  /\ pc[r] = "ensure"
  /\ inbox' = inbox \cup {<<user[r], old[r]>>}
  /\ owed' = owed \cup {user[r]} /\ hidden' = hidden \ {user[r]}
  /\ Goto(r, "done")
  /\ Untouched
  /\ UNCHANGED <<clock, conv, time, old, kv, skv, target>>

-----------------------------------------------------------------------------
(* postMessage.                                                            *)

\* Mutant of CheckBlock: the answer of IsBlocked is not looked at.
BlockUnchecked(r) ==
  /\ pc[r] = "check"
  /\ Goto(r, IF created = 0 THEN "failed" ELSE "keys")
  /\ Untouched /\ Unlisted
  /\ UNCHANGED <<clock, time, old, kv, skv, target>>

\* GetConversation and IsBlocked.
CheckBlock(r) ==
  /\ pc[r] = "check"
  /\ Goto(r, IF created = 0 \/ blocked THEN "failed" ELSE "keys")
  /\ Untouched /\ Unlisted
  /\ UNCHANGED <<clock, time, old, kv, skv, target>>

\* The version named must be the recipient's newest, and the sender must have a
\* key: two reads, of partitions that only grow.  SendMessage then takes the time
\* as SentAt.
CheckKeys(r) ==
  /\ pc[r] = "keys"
  /\ Now(r)
  /\ skv' = [skv EXCEPT ![r] = CurrentKey(user[r])]
  /\ Goto(r, IF kv[r] = CurrentKey(Other(user[r])) /\ keys[user[r]] # {}
               THEN "last" ELSE "failed")
  /\ Untouched /\ Unlisted
  /\ UNCHANGED <<old, kv, target>>

ReadLast(r) ==
  /\ pc[r] = "last"
  /\ old' = [old EXCEPT ![r] = last]
  /\ Goto(r, "batch")
  /\ Untouched /\ Unlisted
  /\ UNCHANGED <<clock, time, kv, skv, target>>

\* Mutant of Bumped: only the sender's row moves up.
BumpedForSender(rows, from, to, u) ==
  (rows \ (Participants \X {from})) \cup ({u} \X {to})

\* The inbox rows of both, moved from the old time to the new one.  All of a
\* batch has one write timestamp, and a deletion wins over an insertion of the
\* same row with the same timestamp: where the times are equal, the rows go.
Bumped(rows, from, to, u) ==
  (rows \cup (Participants \X {to})) \ (Participants \X {from})

StoreMessage(r) ==
  /\ messages' = messages \cup {r}
  /\ last' = time[r]
  /\ inbox' = Bumped(inbox, old[r], time[r], user[r])
  /\ owed' = Participants /\ hidden' = {}
  /\ UNCHANGED created

SendBatch(r) ==
  /\ pc[r] = "batch"
  /\ StoreMessage(r)
  /\ Goto(r, "notify")
  /\ UNCHANGED <<clock, deleted, receipts, keys, blocked, kind, user, announced,
                 standing, time, old, kv, skv, target>>

\* The goroutine that publishes to dm:<recipient>, and to Kafka for somebody who
\* is not online; nobody waits for it.
Announce(r) ==
  /\ pc[r] = "notify"
  /\ announced' = announced \cup {r}
  /\ Goto(r, "done")
  /\ Unlisted
  /\ UNCHANGED <<clock, messages, deleted, receipts, keys, blocked, kind, user,
                 standing, time, old, kv, skv, target>>

-----------------------------------------------------------------------------
(* deleteConversation, deleteMessage, putRead.                             *)

\* GetConversation ...
ReadToHide(r) ==
  /\ pc[r] = "deleteConv"
  /\ old' = [old EXCEPT ![r] = last]
  /\ Goto(r, "drop")
  /\ Untouched /\ Unlisted
  /\ UNCHANGED <<clock, time, kv, skv, target>>

\* ... and the DELETE of the requester's row at the time read.
DropInboxRow(r) ==
  /\ pc[r] = "drop"
  /\ inbox' = inbox \ {<<user[r], old[r]>>}
  /\ owed' = owed \ {user[r]}
  /\ hidden' = IF old[r] = last THEN hidden \cup {user[r]} ELSE hidden
  /\ Goto(r, "done")
  /\ Untouched
  /\ UNCHANGED <<clock, conv, time, old, kv, skv, target>>

\* SoftDeleteMessage: the message must be the requester's own.
ReadMessage(r) ==
  /\ pc[r] = "deleteMsg"
  /\ Goto(r, CASE user[target[r]] # user[r] -> "failed"
               [] target[r] \in deleted -> "done"
               [] OTHER -> "tomb")
  /\ Untouched /\ Unlisted
  /\ UNCHANGED <<clock, time, old, kv, skv, target>>

SetDeletedAt(r) ==
  /\ pc[r] = "tomb"
  /\ deleted' = deleted \cup {target[r]}
  /\ Goto(r, "done")
  /\ Unlisted
  /\ UNCHANGED <<clock, messages, receipts, keys, blocked, kind, user, announced,
                 standing, time, old, kv, skv, target>>

\* MarkRead: the pointer the client names, further on or further back.
MarkRead(r) ==
  /\ pc[r] = "read"
  /\ receipts' = [receipts EXCEPT ![user[r]] = target[r]]
  /\ Goto(r, "done")
  /\ Unlisted
  /\ UNCHANGED <<clock, messages, deleted, keys, blocked, kind, user, announced,
                 standing, time, old, kv, skv, target>>

-----------------------------------------------------------------------------
(* Keys, blocks, failures.                                                 *)

\* putPublicKey: any version, in any order.  A key that replaces another of its
\* version is not told apart from it.
UpsertPublicKey(u, v) ==
  /\ keys' = [keys EXCEPT ![u] = @ \cup {v}]
  /\ UNCHANGED <<clock, conv, inbox, messages, deleted, receipts, blocked, request,
                 announced, owed, standing, hidden>>

BlockUser ==
  /\ ~blocked /\ \E r \in Requests : pc[r] = "idle"
  /\ blocked' = TRUE
  /\ UNCHANGED <<clock, conv, inbox, messages, deleted, receipts, keys, request,
                 announced, owed, standing, hidden>>

UnblockUser ==
  /\ blocked /\ \E r \in Requests : pc[r] = "idle"
  /\ blocked' = FALSE /\ standing' = {}
  /\ UNCHANGED <<clock, conv, inbox, messages, deleted, receipts, keys, request,
                 announced, owed, hidden>>

\* A call of Cassandra fails and the handler returns, or the process ends.  A
\* write that is applied and yet reported as failed is that write and then this.
Fail(r) ==
  /\ Failures
  /\ pc[r] \notin {"idle", "done", "failed"}
  /\ Goto(r, "failed")
  /\ Untouched /\ Unlisted
  /\ UNCHANGED <<clock, time, old, kv, skv, target>>

Step(r) ==
  \/ MayOpen(r) \/ InsertConversation(r) \/ InsertInboxRows(r) \/ ReadExisting(r) \/ EnsureInboxRow(r)
  \/ CheckBlock(r) \/ CheckKeys(r) \/ ReadLast(r) \/ SendBatch(r) \/ Announce(r)
  \/ ReadToHide(r) \/ DropInboxRow(r)
  \/ ReadMessage(r) \/ SetDeletedAt(r) \/ MarkRead(r)

Next ==
  \/ \E r \in Requests : Receive(r) \/ Step(r) \/ Fail(r)
  \/ \E u \in Participants, v \in Versions : UpsertPublicKey(u, v)
  \/ BlockUser \/ UnblockUser

Spec == Init /\ [][Next]_vars

-----------------------------------------------------------------------------
(* Properties.                                                             *)

\* ListConversations answers with the conversation.
Lists(u) == \E t \in 1..clock : <<u, t>> \in inbox

\* A conversation put into an inbox is never lost from it by the messages, the
\* openings and the other's deletions that go on at the same time: only one's own
\* deletion takes it out.  Holds where no two requests share a millisecond.
NeverLostFromInbox == \A u \in owed : Lists(u)

\* What is stored names known keys: the recipient had published the version the
\* message is encrypted for, and the sender the one it names, even when keys are
\* rotated while the message is on its way.
StoredForKnownKeys ==
  \A m \in messages :
    kv[m] \in keys[Other(user[m])] /\ skv[m] \in keys[user[m]]

\* A block that stood when a request came in and stands ever since keeps its
\* message out, and its conversation from being opened.
BlockStopsTraffic ==
  \A r \in standing :
    /\ r \notin messages
    /\ kind[r] = "create" => pc[r] \in {"idle", "mayOpen", "failed"}

\* docs/api/dm.md of DELETE /conversations/:id: "no longer lists this chat for
\* you".  With nothing in flight, who deleted the conversation last of all does
\* not find it listed.
Quiet == \A r \in Requests : pc[r] \in {"idle", "done", "failed"}
DeletedStaysHidden ==
  Quiet => \A u \in hidden : ~Lists(u)
=============================================================================
