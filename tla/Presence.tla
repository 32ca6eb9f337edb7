------------------------------ MODULE Presence ------------------------------
(***************************************************************************)
(* The live stream of one person: StreamNotifications                      *)
(* (internal/notifications/sse/handler.go) and the presence key that       *)
(* decides whether a direct message is also queued (recipientOnline and    *)
(* maybeProduceDMKafka, internal/handlers/dm_handler.go).                  *)
(*                                                                         *)
(* There is one key per person, whatever the number of streams: each sets  *)
(* it with a time to live and refreshes it, and each deletes it when it    *)
(* ends.  Time passes in ticks; a heartbeat is due every Heartbeat of them *)
(* (30 seconds), the key lives for Lease (90 seconds).                     *)
(***************************************************************************)
EXTENDS Naturals, FiniteSets

CONSTANTS
  Streams,         \* connections the person may have at the same time
  Heartbeat, Lease,
  Refusals         \* how many calls for the key may fail: a bound

ASSUME PresenceAssumption ==
  /\ Heartbeat \in Nat \ {0} /\ Lease \in Nat /\ Heartbeat < Lease
  /\ Refusals \in Nat

VARIABLES
  stream,    \* a connection is closed, open, or about to clean up
  due,       \* ticks until its next heartbeat
  ttl,       \* ticks the key has still to live, 0 where there is none
  refused,   \* calls for the key that have failed
  missing,   \* history: ticks the key has been missing beside an open stream
  lonely     \* history: ticks the key has stood without one

presenceVars == <<stream, due, ttl, refused, missing, lonely>>

PresenceTypeOK ==
  /\ stream \in [Streams -> {"closed", "open", "closing"}]
  /\ due \in [Streams -> 0..Heartbeat]
  /\ ttl \in 0..Lease /\ refused \in 0..Refusals
  /\ missing \in Nat /\ lonely \in Nat

PresenceInit ==
  /\ stream = [s \in Streams |-> "closed"] /\ due = [s \in Streams |-> 0]
  /\ ttl = 0 /\ refused = 0 /\ missing = 0 /\ lonely = 0

-----------------------------------------------------------------------------

\* recipientOnline, by which maybeProduceDMKafka leaves a message to the stream.
RecipientOnline == ttl > 0

Connected == {s \in Streams : stream[s] = "open"}

\* A call for the key works, or fails and changes nothing: the error is logged.
SetKey ==
  \/ /\ ttl' = Lease /\ missing' = 0 /\ lonely' = 0
     /\ UNCHANGED refused
  \/ /\ refused < Refusals /\ refused' = refused + 1
     /\ UNCHANGED <<ttl, missing, lonely>>

\* Subscribe, SET, NewTicker.
Connect(s) ==
  /\ stream[s] = "closed"
  /\ stream' = [stream EXCEPT ![s] = "open"]
  /\ due' = [due EXCEPT ![s] = Heartbeat]
  /\ SetKey

\* Mutant of Beat: a heartbeat that does not refresh the key.
BeatOnly(s) ==
  /\ stream[s] = "open" /\ due[s] = 0
  /\ due' = [due EXCEPT ![s] = Heartbeat]
  /\ UNCHANGED <<stream, ttl, refused, missing, lonely>>

\* The ticker fires: SET again.
Beat(s) ==
  /\ stream[s] = "open" /\ due[s] = 0
  /\ due' = [due EXCEPT ![s] = Heartbeat]
  /\ SetKey
  /\ UNCHANGED stream

\* The client goes away, or the subscription ends: the stream stops, and the
\* deferred DEL is still to come.
Disconnect(s) ==
  /\ stream[s] = "open"
  /\ stream' = [stream EXCEPT ![s] = "closing"]
  /\ due' = [due EXCEPT ![s] = 0]
  /\ UNCHANGED <<ttl, refused, missing, lonely>>

\* DEL, though other streams of the person may be open.
CleanUp(s) ==
  /\ stream[s] = "closing"
  /\ stream' = [stream EXCEPT ![s] = "closed"]
  /\ \/ ttl' = 0 /\ UNCHANGED refused
     \/ refused < Refusals /\ refused' = refused + 1 /\ UNCHANGED ttl
  /\ UNCHANGED <<due, missing, lonely>>

\* The process ends: no DEL.
Vanish(s) ==
  /\ stream[s] # "closed"
  /\ stream' = [stream EXCEPT ![s] = "closed"]
  /\ due' = [due EXCEPT ![s] = 0]
  /\ UNCHANGED <<ttl, refused, missing, lonely>>

\* Time passes, while no heartbeat is overdue.
Tick ==
  /\ \A s \in Connected : due[s] > 0
  /\ due' = [s \in Streams |-> IF s \in Connected THEN due[s] - 1 ELSE due[s]]
  /\ ttl' = IF ttl = 0 THEN 0 ELSE ttl - 1
  /\ missing' = IF Connected # {} /\ ~RecipientOnline THEN missing + 1 ELSE 0
  /\ lonely' = IF Connected = {} /\ RecipientOnline THEN lonely + 1 ELSE 0
  /\ UNCHANGED <<stream, refused>>

PresenceNext ==
  \/ \E s \in Streams :
       Connect(s) \/ Beat(s) \/ Disconnect(s) \/ CleanUp(s) \/ Vanish(s)
  \/ Tick

PresenceSpec == PresenceInit /\ [][PresenceNext]_presenceVars

-----------------------------------------------------------------------------
(* Properties.                                                             *)

\* "Online" is wrong for a limited time in either direction, however streams come
\* and go: who has a stream is taken for absent for one heartbeat at most, and one
\* more for each refresh that fails (another stream has deleted the key: the
\* message is queued beside the stream); who has none is taken for present for the
\* life of the key at most (the process has died: the message is not announced).
PresenceHeals ==
  /\ missing <= Heartbeat * (1 + refused)
  /\ lonely <= Lease
=============================================================================
