--------------------------- MODULE ConsumerGroup ---------------------------
(***************************************************************************)
(* RunConsumerGroup (internal/notifications/kafka/consumer.go): the loop    *)
(* in which the API processes of one consumer group read one partition.    *)
(* The modules of the handlers EXTEND or INSTANCE it and give its steps    *)
(* the rest of their effect.                                               *)
(*                                                                         *)
(* The broker keeps one committed offset for the group and assigns the     *)
(* partition to one process.  The reader of that process remembers in      *)
(* memory how far it has fetched; whoever gets the partition next starts   *)
(* from the committed offset.                                              *)
(***************************************************************************)
EXTENDS Naturals, FiniteSets

CONSTANTS
  Consumers,       \* the API processes
  MaxDisruptions   \* bound on crashes, rebalances and failed commits

ASSUME ConsumerAssumption ==
  Consumers # {} /\ IsFiniteSet(Consumers) /\ MaxDisruptions \in Nat

VARIABLES
  committed,   \* messages 1..committed of the partition are done with
  owner,       \* the process that has the partition
  position,    \* the last message its reader has fetched
  inHand,      \* the message the handler of a process works on, 0 for none
  disruptions  \* crashes, rebalances and failed commits so far

groupVars == <<committed, owner, position, inHand, disruptions>>

GroupTypeOK ==
  /\ committed \in Nat /\ position \in Nat
  /\ owner \in Consumers
  /\ inHand \in [Consumers -> Nat]
  /\ disruptions \in 0..MaxDisruptions

GroupInit ==
  /\ committed = 0 /\ position = 0
  /\ owner \in Consumers
  /\ inHand = [c \in Consumers |-> 0]
  /\ disruptions = 0

\* FetchMessage: the next message after the position of the reader.
FetchMessage(c, end) ==
  /\ owner = c /\ inHand[c] = 0 /\ position < end
  /\ position' = position + 1
  /\ inHand' = [inHand EXCEPT ![c] = position + 1]
  /\ UNCHANGED <<committed, owner, disruptions>>

Disrupt ==
  /\ disruptions < MaxDisruptions
  /\ disruptions' = disruptions + 1

\* The handler has returned nil: CommitMessages, whose error is logged and dropped.
\* Only the member that has the partition may commit it; the late commit of another is
\* refused or, where the reader has joined the group anew in the meantime, taken for
\* what it says.
CommitMessages(c) ==
  /\ inHand[c] # 0
  /\ \/ committed' = inHand[c] /\ UNCHANGED disruptions
     \/ owner # c /\ UNCHANGED <<committed, disruptions>>
     \/ Disrupt /\ UNCHANGED committed
  /\ inHand' = [inHand EXCEPT ![c] = 0]
  /\ UNCHANGED <<owner, position>>

\* Mutant of HandlerError: the message stays with the handler.
ErrorKeepsMessage(c) ==
  /\ inHand[c] # 0
  /\ UNCHANGED <<committed, owner, position, inHand, disruptions>>

\* The handler has returned an error: log, sleep, and fetch the NEXT message,
\* the position of the reader being past this one.
HandlerError(c) ==
  /\ inHand[c] # 0
  /\ inHand' = [inHand EXCEPT ![c] = 0]
  /\ UNCHANGED <<committed, owner, position, disruptions>>

\* The partition moves to c, whose reader starts at the committed offset.  The
\* handler the previous owner is in goes on, knowing nothing of it.
Rebalance(c) ==
  /\ Disrupt
  /\ owner' = c /\ position' = committed
  /\ UNCHANGED <<committed, inHand>>

\* The process of c ends in the middle of its handler, and comes back.
Crash(c) ==
  /\ Disrupt
  /\ inHand[c] # 0
  /\ inHand' = [inHand EXCEPT ![c] = 0]
  /\ position' = IF owner = c THEN committed ELSE position
  /\ UNCHANGED <<committed, owner>>
=============================================================================
