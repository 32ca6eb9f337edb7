--------------------------- MODULE CountersProofs ---------------------------
(***************************************************************************)
(* Proofs about the parts that keep a count or a flag beside rows, for any *)
(* number of streams, devices, notifications, fans and calls: Presence,    *)
(* Inbox and Follows; and about Counters, in which they and Likes run side *)
(* by side.  (Likes has a module of its own, LikesProofs.)                 *)
(***************************************************************************)
EXTENDS Counters, LikesProofs

-----------------------------------------------------------------------------
(* Presence: the key heals.                                                *)

LEMMA PresenceTypeNext == PresenceTypeOK /\ [PresenceNext]_presenceVars => PresenceTypeOK'
<1> SUFFICES ASSUME PresenceTypeOK, [PresenceNext]_presenceVars PROVE PresenceTypeOK'
  OBVIOUS
<1> USE PresenceAssumption DEF PresenceTypeOK
<1>1. ASSUME NEW s \in Streams, Connect(s) \/ Beat(s) PROVE PresenceTypeOK'
  BY <1>1 DEF Connect, Beat, SetKey
<1>2. ASSUME NEW s \in Streams, Disconnect(s) \/ CleanUp(s) \/ Vanish(s) PROVE PresenceTypeOK'
  BY <1>2 DEF Disconnect, CleanUp, Vanish
<1>3. CASE Tick
  <2>1. \A s \in Streams : due'[s] \in 0..Heartbeat
    BY <1>3 DEF Tick, Connected
  <2>2. due' \in [Streams -> 0..Heartbeat]
    BY <1>3, <2>1 DEF Tick
  <2>3. ttl' \in 0..Lease /\ missing' \in Nat /\ lonely' \in Nat
    BY <1>3 DEF Tick
  <2> QED BY <1>3, <2>2, <2>3 DEF Tick
<1>4. CASE UNCHANGED presenceVars
  BY <1>4 DEF presenceVars
<1> QED
  BY <1>1, <1>2, <1>3, <1>4 DEF PresenceNext

\* Whatever connects, beats, ends or vanishes, and whichever calls for the key
\* fail, the presence of one person stays well typed.
THEOREM PresenceTypeCorrect == PresenceSpec => []PresenceTypeOK
<1>1. PresenceInit => PresenceTypeOK
  BY PresenceAssumption DEF PresenceInit, PresenceTypeOK
<1> QED
  BY <1>1, PresenceTypeNext, PTL DEF PresenceSpec

\* The time that the key may be missing: a heartbeat, and one for each refusal.
Patience(n) == Heartbeat * (1 + n)

LEMMA PatienceGrows ==
  ASSUME NEW n \in Nat
  PROVE  Patience(n) \in Nat /\ Heartbeat <= Patience(n) /\ Patience(n + 1) = Patience(n) + Heartbeat
BY PresenceAssumption DEF Patience

\* A key that is missing is set again at the next heartbeat of every stream that is
\* open; a key that stands without a stream has been refreshed no later than the
\* last one went away.
PresenceInv ==
  /\ PresenceTypeOK
  /\ lonely + ttl <= Lease
  /\ ttl > 0 => missing = 0
  /\ missing <= Patience(refused)
  /\ ttl = 0 => \A s \in Connected : missing + due[s] <= Patience(refused)

LEMMA PresenceInvNext == PresenceInv /\ [PresenceNext]_presenceVars => PresenceInv'
<1> SUFFICES ASSUME PresenceInv, [PresenceNext]_presenceVars PROVE PresenceInv'
  OBVIOUS
<1>t. PresenceTypeOK /\ PresenceTypeOK'
  BY PresenceTypeNext DEF PresenceInv
<1>n. /\ ttl \in Nat /\ missing \in Nat /\ lonely \in Nat /\ refused \in Nat
      /\ \A s \in Streams : due[s] \in Nat /\ due[s] <= Heartbeat
      /\ Heartbeat \in Nat \ {0} /\ Lease \in Nat /\ Heartbeat < Lease
  BY <1>t, PresenceAssumption DEF PresenceTypeOK
<1>p. /\ Patience(refused) \in Nat /\ Heartbeat <= Patience(refused)
      /\ Patience(refused + 1) = Patience(refused) + Heartbeat
  BY <1>n, PatienceGrows
\* Another call for the key has failed, and a heartbeat is due later.
<1>r. ASSUME NEW s \in Streams, refused' = refused + 1, UNCHANGED <<ttl, missing, lonely>>,
             \A q \in Connected' : (q \in Connected /\ due'[q] = due[q]) \/ due'[q] <= Heartbeat
      PROVE  PresenceInv'
  <2>1. Patience(refused') = Patience(refused) + Heartbeat
    BY <1>r, <1>p
  <2>2. ASSUME NEW q \in Connected', ttl = 0 PROVE missing + due'[q] <= Patience(refused) + Heartbeat
    <3>1. due'[q] \in Nat /\ missing <= Patience(refused)
      BY <1>t, <2>2 DEF Connected, PresenceTypeOK, PresenceInv
    <3>2. CASE q \in Connected /\ due'[q] = due[q]
      BY <3>1, <3>2, <2>2, <1>p, <1>n DEF PresenceInv
    <3>3. CASE due'[q] <= Heartbeat
      BY <3>1, <3>3, <1>p, <1>n
    <3> QED BY <1>r, <2>2, <3>2, <3>3
  <2>3. missing' <= Patience(refused')
    BY <1>r, <2>1, <1>p, <1>n DEF PresenceInv
  <2> QED BY <1>r, <1>t, <2>1, <2>2, <2>3 DEF PresenceInv
\* The key is set.
<1>s. ASSUME ttl' = Lease, missing' = 0, lonely' = 0, UNCHANGED refused PROVE PresenceInv'
  BY <1>s, <1>t, <1>n, <1>p DEF PresenceInv
\* A stream goes; the key stays, or goes as well.
<1>g. ASSUME ttl' \in {0, ttl}, UNCHANGED <<missing, lonely, refused>>,
             \A q \in Connected' : q \in Connected /\ due'[q] = due[q]
      PROVE  PresenceInv'
  <2>1. ASSUME ttl' = 0, NEW q \in Connected' PROVE missing' + due'[q] <= Patience(refused')
    <3>1. due'[q] = due[q] /\ q \in Connected /\ q \in Streams
      BY <1>g, <2>1 DEF Connected
    <3>2. CASE ttl = 0
      BY <3>1, <3>2, <1>g DEF PresenceInv
    <3>3. CASE ttl > 0
      <4>1. missing = 0
        BY <3>3 DEF PresenceInv
      <4> QED BY <3>1, <4>1, <1>g, <1>n, <1>p
    <3> QED BY <3>2, <3>3, <1>n
  <2>2. lonely' + ttl' <= Lease /\ (ttl' > 0 => missing' = 0) /\ missing' <= Patience(refused')
    <3>1. lonely + ttl <= Lease /\ (ttl > 0 => missing = 0) /\ missing <= Patience(refused)
      BY DEF PresenceInv
    <3>2. CASE ttl' = 0
      BY <1>g, <1>n, <3>1, <3>2
    <3>3. CASE ttl' = ttl
      BY <1>g, <3>1, <3>3
    <3> QED BY <1>g, <3>2, <3>3
  <2> QED BY <2>1, <2>2, <1>t DEF PresenceInv
<1>1. ASSUME NEW s \in Streams, Connect(s) \/ Beat(s) PROVE PresenceInv'
  <2>1. /\ due' = [due EXCEPT ![s] = Heartbeat] /\ SetKey
        /\ stream' = [stream EXCEPT ![s] = "open"]
    BY <1>1, <1>t DEF Connect, Beat, PresenceTypeOK
  <2>2. \A q \in Connected' : (q \in Connected /\ due'[q] = due[q]) \/ due'[q] <= Heartbeat
    BY <2>1, <1>t, <1>n DEF Connected, PresenceTypeOK
  <2> QED BY <2>1, <2>2, <1>r, <1>s DEF SetKey
<1>2. ASSUME NEW s \in Streams, Disconnect(s) \/ CleanUp(s) \/ Vanish(s) PROVE PresenceInv'
  <2>1. \A q \in Connected' : q \in Connected /\ due'[q] = due[q]
    BY <1>2, <1>t DEF Disconnect, CleanUp, Vanish, Connected, PresenceTypeOK
  <2>2. \/ ttl' \in {0, ttl} /\ UNCHANGED <<missing, lonely, refused>>
        \/ refused' = refused + 1 /\ UNCHANGED <<ttl, missing, lonely>>
    BY <1>2 DEF Disconnect, CleanUp, Vanish
  <2> QED BY <2>1, <2>2, <1>g, <1>r
<1>3. CASE Tick
  <2>1. /\ UNCHANGED <<stream, refused>> /\ Connected' = Connected
        /\ \A s \in Connected : s \in Streams /\ due[s] > 0 /\ due'[s] = due[s] - 1
        /\ ttl' = (IF ttl = 0 THEN 0 ELSE ttl - 1)
        /\ missing' = (IF Connected # {} /\ ttl = 0 THEN missing + 1 ELSE 0)
        /\ lonely' = (IF Connected = {} /\ ttl > 0 THEN lonely + 1 ELSE 0)
    BY <1>3, <1>n DEF Tick, Connected, RecipientOnline
  <2>2. lonely' + ttl' <= Lease
    <3>1. lonely + ttl <= Lease
      BY DEF PresenceInv
    <3>2. ttl <= Lease
      BY <1>n, <3>1
    <3>3. CASE ttl = 0
      BY <3>3, <2>1, <1>n
    <3>4. CASE ttl # 0
      BY <3>1, <3>2, <3>4, <2>1, <1>n
    <3> QED BY <3>3, <3>4
  <2>3. ttl' > 0 => missing' = 0
    BY <2>1, <1>n
  <2>4. ASSUME NEW s \in Connected PROVE ttl = 0 => missing' + due'[s] <= Patience(refused)
    BY <2>1, <2>4, <1>n DEF PresenceInv
  <2>5. ASSUME NEW s \in Connected PROVE ttl # 0 => missing' + due'[s] <= Patience(refused)
    BY <2>1, <2>5, <1>n, <1>p
  <2>6. missing' <= Patience(refused)
    <3>1. CASE Connected # {} /\ ttl = 0
      <4>1. PICK s \in Connected : TRUE
        BY <3>1
      <4>2. missing' + due'[s] <= Patience(refused) /\ due'[s] \in Nat /\ missing' \in Nat
        BY <3>1, <2>4, <2>1, <1>n
      <4> QED BY <4>2, <1>p
    <3>2. CASE ~(Connected # {} /\ ttl = 0)
      BY <3>2, <2>1, <1>p
    <3> QED BY <3>1, <3>2
  <2> QED BY <2>1, <2>2, <2>3, <2>4, <2>5, <2>6, <1>t DEF PresenceInv
<1>4. CASE UNCHANGED presenceVars
  BY <1>4, <1>t DEF presenceVars, PresenceInv, Connected
<1> QED
  BY <1>1, <1>2, <1>3, <1>4 DEF PresenceNext

\* However the streams of a person come, go and vanish beside one another: who has
\* one is taken for absent for one heartbeat, and one more for each refused call,
\* and who has none is taken for present for the life of the key, at most.
THEOREM PresenceAlwaysHeals == PresenceSpec => []PresenceHeals
<1>1. PresenceInit => PresenceInv
  <2> SUFFICES ASSUME PresenceInit PROVE PresenceInv
    OBVIOUS
  <2>1. PresenceTypeOK /\ Connected = {} /\ 0 <= Patience(0)
    BY PresenceAssumption, PatienceGrows DEF PresenceInit, PresenceTypeOK, Connected
  <2> QED BY <2>1, PresenceAssumption DEF PresenceInit, PresenceInv
<1>2. PresenceInv => PresenceHeals
  <2> SUFFICES ASSUME PresenceInv PROVE missing <= Patience(refused) /\ lonely <= Lease
    BY DEF PresenceHeals, Patience
  <2>1. lonely \in Nat /\ ttl \in Nat /\ Lease \in Nat
    BY PresenceAssumption DEF PresenceInv, PresenceTypeOK
  <2> QED BY <2>1 DEF PresenceInv
<1> QED
  BY <1>1, <1>2, PresenceInvNext, PTL DEF PresenceSpec

-----------------------------------------------------------------------------
(* Inbox: the badge stays in step.                                         *)

\* A request, with rows of S to work on.
CallOver(S) == [step : InboxSteps, on : SUBSET S, found : Nat]

LEMMA ThenTyped ==
  ASSUME InboxTypeOK, NEW d \in Callers, NEW step \in InboxSteps,
         NEW on \in SUBSET stored, NEW found \in Nat, Then(d, step, on, found)
  PROVE  /\ call' \in [Callers -> CallOver(stored)]
         /\ call'[d].step = step /\ call'[d].on = on /\ call'[d].found = found
         /\ \A e \in Callers \ {d} : call'[e] = call[e]
<1>1. [step |-> step, on |-> on, found |-> found] \in CallOver(stored)
  BY DEF CallOver
<1>2. call \in [Callers -> CallOver(stored)]
  BY DEF InboxTypeOK, CallOver
<1> QED
  BY <1>1, <1>2 DEF Then

LEMMA CallParts ==
  ASSUME InboxTypeOK, NEW d \in Callers
  PROVE  call[d].step \in InboxSteps /\ call[d].on \in SUBSET stored /\ call[d].found \in Nat
BY DEF InboxTypeOK

\* A step that keeps the rows that there are is typed by its parts.
LEMMA InboxTyped ==
  ASSUME InboxTypeOK, UNCHANGED stored,
         call' \in [Callers -> CallOver(stored)], arriving' \subseteq stored,
         read' \subseteq stored, hidden' \subseteq stored, lapsed' \subseteq stored,
         badge' \in Nat \cup {NoKey}, alone' \in BOOLEAN, tidy' \in BOOLEAN
  PROVE  InboxTypeOK'
BY DEF InboxTypeOK, CallOver

LEMMA FlagsTyped ==
  ASSUME InboxTypeOK
  PROVE  (Begins \/ Disturbs \/ Calm) => alone' \in BOOLEAN /\ tidy' \in BOOLEAN
<1>1. Resting \in BOOLEAN /\ (tidy /\ Resting) \in BOOLEAN
  BY DEF Resting
<1>2. alone \in BOOLEAN /\ tidy \in BOOLEAN
  BY DEF InboxTypeOK
<1>3. Begins => alone' \in BOOLEAN /\ tidy' \in BOOLEAN
  BY <1>1 DEF Begins
<1>4. Disturbs \/ Calm => alone' \in BOOLEAN /\ tidy' \in BOOLEAN
  BY <1>2 DEF Disturbs, Calm
<1> QED
  BY <1>3, <1>4

\* The rows that are counted are finitely many.
LEMMA UnreadCounted ==
  ASSUME InboxTypeOK
  PROVE  /\ IsFiniteSet(stored) /\ IsFiniteSet(Unread) /\ IsFiniteSet(ShownUnread)
         /\ IsFiniteSet(arriving) /\ Cardinality(Unread) \in Nat
         /\ Cardinality(ShownUnread) \in Nat /\ Cardinality(arriving) \in Nat
<1>1. /\ stored \in SUBSET Notifications /\ Unread \in SUBSET Notifications
      /\ ShownUnread \in SUBSET Notifications /\ arriving \in SUBSET Notifications
  BY DEF InboxTypeOK, Unread, ShownUnread
<1> QED
  BY <1>1, InboxAssumption, FS_Subset, FS_CardinalityType

LEMMA InboxTypeNext == InboxTypeOK /\ [InboxNext]_inboxVars => InboxTypeOK'
<1> SUFFICES ASSUME InboxTypeOK, [InboxNext]_inboxVars PROVE InboxTypeOK'
  OBVIOUS
<1> USE DEF Callers
<1>t. /\ call \in [Callers -> CallOver(stored)] /\ arriving \subseteq stored
      /\ read \subseteq stored /\ hidden \subseteq stored /\ lapsed \subseteq stored
      /\ badge \in Nat \cup {NoKey} /\ alone \in BOOLEAN /\ tidy \in BOOLEAN
      /\ {} \in SUBSET stored /\ Unread \in SUBSET stored /\ Cardinality(Unread) \in Nat
  BY UnreadCounted DEF InboxTypeOK, CallOver, Unread
<1>l. Lowered \in Nat \cup {NoKey}
  BY <1>t, InboxAssumption DEF Lowered
<1>f. (Begins \/ Disturbs \/ Calm) => alone' \in BOOLEAN /\ tidy' \in BOOLEAN
  BY FlagsTyped
<1>a. \A d \in Callers : Answer(d) => call' \in [Callers -> CallOver(stored)]
  BY <1>t, ThenTyped DEF Answer, InboxSteps
<1>c. \A d \in Callers, step \in InboxSteps, on \in SUBSET stored, found \in Nat :
        Then(d, step, on, found) => call' \in [Callers -> CallOver(stored)]
  BY ThenTyped
<1>g. \A n \in Notifications : GoOn(n) => call' \in [Callers -> CallOver(stored)]
  BY <1>c, <1>t DEF GoOn, InboxSteps
<1>1. ASSUME NEW n \in Notifications, StoreNotification(n) PROVE InboxTypeOK'
  <2>1. /\ stored' = stored \cup {n} /\ arriving' = arriving \cup {n}
        /\ UNCHANGED <<read, hidden, lapsed, badge, call>>
    BY <1>1 DEF StoreNotification
  <2>2. CallOver(stored) \subseteq CallOver(stored')
    BY <2>1 DEF CallOver
  <2>3. call' \in [Callers -> CallOver(stored')]
    BY <2>1, <2>2, <1>t
  <2>4. alone' \in BOOLEAN /\ tidy' \in BOOLEAN
    BY <1>1, <1>f DEF StoreNotification
  <2> QED BY <2>1, <2>3, <2>4, <1>t DEF InboxTypeOK, CallOver
<1>2. ASSUME NEW n \in Notifications, CountNotification(n) PROVE InboxTypeOK'
  <2>1. /\ arriving' = arriving \ {n} /\ badge' = (IF badge = NoKey THEN 1 ELSE badge + 1)
        /\ Calm /\ UNCHANGED <<stored, read, hidden, lapsed>>
    BY <1>2 DEF CountNotification, records
  <2>2. badge' \in Nat \cup {NoKey}
    BY <2>1, <1>t
  <2>3. call' \in [Callers -> CallOver(stored)]
    BY <1>2, <1>g DEF CountNotification
  <2> QED BY <2>1, <2>2, <2>3, <1>t, <1>f, InboxTyped
<1>3. ASSUME NEW n \in Notifications, CountNotificationLost(n) \/ RowLapses(n) PROVE InboxTypeOK'
  <2>1. /\ Disturbs /\ UNCHANGED <<stored, read, hidden, badge>>
        /\ arriving' \subseteq arriving /\ lapsed' \subseteq stored
    BY <1>3, <1>t DEF CountNotificationLost, RowLapses, records
  <2>2. call' \in [Callers -> CallOver(stored)]
    BY <1>3, <1>g, <1>t DEF CountNotificationLost, RowLapses
  <2> QED BY <2>1, <2>2, <1>t, <1>f, InboxTyped
<1>4. ASSUME NEW d \in Devices, NEW n \in Notifications, NameNotification(d, n) PROVE InboxTypeOK'
  <2>1. /\ n \in stored /\ UNCHANGED <<stored, read, hidden, lapsed, arriving, badge>>
        /\ Disturbs \/ Begins
    BY <1>4 DEF NameNotification, records
  <2>2. call' \in [Callers -> CallOver(stored)]
    <3>1. {n} \in SUBSET stored /\ 0 \in Nat
      BY <2>1
    <3> QED BY <1>4, <1>c, <3>1 DEF NameNotification, InboxSteps
  <2> QED BY <2>1, <2>2, <1>t, <1>f, InboxTyped
<1>5. ASSUME NEW d \in Devices, AskForAll(d) PROVE InboxTypeOK'
  <2>1. UNCHANGED <<stored, read, hidden, lapsed, arriving, badge>> /\ Begins
    BY <1>5 DEF AskForAll, records
  <2>2. call' \in [Callers -> CallOver(stored)]
    BY <1>5, <1>c, <1>t DEF AskForAll, InboxSteps
  <2> QED BY <2>1, <2>2, <1>t, <1>f, InboxTyped
<1>6. ASSUME NEW d \in Devices, NEW n \in Notifications,
             FindToMark(d, n) \/ FindToHide(d, n)
      PROVE  InboxTypeOK'
  <2>1. /\ n \in call[d].on /\ Calm
        /\ UNCHANGED <<stored, read, hidden, lapsed, arriving, badge>>
    BY <1>6 DEF FindToMark, FindToHide, About, records
  <2>2. {n} \in SUBSET stored /\ 0 \in Nat
    BY <2>1, CallParts
  <2>3. call' \in [Callers -> CallOver(stored)]
    <3>1. \/ Answer(d) \/ Then(d, "get", {}, 0) \/ Then(d, "mark", {n}, 0)
          \/ Then(d, "hideRead", {n}, 0) \/ Then(d, "hideUnread", {n}, 0)
      BY <1>6 DEF FindToMark, FindToHide
    <3> QED BY <3>1, <2>2, <1>a, <1>c, <1>t DEF InboxSteps
  <2> QED BY <2>1, <2>3, <1>t, <1>f, InboxTyped
<1>7. ASSUME NEW d \in Devices, NEW n \in Notifications,
             MarkRow(d, n) \/ HideRow(d, n) \/ MarkEach(d, n)
      PROVE  InboxTypeOK'
  <2>1. /\ n \in call[d].on /\ Calm /\ UNCHANGED <<stored, lapsed, arriving, badge>>
        /\ read' \in {read, read \cup {n}} /\ hidden' \in {hidden, hidden \cup {n}}
    BY <1>7 DEF MarkRow, HideRow, MarkEach, About
  <2>2. n \in stored /\ call[d].on \ {n} \in SUBSET stored /\ 0 \in Nat
    BY <2>1, CallParts
  <2>3. call' \in [Callers -> CallOver(stored)]
    <3>1. \/ Then(d, "decr", {}, 0) \/ Then(d, "get", {}, 0)
          \/ Then(d, "markEach", call[d].on \ {n}, 0)
      BY <1>7 DEF MarkRow, HideRow, MarkEach
    <3> QED BY <3>1, <2>2, <1>c, <1>t DEF InboxSteps
  <2> QED BY <2>1, <2>2, <2>3, <1>t, <1>f, InboxTyped
<1>8. ASSUME NEW d \in Callers,
             ScanUnread(d) \/ ReadBadge(d) \/ CountUnread(d) \/ DecrementBadge(d)
      PROVE  InboxTypeOK'
  <2>1. /\ Calm /\ UNCHANGED <<stored, read, hidden, lapsed, arriving>>
        /\ badge' \in {badge, Lowered}
    BY <1>8 DEF ScanUnread, ReadBadge, CountUnread, DecrementBadge, records
  <2>2. call' \in [Callers -> CallOver(stored)]
    <3>1. \/ Then(d, "markEach", Unread, 0) \/ Then(d, "count", {}, 0) \/ Answer(d)
          \/ Then(d, "fill", {}, Cardinality(Unread)) \/ Then(d, "get", {}, 0)
      BY <1>8 DEF ScanUnread, ReadBadge, CountUnread, DecrementBadge
    <3> QED BY <3>1, <1>a, <1>c, <1>t DEF InboxSteps
  <2> QED BY <2>1, <2>2, <1>t, <1>l, <1>f, InboxTyped
<1>9. ASSUME NEW d \in Callers, ZeroBadge(d) \/ FillBadge(d) PROVE InboxTypeOK'
  <2>1. /\ UNCHANGED <<stored, read, hidden, lapsed, arriving, alone>> /\ Answer(d)
        /\ badge' \in {0, call[d].found}
    BY <1>9 DEF ZeroBadge, FillBadge, records
  <2>2. tidy' \in BOOLEAN
    <3>1. (tidy \/ alone) \in BOOLEAN /\ (tidy \/ (alone /\ hidden \subseteq read \cup lapsed)) \in BOOLEAN
      OBVIOUS
    <3> QED BY <1>9, <3>1 DEF ZeroBadge, FillBadge
  <2> QED BY <2>1, <2>2, <1>t, <1>a, CallParts, InboxTyped
<1>10. ASSUME NEW d \in Callers, RedisFails(d) PROVE InboxTypeOK'
  <2>1. /\ Disturbs /\ UNCHANGED <<stored, read, hidden, lapsed, arriving>>
        /\ badge' \in {badge, Lowered, 0, call[d].found}
        /\ Answer(d) \/ Then(d, "get", {}, 0) \/ Then(d, "count", {}, 0)
    BY <1>10 DEF RedisFails, records
  <2>2. call' \in [Callers -> CallOver(stored)]
    BY <2>1, <1>a, <1>c, <1>t DEF InboxSteps
  <2> QED BY <2>1, <2>2, <1>t, <1>l, <1>f, CallParts, InboxTyped
<1>11. ASSUME NEW d \in Callers, CassandraFails(d) PROVE InboxTypeOK'
  <2>1. /\ Disturbs /\ UNCHANGED <<stored, lapsed, arriving, badge>>
        /\ read' \in {read, read \cup call[d].on} /\ hidden' \in {hidden, hidden \cup call[d].on}
        /\ Answer(d) \/ \E n \in call[d].on : Then(d, "markEach", call[d].on \ {n}, 0)
    BY <1>11 DEF CassandraFails, records
  <2>2. call[d].on \in SUBSET stored /\ \A n : call[d].on \ {n} \in SUBSET stored
    BY CallParts
  <2>3. call' \in [Callers -> CallOver(stored)]
    BY <2>1, <2>2, <1>a, <1>c, <1>t DEF InboxSteps
  <2> QED BY <2>1, <2>2, <2>3, <1>t, <1>f, InboxTyped
<1>12. ASSUME NEW d \in Callers, CallCutShort(d) PROVE InboxTypeOK'
  <2>1. /\ Disturbs /\ UNCHANGED <<stored, read, hidden, lapsed, arriving, badge>> /\ Answer(d)
    BY <1>12 DEF CallCutShort, records
  <2> QED BY <2>1, <1>t, <1>a, <1>f, InboxTyped
<1>13. CASE BadgeLost
  <2>1. /\ Disturbs /\ UNCHANGED <<stored, read, hidden, lapsed, arriving, call>> /\ badge' = NoKey
    BY <1>13 DEF BadgeLost, records
  <2> QED BY <2>1, <1>t, <1>f, InboxTyped
<1>14. CASE UNCHANGED inboxVars
  BY <1>14 DEF inboxVars, records, InboxTypeOK
<1> QED
  BY <1>1, <1>2, <1>3, <1>4, <1>5, <1>6, <1>7, <1>8, <1>9, <1>10, <1>11, <1>12,
     <1>13, <1>14 DEF InboxNext, Arrive, Serve, GetUnreadCount, Mishap

LEMMA InboxTypeInit == InboxInit => InboxTypeOK
<1> SUFFICES ASSUME InboxInit PROVE InboxTypeOK
  OBVIOUS
<1>1. [step |-> "idle", on |-> {}, found |-> 0] \in CallOver({})
  BY DEF CallOver, InboxSteps
<1>2. call \in [Callers -> CallOver({})]
  BY <1>1 DEF InboxInit
<1> QED
  BY <1>2 DEF InboxInit, InboxTypeOK, CallOver

\* The rows, the badge and the requests of the inbox are well typed whatever fails;
\* in particular the badge, which the Lua script guards, is never negative.
THEOREM InboxTypeCorrect == InboxSpec => []InboxTypeOK
BY InboxTypeInit, InboxTypeNext, PTL DEF InboxSpec

Busy(d) == ~On(d, "idle")

\* While a request is alone there is no other, no arrival and no handler that reads
\* the badge, so what it has read of the rows is still so.  And a handler that has
\* had nothing but arrivals beside it finds the key its INCR has made.
AloneInv ==
  alone =>
    /\ \A d \in Devices : Busy(d) =>
         /\ arriving = {} /\ \A e \in Callers \ {d} : ~Busy(e)
         /\ On(d, "markEach") => Unread \subseteq call[d].on
         /\ On(d, "fill") => call[d].found = Cardinality(Unread)
    /\ \A n \in Notifications : Busy(n) => On(n, "get") /\ badge # NoKey

\* What a request that disturbs nothing has in hand.
CallInStep(d) ==
  /\ On(d, "findToMark") \/ On(d, "findToHide") => call[d].on \cap hidden = {}
  /\ On(d, "mark") \/ On(d, "hideUnread") => call[d].on \subseteq ShownUnread
  /\ On(d, "hideRead") => call[d].on \subseteq read
  /\ On(d, "count") \/ On(d, "fill") => badge = NoKey

\* Nothing has arrived but what is being counted for the first time.
NothingYet == stored = arriving /\ read = {} /\ hidden = {} /\ lapsed = {}

Owing == \E d \in Devices : On(d, "decr")
MarkingAll == \E d \in Devices : On(d, "markEach")

\* The badge with the arrivals that are still to be counted is what the list shows
\* as unread, and one more while a decrement is owed; a read-all that marks its
\* rows will set it.
BadgeInv ==
  IF badge = NoKey THEN NothingYet
  ELSE MarkingAll \/ badge + Cardinality(arriving)
                       = Cardinality(ShownUnread) + (IF Owing THEN 1 ELSE 0)

TidyInv ==
  tidy => /\ alone /\ \A d \in Devices : Busy(d) => CallInStep(d)
          /\ BadgeInv

InboxInv == InboxTypeOK /\ AloneInv /\ TidyInv

\* A step of the only request under way, seen from that request.
LEMMA OnlyCall ==
  ASSUME InboxTypeOK', NEW d \in Devices, \A e \in Callers \ {d} : ~Busy(e)',
         Busy(d)' => arriving' = {},
         alone' => /\ On(d, "markEach")' => (Unread \subseteq call[d].on)'
                   /\ On(d, "fill")' => (call[d].found = Cardinality(Unread))',
         tidy' => /\ alone' /\ (Busy(d)' => CallInStep(d)')
                  /\ badge' = NoKey => NothingYet'
                  /\ badge' # NoKey /\ ~On(d, "markEach")' =>
                       badge' + Cardinality(arriving') =
                         Cardinality(ShownUnread') + (IF On(d, "decr")' THEN 1 ELSE 0)
  PROVE  InboxInv'
<1>1. \A e \in Devices \ {d} : ~Busy(e)' /\ ~On(e, "decr")' /\ ~On(e, "markEach")'
  BY DEF Busy, On, Callers
<1>2. (Owing' <=> On(d, "decr")') /\ (MarkingAll' <=> On(d, "markEach")')
  BY <1>1 DEF Owing, MarkingAll
<1>3. AloneInv'
  <2>1. \A n \in Notifications : ~Busy(n)'
    BY InboxAssumption DEF Callers
  <2> QED BY <1>1, <2>1 DEF AloneInv
<1>4. tidy' => BadgeInv'
  BY <1>2 DEF BadgeInv
<1>5. TidyInv'
  BY <1>1, <1>4 DEF TidyInv
<1> QED
  BY <1>3, <1>5 DEF InboxInv

LEMMA Disturbed ==
  ASSUME InboxTypeOK', Disturbs
  PROVE  InboxInv'
BY DEF Disturbs, InboxInv, AloneInv, TidyInv

\* Once something has run beside the request, nothing more is said.
LEMMA NotAlone ==
  ASSUME InboxInv, InboxTypeOK', ~alone, Calm
  PROVE  InboxInv'
<1>1. ~tidy
  BY DEF InboxInv, TidyInv
<1> QED
  BY <1>1 DEF Calm, InboxInv, AloneInv, TidyInv

\* What is known when the only request goes on.
LEMMA AloneKnows ==
  ASSUME InboxInv, NEW d \in Devices, Busy(d), alone
  PROVE  /\ arriving = {} /\ \A e \in Callers \ {d} : ~Busy(e)
         /\ On(d, "markEach") => Unread \subseteq call[d].on
         /\ On(d, "fill") => call[d].found = Cardinality(Unread)
         /\ tidy => /\ CallInStep(d)
                    /\ badge = NoKey => NothingYet
                    /\ badge # NoKey /\ ~On(d, "markEach") =>
                         badge = Cardinality(ShownUnread) + (IF On(d, "decr") THEN 1 ELSE 0)
<1>1. /\ arriving = {} /\ \A e \in Callers \ {d} : ~Busy(e)
      /\ On(d, "markEach") => Unread \subseteq call[d].on
      /\ On(d, "fill") => call[d].found = Cardinality(Unread)
  BY DEF InboxInv, AloneInv
<1>2. ASSUME tidy
      PROVE  /\ CallInStep(d)
             /\ badge = NoKey => NothingYet
             /\ badge # NoKey /\ ~On(d, "markEach") =>
                  badge = Cardinality(ShownUnread) + (IF On(d, "decr") THEN 1 ELSE 0)
  <2>1. \A e \in Devices \ {d} : ~On(e, "decr") /\ ~On(e, "markEach")
    BY <1>1 DEF Busy, On, Callers
  <2>2. (Owing <=> On(d, "decr")) /\ (MarkingAll <=> On(d, "markEach"))
    BY <2>1 DEF Owing, MarkingAll
  <2>3. CallInStep(d) /\ BadgeInv
    BY <1>2 DEF InboxInv, TidyInv
  <2>4. Cardinality(arriving) = 0
    BY <1>1, FS_EmptySet
  <2>5. ASSUME badge # NoKey, ~On(d, "markEach")
        PROVE  badge = Cardinality(ShownUnread) + (IF On(d, "decr") THEN 1 ELSE 0)
    <3>1. badge + 0 = Cardinality(ShownUnread) + (IF On(d, "decr") THEN 1 ELSE 0)
      BY <2>2, <2>3, <2>4, <2>5 DEF BadgeInv
    <3>2. badge \in Nat
      BY <2>5 DEF InboxInv, InboxTypeOK
    <3> QED BY <3>1, <3>2
  <2> QED BY <2>2, <2>3, <2>5 DEF BadgeInv
<1> QED
  BY <1>1, <1>2

\* The request under way goes on undisturbed.
LEMMA GoesOn ==
  ASSUME InboxInv, InboxTypeOK', NEW d \in Devices, Busy(d), Calm, UNCHANGED arriving,
         \A e \in Callers \ {d} : call'[e] = call[e],
         alone => /\ On(d, "markEach")' => (Unread \subseteq call[d].on)'
                  /\ On(d, "fill")' => (call[d].found = Cardinality(Unread))',
         alone /\ tidy => /\ CallInStep(d)'
                          /\ badge' = NoKey => NothingYet'
                          /\ badge' # NoKey /\ ~On(d, "markEach")' =>
                               badge' = Cardinality(ShownUnread') + (IF On(d, "decr")' THEN 1 ELSE 0)
  PROVE  InboxInv'
<1>1. CASE ~alone
  BY <1>1, NotAlone
<1>2. CASE alone
  <2>1. arriving' = {} /\ Cardinality(arriving') = 0
    BY <1>2, AloneKnows, FS_EmptySet
  <2>2. \A e \in Callers \ {d} : ~Busy(e)'
    BY <1>2, AloneKnows DEF Busy, On
  <2>3. tidy' = tidy /\ alone' = alone
    BY DEF Calm
  <2>4. ASSUME tidy, badge' # NoKey, ~On(d, "markEach")'
        PROVE  badge' + Cardinality(arriving') =
                 Cardinality(ShownUnread') + (IF On(d, "decr")' THEN 1 ELSE 0)
    <3>1. badge' = Cardinality(ShownUnread') + (IF On(d, "decr")' THEN 1 ELSE 0)
      BY <1>2, <2>4
    <3>2. badge' \in Nat
      BY <2>4 DEF InboxTypeOK
    <3>3. badge' + Cardinality(arriving') = badge'
      BY <3>2, <2>1
    <3> QED BY <3>1, <3>3
  <2> QED BY <1>2, <2>1, <2>2, <2>3, <2>4, OnlyCall
<1> QED
  BY <1>1, <1>2

\* One row that the list shows as unread is read or hidden.
LEMMA ShownLoses ==
  ASSUME InboxTypeOK, NEW n \in ShownUnread, ShownUnread' = ShownUnread \ {n}
  PROVE  Cardinality(ShownUnread) = Cardinality(ShownUnread') + 1
<1>1. IsFiniteSet(ShownUnread) /\ Cardinality(ShownUnread) \in Nat
  BY UnreadCounted
<1>2. Cardinality(ShownUnread \ {n}) = Cardinality(ShownUnread) - 1
  BY <1>1, FS_RemoveElement
<1> QED
  BY <1>1, <1>2

\* With nothing under way the badge is right, or there is none and nothing to show.
LEMMA RestingKnows ==
  ASSUME InboxInv, Resting, tidy
  PROVE  /\ badge = NoKey => NothingYet
         /\ badge # NoKey => badge = Cardinality(ShownUnread)
<1>1. BadgeInv /\ ~MarkingAll /\ ~Owing
  BY DEF InboxInv, TidyInv, Resting, MarkingAll, Owing, On, Callers
<1>2. Cardinality(arriving) = 0
  BY FS_EmptySet DEF Resting
<1>3. ASSUME badge # NoKey PROVE badge = Cardinality(ShownUnread)
  <2>1. badge + 0 = Cardinality(ShownUnread) + 0
    BY <1>1, <1>2, <1>3 DEF BadgeInv
  <2>2. badge \in Nat /\ Cardinality(ShownUnread) \in Nat
    BY <1>3, UnreadCounted DEF InboxInv, InboxTypeOK
  <2> QED BY <2>1, <2>2
<1> QED
  BY <1>1, <1>3 DEF BadgeInv

\* A request begins, at a step that has read nothing yet.
LEMMA StartsOut ==
  ASSUME InboxInv, InboxTypeOK', NEW d \in Devices, Begins, UNCHANGED <<records, arriving, badge>>,
         \A e \in Callers \ {d} : call'[e] = call[e],
         ~On(d, "markEach")' /\ ~On(d, "fill")' /\ ~On(d, "decr")',
         CallInStep(d)'
  PROVE  InboxInv'
<1>1. CASE ~Resting
  BY <1>1 DEF Begins, InboxInv, AloneInv, TidyInv
<1>2. CASE Resting
  <2>1. /\ \A e \in Callers \ {d} : ~Busy(e)'
        /\ arriving' = {} /\ tidy' = tidy /\ alone'
    BY <1>2 DEF Resting, Busy, On, Begins, InboxInv, InboxTypeOK
  <2>2. UNCHANGED <<ShownUnread, stored, read, hidden, lapsed>>
    BY DEF records, ShownUnread, Unread
  <2>3. ASSUME tidy, badge = NoKey PROVE NothingYet'
    BY <1>2, <2>1, <2>2, <2>3, RestingKnows DEF NothingYet, Resting
  <2>4. ASSUME tidy, badge' # NoKey
        PROVE  badge' + Cardinality(arriving') = Cardinality(ShownUnread') + 0
    <3>1. badge' = Cardinality(ShownUnread') /\ Cardinality(arriving') = 0
      BY <1>2, <2>1, <2>2, <2>4, RestingKnows, FS_EmptySet
    <3> QED BY <3>1
  <2> QED BY <2>1, <2>2, <2>3, <2>4, OnlyCall
<1> QED
  BY <1>1, <1>2

LEMMA InboxInvNext == InboxInv /\ [InboxNext]_inboxVars => InboxInv'
<1> SUFFICES ASSUME InboxInv, [InboxNext]_inboxVars PROVE InboxInv'
  OBVIOUS
<1> USE DEF Callers
<1>t. InboxTypeOK /\ InboxTypeOK'
  BY InboxTypeNext DEF InboxInv
<1>d. Disturbs => InboxInv'
  BY <1>t, Disturbed
<1>z. {} \in SUBSET stored /\ 0 \in Nat /\ Unread \in SUBSET stored /\ Cardinality(Unread) \in Nat
  BY <1>t, UnreadCounted DEF Unread
\* What a request has from AloneKnows, and where it goes.
<1>k. ASSUME NEW d \in Devices, Busy(d), alone, tidy
      PROVE  /\ CallInStep(d)
             /\ badge = NoKey => NothingYet
             /\ badge # NoKey /\ ~On(d, "markEach") =>
                  badge = Cardinality(ShownUnread) + (IF On(d, "decr") THEN 1 ELSE 0)
  BY <1>k, AloneKnows
<1>c. ASSUME NEW d \in Callers, NEW step \in InboxSteps, NEW on \in SUBSET stored, NEW found \in Nat,
             Then(d, step, on, found)
      PROVE  /\ call'[d].step = step /\ call'[d].on = on /\ call'[d].found = found
             /\ \A e \in Callers \ {d} : call'[e] = call[e]
  BY <1>c, <1>t, ThenTyped
<1>a. ASSUME NEW d \in Callers, Answer(d)
      PROVE  /\ call'[d].step = "idle" /\ \A e \in Callers \ {d} : call'[e] = call[e]
  BY <1>a, <1>c, <1>z DEF Answer, InboxSteps
<1>r. ASSUME UNCHANGED <<stored, read, hidden, lapsed>>
      PROVE  UNCHANGED <<Unread, ShownUnread>>
  BY <1>r DEF Unread, ShownUnread
\* Arrivals.
<1>1. ASSUME NEW n \in Notifications, StoreNotification(n) PROVE InboxInv'
  <2>1. CASE NoRequests
    <3>1. /\ Calm /\ n \notin stored /\ stored' = stored \cup {n} /\ arriving' = arriving \cup {n}
          /\ UNCHANGED <<read, hidden, lapsed, badge, call>>
      BY <1>1, <2>1 DEF StoreNotification
    <3>2. \A d \in Devices : ~Busy(d) /\ ~Busy(d)'
      BY <2>1, <3>1 DEF NoRequests, Busy, On
    <3>3. ASSUME tidy PROVE BadgeInv'
      <4>1. BadgeInv
        BY <3>3 DEF InboxInv, TidyInv
      <4>2. CASE badge = NoKey
        BY <3>1, <4>1, <4>2 DEF BadgeInv, NothingYet
      <4>3. CASE badge # NoKey
        <5>1. ~MarkingAll /\ ~Owing /\ ~MarkingAll' /\ ~Owing'
          BY <3>2 DEF MarkingAll, Owing, Busy, On
        <5>2. badge + Cardinality(arriving) = Cardinality(ShownUnread) + 0
          BY <4>1, <4>3, <5>1 DEF BadgeInv
        <5>3. ShownUnread' = ShownUnread \cup {n} /\ n \notin ShownUnread /\ n \notin arriving
          BY <3>1, <1>t DEF ShownUnread, Unread, InboxTypeOK
        <5>4. /\ Cardinality(ShownUnread') = Cardinality(ShownUnread) + 1
              /\ Cardinality(arriving') = Cardinality(arriving) + 1
              /\ Cardinality(ShownUnread) \in Nat /\ Cardinality(arriving) \in Nat
          BY <3>1, <5>3, <1>t, UnreadCounted, FS_AddElement
        <5>5. badge \in Nat /\ badge' = badge
          BY <3>1, <4>3, <1>t DEF InboxTypeOK
        <5>6. badge' + Cardinality(arriving') = Cardinality(ShownUnread') + 0
          BY <5>2, <5>4, <5>5
        <5> QED BY <5>1, <5>6, <4>3, <5>5 DEF BadgeInv
      <4> QED BY <4>2, <4>3
    <3>4. AloneInv'
      BY <3>1, <3>2 DEF Calm, InboxInv, AloneInv, Busy, On
    <3>5. TidyInv'
      BY <3>1, <3>2, <3>3 DEF Calm, InboxInv, TidyInv
    <3> QED BY <3>4, <3>5, <1>t DEF InboxInv
  <2>2. CASE ~NoRequests
    BY <1>1, <2>2, <1>d DEF StoreNotification
  <2> QED BY <2>1, <2>2
<1>2. ASSUME NEW n \in Notifications, CountNotification(n) PROVE InboxInv'
  <2>1. /\ n \in arriving /\ arriving' = arriving \ {n} /\ Calm
        /\ badge' = (IF badge = NoKey THEN 1 ELSE badge + 1)
        /\ GoOn(n) /\ UNCHANGED <<stored, read, hidden, lapsed>>
    BY <1>2 DEF CountNotification, records
  <2>g. /\ \A e \in Callers \ {n} : call'[e] = call[e]
        /\ call'[n] = call[n] \/ call'[n].step = "get"
    BY <2>1, <1>c, <1>z DEF GoOn, InboxSteps
  <2>2. CASE alone
    <3>1. \A d \in Devices : ~Busy(d) /\ ~Busy(d)'
      BY <2>1, <2>2, <2>g, InboxAssumption DEF InboxInv, AloneInv, Busy, On
    <3>h. \A m \in Notifications : Busy(m)' => On(m, "get")' /\ badge' # NoKey
      <4>1. badge' # NoKey
        BY <2>1, <1>t, InboxAssumption DEF InboxTypeOK
      <4>2. \A m \in Notifications : Busy(m) => On(m, "get")
        BY <2>2 DEF InboxInv, AloneInv
      <4> QED BY <4>1, <4>2, <2>g DEF Busy, On
    <3>2. ASSUME tidy PROVE BadgeInv'
      <4>1. BadgeInv
        BY <3>2 DEF InboxInv, TidyInv
      <4>2. ~MarkingAll /\ ~Owing /\ ~MarkingAll' /\ ~Owing'
        BY <3>1 DEF MarkingAll, Owing, Busy, On
      <4>3. /\ Cardinality(arriving') = Cardinality(arriving) - 1
            /\ Cardinality(ShownUnread) \in Nat /\ Cardinality(arriving) \in Nat
        BY <2>1, <1>t, UnreadCounted, FS_RemoveElement
      <4>4. ShownUnread' = ShownUnread
        BY <2>1, <1>r
      <4>5. badge' # NoKey /\ badge' \in Nat
        BY <2>1, <1>t, InboxAssumption DEF InboxTypeOK
      <4>6. CASE badge = NoKey
        <5>1. ShownUnread = arriving
          BY <4>1, <4>6, <1>t DEF BadgeInv, NothingYet, ShownUnread, Unread
        <5>2. badge' + Cardinality(arriving') = Cardinality(ShownUnread') + 0
          BY <5>1, <4>3, <4>4, <4>6, <2>1
        <5> QED BY <5>2, <4>2, <4>5 DEF BadgeInv
      <4>7. CASE badge # NoKey
        <5>1. badge + Cardinality(arriving) = Cardinality(ShownUnread) + 0
          BY <4>1, <4>2, <4>7 DEF BadgeInv
        <5>2. badge \in Nat
          BY <4>7, <1>t DEF InboxTypeOK
        <5>3. badge' + Cardinality(arriving') = Cardinality(ShownUnread') + 0
          BY <5>1, <5>2, <4>3, <4>4, <4>7, <2>1
        <5> QED BY <5>3, <4>2, <4>5 DEF BadgeInv
      <4> QED BY <4>6, <4>7
    <3> QED BY <2>1, <3>1, <3>2, <3>h, <1>t DEF Calm, InboxInv, AloneInv, TidyInv
  <2>3. CASE ~alone
    BY <2>1, <2>3, <1>t, NotAlone
  <2> QED BY <2>2, <2>3
<1>3. ASSUME NEW n \in Notifications, CountNotificationLost(n) \/ RowLapses(n) PROVE InboxInv'
  BY <1>3, <1>d DEF CountNotificationLost, RowLapses
\* A request begins.
<1>4. ASSUME NEW d \in Devices, NEW n \in Notifications, NameNotification(d, n) PROVE InboxInv'
  <2>1. CASE n \in hidden
    BY <1>4, <2>1, <1>d DEF NameNotification
  <2>2. CASE n \notin hidden
    <3>1. /\ n \in stored /\ Begins /\ UNCHANGED <<records, arriving, badge>>
      BY <1>4, <2>2 DEF NameNotification
    <3>2. /\ call'[d].step \in {"findToMark", "findToHide"} /\ call'[d].on = {n}
          /\ \A e \in Callers \ {d} : call'[e] = call[e]
      <4>1. {n} \in SUBSET stored
        BY <3>1
      <4>2. PICK step \in {"findToMark", "findToHide"} : Then(d, step, {n}, 0)
        BY <1>4 DEF NameNotification
      <4>3. step \in InboxSteps
        BY DEF InboxSteps
      <4> QED BY <4>1, <4>2, <4>3, <1>c, <1>z
    <3>3. CallInStep(d)'
      BY <2>2, <3>1, <3>2 DEF CallInStep, On, records
    <3>4. ~On(d, "markEach")' /\ ~On(d, "fill")' /\ ~On(d, "decr")'
      BY <3>2 DEF On
    <3> QED BY <3>1, <3>2, <3>3, <3>4, <1>t, StartsOut
  <2> QED BY <2>1, <2>2
<1>5. ASSUME NEW d \in Devices, AskForAll(d) PROVE InboxInv'
  <2>1. Begins /\ UNCHANGED <<records, arriving, badge>>
    BY <1>5 DEF AskForAll
  <2>2. /\ call'[d].step \in {"scan", "get"} /\ \A e \in Callers \ {d} : call'[e] = call[e]
    <3>1. PICK step \in {"scan", "get"} : Then(d, step, {}, 0)
      BY <1>5 DEF AskForAll
    <3>2. step \in InboxSteps
      BY DEF InboxSteps
    <3> QED BY <3>1, <3>2, <1>c, <1>z
  <2>3. CallInStep(d)' /\ ~On(d, "markEach")' /\ ~On(d, "fill")' /\ ~On(d, "decr")'
    BY <2>2 DEF CallInStep, On
  <2> QED BY <2>1, <2>2, <2>3, <1>t, StartsOut
\* MarkAsRead and DeleteNotification.
<1>6. ASSUME NEW d \in Devices, NEW n \in Notifications,
             FindToMark(d, n) \/ FindToHide(d, n)
      PROVE  InboxInv'
  <2>1. /\ On(d, "findToMark") \/ On(d, "findToHide")
        /\ n \in call[d].on /\ Calm
        /\ UNCHANGED <<stored, read, hidden, lapsed, arriving, badge>>
    BY <1>6 DEF FindToMark, FindToHide, About, records
  <2>2. Busy(d) /\ ~On(d, "markEach") /\ ~On(d, "decr")
    BY <2>1 DEF Busy, On
  <2>3. n \in stored /\ {n} \in SUBSET stored
    BY <2>1, <1>t, CallParts
  <2>4. /\ \A e \in Callers \ {d} : call'[e] = call[e]
        /\ \/ call'[d].step \in {"idle", "get"}
           \/ /\ call'[d].step \in {"mark", "hideUnread"} /\ call'[d].on = {n}
              /\ n \in Findable /\ n \notin read
           \/ call'[d].step = "hideRead" /\ call'[d].on = {n} /\ n \in read
    <3>1. \/ Answer(d) \/ Then(d, "get", {}, 0)
          \/ Then(d, "mark", {n}, 0) /\ n \in Findable /\ n \notin read
          \/ Then(d, "hideUnread", {n}, 0) /\ n \in Findable /\ n \notin read
          \/ Then(d, "hideRead", {n}, 0) /\ n \in read
      BY <1>6 DEF FindToMark, FindToHide
    <3>2. /\ {"get", "mark", "hideUnread", "hideRead"} \subseteq InboxSteps
          /\ d \in Callers
      BY DEF InboxSteps
    <3>3. CASE Answer(d)
      BY <3>3, <3>2, <1>a
    <3>4. CASE Then(d, "get", {}, 0)
      BY <3>4, <3>2, <1>c, <1>z
    <3>5. CASE Then(d, "mark", {n}, 0) /\ n \in Findable /\ n \notin read
      BY <3>5, <3>2, <2>3, <1>c, <1>z
    <3>6. CASE Then(d, "hideUnread", {n}, 0) /\ n \in Findable /\ n \notin read
      BY <3>6, <3>2, <2>3, <1>c, <1>z
    <3>7. CASE Then(d, "hideRead", {n}, 0) /\ n \in read
      BY <3>7, <3>2, <2>3, <1>c, <1>z
    <3> QED BY <3>1, <3>3, <3>4, <3>5, <3>6, <3>7
  <2>5. ~On(d, "markEach")' /\ ~On(d, "fill")' /\ ~On(d, "decr")'
    BY <2>4 DEF On
  <2>6. UNCHANGED <<Unread, ShownUnread>>
    BY <2>1, <1>r
  <2>7. ASSUME alone, tidy
        PROVE  /\ CallInStep(d)'
               /\ badge' = NoKey => NothingYet'
               /\ badge' # NoKey => badge' = Cardinality(ShownUnread') + 0
    <3>1. n \notin hidden
      BY <1>k, <2>7, <2>1, <2>2 DEF CallInStep
    <3>2. n \in Findable /\ n \notin read => n \in ShownUnread
      BY <3>1 DEF Findable, ShownUnread, Unread
    <3>3. CallInStep(d)'
      BY <2>4, <2>6, <2>1, <3>2 DEF CallInStep, On
    <3>4. badge' = NoKey => NothingYet'
      BY <1>k, <2>7, <2>1, <2>2 DEF NothingYet
    <3>5. badge' # NoKey => badge' = Cardinality(ShownUnread') + 0
      BY <1>k, <2>7, <2>1, <2>2, <2>6
    <3> QED BY <3>3, <3>4, <3>5
  <2> QED BY <2>1, <2>2, <2>4, <2>5, <2>7, <1>t, GoesOn
<1>7. ASSUME NEW d \in Devices, NEW n \in Notifications, MarkRow(d, n) PROVE InboxInv'
  <2>1. /\ On(d, "mark") /\ n \in call[d].on /\ Calm /\ Then(d, "decr", {}, 0)
        /\ read' = read \cup {n} /\ UNCHANGED <<stored, hidden, lapsed, arriving, badge>>
    BY <1>7 DEF MarkRow, About
  <2>2. Busy(d) /\ ~On(d, "markEach") /\ ~On(d, "decr")
    BY <2>1 DEF Busy, On
  <2>3. call'[d].step = "decr" /\ \A e \in Callers \ {d} : call'[e] = call[e]
    BY <2>1, <1>c, <1>z DEF InboxSteps
  <2>4. ~On(d, "markEach")' /\ ~On(d, "fill")' /\ On(d, "decr")' /\ CallInStep(d)'
    BY <2>3 DEF On, CallInStep
  <2>5. ASSUME alone, tidy
        PROVE  /\ badge # NoKey /\ badge' # NoKey
               /\ badge' = Cardinality(ShownUnread') + 1
    <3>1. n \in ShownUnread /\ n \in stored
      BY <1>k, <2>5, <2>1, <2>2 DEF CallInStep, ShownUnread, Unread
    <3>2. arriving = {}
      BY <2>5, <2>2, AloneKnows
    <3>3. badge # NoKey
      BY <3>1, <3>2, <1>k, <2>5, <2>2 DEF NothingYet
    <3>4. badge = Cardinality(ShownUnread) + 0
      BY <3>3, <1>k, <2>5, <2>2
    <3>5. ShownUnread' = ShownUnread \ {n}
      BY <2>1 DEF ShownUnread, Unread
    <3>6. Cardinality(ShownUnread) = Cardinality(ShownUnread') + 1 /\ Cardinality(ShownUnread) \in Nat
      BY <3>1, <3>5, <1>t, ShownLoses, UnreadCounted
    <3> QED BY <2>1, <3>3, <3>4, <3>6
  <2> QED BY <2>1, <2>2, <2>3, <2>4, <2>5, <1>t, GoesOn
<1>8. ASSUME NEW d \in Devices, NEW n \in Notifications, HideRow(d, n) PROVE InboxInv'
  <2>1. /\ n \in call[d].on /\ Calm
        /\ hidden' = hidden \cup {n} /\ UNCHANGED <<stored, read, lapsed, arriving, badge>>
    BY <1>8 DEF HideRow, About
  <2>2. CASE On(d, "hideUnread") /\ Then(d, "decr", {}, 0)
    <3>2. Busy(d) /\ ~On(d, "markEach") /\ ~On(d, "decr")
      BY <2>2 DEF Busy, On
    <3>3. call'[d].step = "decr" /\ \A e \in Callers \ {d} : call'[e] = call[e]
      BY <2>2, <1>c, <1>z DEF InboxSteps
    <3>4. ~On(d, "markEach")' /\ ~On(d, "fill")' /\ On(d, "decr")' /\ CallInStep(d)'
      BY <3>3 DEF On, CallInStep
    <3>5. ASSUME alone, tidy
          PROVE  /\ badge # NoKey /\ badge' # NoKey
                 /\ badge' = Cardinality(ShownUnread') + 1
      <4>1. n \in ShownUnread /\ n \in stored
        BY <1>k, <3>5, <2>1, <2>2, <3>2 DEF CallInStep, ShownUnread, Unread
      <4>2. arriving = {}
        BY <3>5, <3>2, AloneKnows
      <4>3. badge # NoKey
        BY <4>1, <4>2, <1>k, <3>5, <3>2 DEF NothingYet
      <4>4. badge = Cardinality(ShownUnread) + 0
        BY <4>3, <1>k, <3>5, <3>2
      <4>5. ShownUnread' = ShownUnread \ {n}
        BY <2>1 DEF ShownUnread, Unread
      <4>6. Cardinality(ShownUnread) = Cardinality(ShownUnread') + 1 /\ Cardinality(ShownUnread) \in Nat
        BY <4>1, <4>5, <1>t, ShownLoses, UnreadCounted
      <4> QED BY <2>1, <4>3, <4>4, <4>6
    <3> QED BY <2>1, <3>2, <3>3, <3>4, <3>5, <1>t, GoesOn
  <2>3. CASE On(d, "hideRead") /\ Then(d, "get", {}, 0)
    <3>2. Busy(d) /\ ~On(d, "markEach") /\ ~On(d, "decr")
      BY <2>3 DEF Busy, On
    <3>3. call'[d].step = "get" /\ \A e \in Callers \ {d} : call'[e] = call[e]
      BY <2>3, <1>c, <1>z DEF InboxSteps
    <3>4. ~On(d, "markEach")' /\ ~On(d, "fill")' /\ ~On(d, "decr")' /\ CallInStep(d)'
      BY <3>3 DEF On, CallInStep
    <3>5. ASSUME alone, tidy
          PROVE  /\ badge # NoKey /\ badge' # NoKey
                 /\ badge' = Cardinality(ShownUnread') + 0
      <4>1. n \in read
        BY <1>k, <3>5, <2>1, <2>3, <3>2 DEF CallInStep
      <4>2. badge # NoKey
        BY <4>1, <1>k, <3>5, <3>2 DEF NothingYet
      <4>3. ShownUnread' = ShownUnread
        BY <2>1, <4>1 DEF ShownUnread, Unread
      <4> QED BY <2>1, <4>2, <4>3, <1>k, <3>5, <3>2
    <3> QED BY <2>1, <3>2, <3>3, <3>4, <3>5, <1>t, GoesOn
  <2> QED BY <1>8, <2>2, <2>3 DEF HideRow
<1>9. ASSUME NEW d \in Devices, DecrementBadge(d) PROVE InboxInv'
  <2>1. /\ On(d, "decr") /\ Calm /\ Then(d, "get", {}, 0) /\ badge' = Lowered
        /\ UNCHANGED <<stored, read, hidden, lapsed, arriving>>
    BY <1>9 DEF DecrementBadge, records
  <2>2. Busy(d) /\ ~On(d, "markEach")
    BY <2>1 DEF Busy, On
  <2>3. call'[d].step = "get" /\ \A e \in Callers \ {d} : call'[e] = call[e]
    BY <2>1, <1>c, <1>z DEF InboxSteps
  <2>4. ~On(d, "markEach")' /\ ~On(d, "fill")' /\ ~On(d, "decr")' /\ CallInStep(d)'
    BY <2>3 DEF On, CallInStep
  <2>5. ASSUME alone, tidy
        PROVE  /\ badge' = NoKey => NothingYet'
               /\ badge' # NoKey => badge' = Cardinality(ShownUnread') + 0
    <3>1. badge' = NoKey => badge = NoKey
      BY <2>1, <1>t, InboxAssumption DEF Lowered, InboxTypeOK
    <3>2. badge = NoKey => badge' = NoKey
      BY <2>1 DEF Lowered
    <3>3. badge' = NoKey => NothingYet'
      BY <3>1, <2>1, <1>k, <2>5, <2>2 DEF NothingYet
    <3>4. ASSUME badge # NoKey PROVE badge' = Cardinality(ShownUnread') + 0
      <4>1. badge = Cardinality(ShownUnread) + 1
        BY <3>4, <1>k, <2>5, <2>2, <2>1
      <4>2. Cardinality(ShownUnread) \in Nat /\ badge \in Nat /\ ShownUnread' = ShownUnread
        BY <3>4, <2>1, <1>t, <1>r, UnreadCounted DEF InboxTypeOK
      <4>3. badge' = badge - 1
        BY <2>1, <3>4, <4>1, <4>2 DEF Lowered
      <4> QED BY <4>1, <4>2, <4>3
    <3> QED BY <3>2, <3>3, <3>4
  <2> QED BY <2>1, <2>2, <2>3, <2>4, <2>5, <1>t, GoesOn
\* MarkAllAsRead.
<1>10. ASSUME NEW d \in Devices, ScanUnread(d) PROVE InboxInv'
  <2>1. /\ On(d, "scan") /\ Calm /\ Then(d, "markEach", Unread, 0)
        /\ UNCHANGED <<stored, read, hidden, lapsed, arriving, badge>>
    BY <1>10 DEF ScanUnread, records
  <2>2. Busy(d) /\ UNCHANGED Unread
    BY <2>1, <1>r DEF Busy, On
  <2>3. /\ call'[d].step = "markEach" /\ call'[d].on = Unread
        /\ \A e \in Callers \ {d} : call'[e] = call[e]
    BY <2>1, <1>c, <1>z DEF InboxSteps
  <2>4. On(d, "markEach")' /\ ~On(d, "fill")' /\ (Unread \subseteq call[d].on)' /\ CallInStep(d)'
    BY <2>2, <2>3 DEF On, CallInStep
  <2>5. alone /\ tidy => (badge' = NoKey => NothingYet')
    BY <2>1, <1>k, <2>2 DEF NothingYet
  <2> QED BY <2>1, <2>2, <2>3, <2>4, <2>5, <1>t, GoesOn
<1>11. ASSUME NEW d \in Devices, NEW n \in Notifications, MarkEach(d, n) PROVE InboxInv'
  <2>1. /\ On(d, "markEach") /\ n \in call[d].on /\ Calm
        /\ Then(d, "markEach", call[d].on \ {n}, 0)
        /\ read' = read \cup {n} /\ UNCHANGED <<stored, hidden, lapsed, arriving, badge>>
    BY <1>11 DEF MarkEach, About
  <2>2. Busy(d) /\ call[d].on \ {n} \in SUBSET stored /\ n \in stored
    BY <2>1, <1>t, CallParts DEF Busy, On
  <2>3. /\ call'[d].step = "markEach" /\ call'[d].on = call[d].on \ {n}
        /\ \A e \in Callers \ {d} : call'[e] = call[e]
    BY <2>1, <2>2, <1>c, <1>z DEF InboxSteps
  <2>4. On(d, "markEach")' /\ ~On(d, "fill")' /\ CallInStep(d)'
    BY <2>3 DEF On, CallInStep
  <2>5. alone => (Unread \subseteq call[d].on)'
    <3>1. alone => Unread \subseteq call[d].on
      BY <2>1, <2>2, AloneKnows
    <3> QED BY <2>1, <2>3, <3>1 DEF Unread
  <2>6. ASSUME alone, tidy PROVE badge' # NoKey
    <3>1. arriving = {}
      BY <2>6, <2>2, AloneKnows
    <3> QED BY <2>1, <2>2, <3>1, <1>k, <2>6 DEF NothingYet
  <2> QED BY <2>1, <2>2, <2>3, <2>4, <2>5, <2>6, <1>t, GoesOn
\* A request answers after it has set the badge.
<1>12. ASSUME NEW d \in Devices, ZeroBadge(d) \/ FillBadge(d) PROVE InboxInv'
  <2>1. /\ Answer(d) /\ UNCHANGED <<stored, read, hidden, lapsed, arriving, alone>>
        /\ \/ /\ On(d, "markEach") /\ call[d].on = {}
              /\ badge' = 0 /\ tidy' = (tidy \/ alone)
           \/ /\ On(d, "fill") /\ badge' = call[d].found
              /\ tidy' = (tidy \/ (alone /\ hidden \subseteq read \cup lapsed))
    BY <1>12 DEF ZeroBadge, FillBadge, records
  <2>2. CASE ~alone
    <3>1. ~tidy
      BY <2>2 DEF InboxInv, TidyInv
    <3>2. ~tidy' /\ ~alone'
      BY <2>1, <2>2, <3>1
    <3> QED BY <3>2, <1>t DEF InboxInv, AloneInv, TidyInv
  <2>3. CASE alone
    <3>1. Busy(d) /\ arriving = {} /\ arriving' = {}
      BY <2>1, <2>3, AloneKnows DEF Busy, On
    <3>2. call'[d].step = "idle" /\ \A e \in Callers \ {d} : call'[e] = call[e]
      BY <2>1, <1>a
    <3>3. \A e \in Callers : ~Busy(e)'
      BY <2>3, <3>1, <3>2, AloneKnows DEF Busy, On
    <3>4. UNCHANGED <<Unread, ShownUnread>>
      BY <2>1, <1>r
    <3>5. tidy' => badge' = Cardinality(ShownUnread)
      <4>1. CASE On(d, "markEach") /\ call[d].on = {} /\ badge' = 0
        <5>1. ShownUnread = {}
          BY <4>1, <3>1, <2>3, AloneKnows DEF ShownUnread
        <5> QED BY <4>1, <5>1, FS_EmptySet
      <4>2. CASE On(d, "fill") /\ badge' = call[d].found
        <5>1. badge' = Cardinality(Unread)
          BY <4>2, <3>1, <2>3, AloneKnows
        <5>2. tidy => Unread = ShownUnread
          <6>1. tidy => badge = NoKey /\ stored = {}
            BY <4>2, <3>1, <2>3, <1>k DEF CallInStep, NothingYet
          <6> QED BY <6>1 DEF Unread, ShownUnread
        <5>3. hidden \subseteq read \cup lapsed => Unread = ShownUnread
          BY DEF Unread, ShownUnread
        <5>4. tidy' => tidy \/ hidden \subseteq read \cup lapsed
          BY <4>2, <2>1 DEF On
        <5> QED BY <5>1, <5>2, <5>3, <5>4
      <4> QED BY <2>1, <4>1, <4>2
    <3>6. /\ badge' \in Nat /\ badge' # NoKey /\ Cardinality(arriving') = 0
          /\ ShownUnread' = ShownUnread
      BY <2>1, <3>1, <3>4, <1>t, CallParts, InboxAssumption, FS_EmptySet
    <3>7. /\ ~On(d, "markEach")' /\ ~On(d, "fill")' /\ ~On(d, "decr")' /\ alone'
      BY <2>1, <2>3, <3>2 DEF On
    <3>8. tidy' => badge' + Cardinality(arriving') = Cardinality(ShownUnread') + 0
      BY <3>5, <3>6
    <3> QED BY <3>1, <3>3, <3>6, <3>7, <3>8, <1>t, OnlyCall
  <2> QED BY <2>2, <2>3
\* GetUnreadCount.
<1>13. ASSUME NEW d \in Devices, ReadBadge(d) \/ CountUnread(d) PROVE InboxInv'
  <2>1. /\ On(d, "get") \/ On(d, "count")
        /\ Calm
        /\ UNCHANGED <<stored, read, hidden, lapsed, arriving, badge>>
    BY <1>13 DEF ReadBadge, CountUnread, records
  <2>2. Busy(d) /\ ~On(d, "markEach") /\ ~On(d, "decr")
    BY <2>1 DEF Busy, On
  <2>3. UNCHANGED <<Unread, ShownUnread>>
    BY <2>1, <1>r
  <2>4. /\ \A e \in Callers \ {d} : call'[e] = call[e]
        /\ \/ call'[d].step = "idle"
           \/ call'[d].step = "count" /\ badge = NoKey
           \/ call'[d].step = "fill" /\ call'[d].found = Cardinality(Unread) /\ On(d, "count")
    <3>1. \/ Answer(d)
          \/ Then(d, "count", {}, 0) /\ badge = NoKey
          \/ Then(d, "fill", {}, Cardinality(Unread)) /\ On(d, "count")
      BY <1>13 DEF ReadBadge, CountUnread
    <3> QED BY <3>1, <1>a, <1>c, <1>z, ZenonT(40) DEF InboxSteps
  <2>5. /\ ~On(d, "markEach")' /\ ~On(d, "decr")'
        /\ On(d, "fill")' => (call[d].found = Cardinality(Unread))'
    BY <2>3, <2>4 DEF On
  <2>6. ASSUME alone, tidy
        PROVE  /\ CallInStep(d)'
               /\ badge' = NoKey => NothingYet'
               /\ badge' # NoKey => badge' = Cardinality(ShownUnread') + 0
    <3>1. On(d, "count") => badge = NoKey
      BY <1>k, <2>6, <2>2 DEF CallInStep
    <3>2. CallInStep(d)'
      BY <2>1, <2>4, <3>1 DEF CallInStep, On
    <3>3. badge' = NoKey => NothingYet'
      BY <1>k, <2>6, <2>1, <2>2 DEF NothingYet
    <3>4. badge' # NoKey => badge' = Cardinality(ShownUnread') + 0
      BY <1>k, <2>6, <2>1, <2>2, <2>3
    <3> QED BY <3>2, <3>3, <3>4
  <2> QED BY <2>1, <2>2, <2>4, <2>5, <2>6, <1>t, GoesOn
\* The handler of a notification reads the badge: it is there, or something has
\* disturbed the handler.
<1>17. ASSUME NEW k \in Notifications, GetUnreadCount(k) PROVE InboxInv'
  <2>b. /\ Busy(k) /\ UNCHANGED <<stored, read, hidden, lapsed, arriving>>
        /\ k \notin Devices
    BY <1>17, InboxAssumption DEF GetUnreadCount, ReadBadge, CountUnread, FillBadge, Busy, On, records
  <2>1. CASE alone
    <3>1. On(k, "get") /\ badge # NoKey
      BY <2>b, <2>1 DEF InboxInv, AloneInv
    <3>2. Answer(k) /\ Calm /\ UNCHANGED badge
      BY <1>17, <3>1 DEF GetUnreadCount, ReadBadge, CountUnread, FillBadge, On
    <3>3. call'[k].step = "idle" /\ \A e \in Callers \ {k} : call'[e] = call[e]
      BY <3>2, <1>a
    <3>4. \A d \in Devices : ~Busy(d) /\ ~Busy(d)'
      BY <2>b, <2>1, <3>3 DEF InboxInv, AloneInv, Busy, On
    <3>5. \A m \in Notifications : Busy(m)' => On(m, "get")' /\ badge' # NoKey
      BY <2>1, <3>2, <3>3 DEF InboxInv, AloneInv, Busy, On
    <3>6. tidy => BadgeInv'
      <4>1. ~MarkingAll /\ ~Owing /\ ~MarkingAll' /\ ~Owing'
        BY <3>4 DEF MarkingAll, Owing, Busy, On
      <4>2. UNCHANGED <<ShownUnread, arriving, badge>>
        BY <2>b, <3>2, <1>r
      <4> QED BY <3>1, <4>1, <4>2 DEF InboxInv, TidyInv, BadgeInv
    <3> QED BY <3>2, <3>4, <3>5, <3>6, <1>t DEF Calm, InboxInv, AloneInv, TidyInv
  <2>2. CASE ~alone
    <3>1. ~tidy
      BY <2>2 DEF InboxInv, TidyInv
    <3>2. ~tidy' /\ ~alone'
      <4>1. CASE ReadBadge(k) \/ CountUnread(k)
        BY <2>2, <3>1, <4>1 DEF ReadBadge, CountUnread, Calm
      <4>2. CASE FillBadge(k)
        <5>1. alone' = alone /\ tidy' = (tidy \/ (alone /\ hidden \subseteq read \cup lapsed))
          BY <4>2 DEF FillBadge
        <5> QED BY <2>2, <3>1, <5>1
      <4> QED BY <1>17, <4>1, <4>2 DEF GetUnreadCount
    <3> QED BY <3>2, <1>t DEF InboxInv, AloneInv, TidyInv
  <2> QED BY <2>1, <2>2
\* Faults.
<1>14. ASSUME NEW d \in Callers, Mishap(d) PROVE InboxInv'
  BY <1>14, <1>d DEF Mishap, RedisFails, CassandraFails, CallCutShort
<1>15. CASE BadgeLost
  BY <1>15, <1>d DEF BadgeLost
<1>16. CASE UNCHANGED inboxVars
  <2>1. UNCHANGED <<stored, read, hidden, lapsed, arriving, badge, call, alone, tidy>>
    BY <1>16 DEF inboxVars, records
  <2>2. UNCHANGED <<Unread, ShownUnread>>
    BY <2>1, <1>r
  <2>3. AloneInv'
    BY <2>1, <2>2 DEF InboxInv, AloneInv, Busy, On
  <2>4. TidyInv'
    BY <2>1, <2>2 DEF InboxInv, TidyInv, Busy, On, CallInStep, BadgeInv, NothingYet, Owing, MarkingAll
  <2> QED BY <1>t, <2>3, <2>4 DEF InboxInv
<1> QED
  BY <1>1, <1>2, <1>3, <1>4, <1>5, <1>6, <1>7, <1>8, <1>9, <1>10, <1>11, <1>12,
     <1>13, <1>14, <1>15, <1>16, <1>17 DEF InboxNext, Arrive, Serve, GetUnreadCount

\* However devices, arrivals and faults interleave: with nothing under way the badge
\* is what the list shows as unread, unless something has put it out of step; and a
\* read-all or a reload by a request that nothing disturbs puts it right again.
THEOREM BadgeStaysInStep == InboxSpec => []BadgeInStep
<1>1. InboxInit => InboxInv
  <2> SUFFICES ASSUME InboxInit PROVE InboxInv
    OBVIOUS
  <2>1. InboxTypeOK
    BY InboxTypeInit
  <2>2. \A d \in Callers : ~Busy(d)
    BY DEF InboxInit, Busy, On
  <2>3. badge = NoKey /\ NothingYet /\ alone
    BY DEF InboxInit, NothingYet
  <2> QED BY <2>1, <2>2, <2>3 DEF InboxInv, AloneInv, TidyInv, BadgeInv, Callers
<1>2. InboxInv => BadgeInStep
  <2> SUFFICES ASSUME InboxInv, Resting, tidy PROVE ShownBadge = Cardinality(ShownUnread)
    BY DEF BadgeInStep
  <2>1. CASE badge = NoKey
    <3>1. stored = {}
      BY <2>1, RestingKnows DEF NothingYet, Resting
    <3>2. Unread = ShownUnread
      BY <3>1 DEF Unread, ShownUnread
    <3> QED BY <2>1, <3>2 DEF ShownBadge
  <2>2. CASE badge # NoKey
    BY <2>2, RestingKnows DEF ShownBadge
  <2> QED BY <2>1, <2>2
<1> QED
  BY <1>1, <1>2, InboxInvNext, PTL DEF InboxSpec

-----------------------------------------------------------------------------
(* Follows: the two tables and the counts agree.                           *)

\* The requests whose batch is in the log.
Sent == {c \in FollowCalls : writeTime[c] > 0}
SentBy(f) == {c \in Sent : fan[c] = f}

LEMMA SentFinite ==
  ASSUME FollowsTypeOK
  PROVE  IsFiniteSet(Sent) /\ Cardinality(Sent) \in Nat
<1>1. Sent \in SUBSET FollowCalls
  BY DEF Sent
<1> QED
  BY <1>1, FollowsAssumption, FS_Subset, FS_CardinalityType

LEMMA FollowsTypeNext == FollowsTypeOK /\ [FollowsNext]_followVars => FollowsTypeOK'
<1> SUFFICES ASSUME FollowsTypeOK, [FollowsNext]_followVars PROVE FollowsTypeOK'
  OBVIOUS
<1> USE DEF FollowsTypeOK, relation, tallies, Advance, Repeats
<1>s. ASSUME NEW c \in FollowCalls, SendBatch(c)
      PROVE  writeTime' \in [FollowCalls -> Nat] /\ onTheWay' \subseteq FollowCalls \X BothTables
  <2>1. writeTime' = [writeTime EXCEPT ![c] = 1 + Cardinality(Sent)] /\ 1 + Cardinality(Sent) \in Nat
    BY <1>s, SentFinite DEF SendBatch, Sent
  <2> QED BY <1>s, <2>1 DEF SendBatch
<1>1. ASSUME NEW c \in FollowCalls, NEW f \in Fans, Follow(c, f) PROVE FollowsTypeOK'
  BY <1>1, <1>s DEF Follow
<1>2. ASSUME NEW c \in FollowCalls, NEW f \in Fans, FindFollow(c, f) PROVE FollowsTypeOK'
  BY <1>2 DEF FindFollow
<1>3. ASSUME NEW c \in FollowCalls, RemoveFollow(c) PROVE FollowsTypeOK'
  BY <1>3, <1>s DEF RemoveFollow
<1>4. ASSUME NEW c \in FollowCalls, NEW f \in Fans, BatchFails(c, f) PROVE FollowsTypeOK'
  <2>1. writeTime' \in [FollowCalls -> Nat] /\ onTheWay' \subseteq FollowCalls \X BothTables
    BY <1>4, <1>s DEF BatchFails
  <2> QED BY <1>4, <2>1 DEF BatchFails
<1>5. ASSUME NEW c \in FollowCalls, ArriveFollows(c) PROVE FollowsTypeOK'
  BY <1>5 DEF ArriveFollows
<1>6. ASSUME NEW c \in FollowCalls, ArriveFollowers(c) PROVE FollowsTypeOK'
  BY <1>6 DEF ArriveFollowers
<1>7. ASSUME NEW c \in FollowCalls, MoveCounts(c) \/ MoveCountsFails(c) PROVE FollowsTypeOK'
  <2>1. Moved(c) \in Int
    BY <1>7 DEF MoveCounts, MoveCountsFails, Moved
  <2> QED BY <1>7, <2>1 DEF MoveCounts, MoveCountsFails
<1>8. CASE UNCHANGED followVars
  BY <1>8 DEF followVars
<1> QED
  BY <1>1, <1>2, <1>3, <1>4, <1>5, <1>6, <1>7, <1>8 DEF FollowsNext

LEMMA FollowsTypeInit == FollowsInit => FollowsTypeOK
<1> SUFFICES ASSUME FollowsInit PROVE FollowsTypeOK
  OBVIOUS
<1>1. (CHOOSE f \in Fans : TRUE) \in Fans
  BY FollowsAssumption
<1> QED
  BY <1>1 DEF FollowsInit, FollowsTypeOK

\* The tables, the counters and the batches under way are well typed, whatever
\* fails and however requests overlap.
THEOREM FollowsTypeCorrect == FollowsSpec => []FollowsTypeOK
BY FollowsTypeInit, FollowsTypeNext, PTL DEF FollowsSpec

Arrived(c, table) == c \in Sent /\ <<c, table>> \notin onTheWay

\* What a batch makes of its fan's row.
RowOf(c) == IF removes[c] = Nobody THEN c ELSE Nobody

\* A batch that is logged is later than all before it.  An Unfollow removes a follow
\* of its own fan that has been logged before.
BatchInv ==
  \A c \in FollowCalls :
    /\ writeTime[c] <= Cardinality(Sent)
    /\ stage[c] \in {"new", "remove"} => c \notin Sent
    /\ c \notin Sent => \A t \in BothTables : <<c, t>> \notin onTheWay
    /\ stage[c] = "new" => removes[c] = Nobody
    /\ stage[c] = "remove" => removes[c] # Nobody
    /\ removes[c] # Nobody =>
         /\ removes[c] \in SentBy(fan[c]) /\ removes[removes[c]] = Nobody
         /\ c \in Sent => writeTime[removes[c]] < writeTime[c]

\* A fan's row is of the latest of the batches that have reached it.
RowInv ==
  \A f \in Fans :
    /\ \/ written[f] = 0 /\ follows[f] = Nobody
       \/ \E c \in SentBy(f) :
            Arrived(c, "follows") /\ written[f] = writeTime[c] /\ follows[f] = RowOf(c)
    /\ \A c \in SentBy(f) : Arrived(c, "follows") => writeTime[c] <= written[f]

\* A follow that has reached followers is there, or has been removed by an Unfollow.
ListInv ==
  /\ \A c \in FollowCalls :
       Arrived(c, "followers") /\ removes[c] = Nobody => c \in followers \cup buried
  /\ \A c \in buried : \E d \in FollowCalls : Arrived(d, "followers") /\ removes[d] = c

TablesInv == FollowsTypeOK /\ BatchInv /\ RowInv /\ ListInv

\* A batch goes into the log, after all others.
LEMMA Logged ==
  ASSUME FollowsTypeOK, BatchInv, NEW c \in FollowCalls, c \notin Sent, SendBatch(c)
  PROVE  /\ Sent' = Sent \cup {c} /\ Cardinality(Sent') = Cardinality(Sent) + 1
         /\ writeTime'[c] = Cardinality(Sent) + 1
         /\ \A d \in FollowCalls \ {c} : writeTime'[d] = writeTime[d]
         /\ \A d \in FollowCalls : writeTime[d] < writeTime'[c]
         /\ \A d \in FollowCalls, t \in BothTables :
              <<d, t>> \in onTheWay' <=> (<<d, t>> \in onTheWay \/ d = c)
<1>1. IsFiniteSet(Sent) /\ Cardinality(Sent) \in Nat
  BY SentFinite
<1>2. /\ writeTime' = [writeTime EXCEPT ![c] = 1 + Cardinality(Sent)]
      /\ onTheWay' = onTheWay \cup ({c} \X BothTables)
  BY DEF SendBatch, Sent
<1>3. /\ writeTime'[c] = Cardinality(Sent) + 1
      /\ \A d \in FollowCalls \ {c} : writeTime'[d] = writeTime[d]
  BY <1>1, <1>2 DEF FollowsTypeOK
<1>4. Sent' = Sent \cup {c}
  BY <1>1, <1>3 DEF Sent
<1>5. Cardinality(Sent') = Cardinality(Sent) + 1
  BY <1>1, <1>4, FS_AddElement
<1>6. \A d \in FollowCalls : writeTime[d] < writeTime'[c]
  <2> SUFFICES ASSUME NEW d \in FollowCalls PROVE writeTime[d] < writeTime'[c]
    OBVIOUS
  <2>1. writeTime[d] \in Nat /\ writeTime[d] <= Cardinality(Sent)
    BY DEF BatchInv, FollowsTypeOK
  <2> QED BY <2>1, <1>1, <1>3
<1>7. \A d \in FollowCalls, t \in BothTables :
        <<d, t>> \in onTheWay' <=> (<<d, t>> \in onTheWay \/ d = c)
  BY <1>2
<1> QED
  BY <1>3, <1>4, <1>5, <1>6, <1>7

\* A step that logs the batch of c, whoever sent it and whatever becomes of it.
Logs(c) ==
  /\ c \notin Sent /\ SendBatch(c) /\ UNCHANGED <<follows, written, followers, buried, removes>>
  /\ stage'[c] \notin {"new", "remove"} /\ fan'[c] \in Fans
  /\ removes[c] # Nobody => fan'[c] = fan[c]
  /\ \A d \in FollowCalls \ {c} : stage'[d] = stage[d] /\ fan'[d] = fan[d]

LEMMA LogsTables ==
  ASSUME TablesInv, FollowsTypeOK', NEW c \in FollowCalls, Logs(c)
  PROVE  TablesInv'
<1>t. FollowsTypeOK
  BY DEF TablesInv
<1>1. /\ Sent' = Sent \cup {c} /\ Cardinality(Sent') = Cardinality(Sent) + 1
      /\ writeTime'[c] = Cardinality(Sent) + 1
      /\ \A d \in FollowCalls \ {c} : writeTime'[d] = writeTime[d]
      /\ \A d \in FollowCalls : writeTime[d] < writeTime'[c]
      /\ \A d \in FollowCalls, t \in BothTables :
           <<d, t>> \in onTheWay' <=> (<<d, t>> \in onTheWay \/ d = c)
  BY Logged DEF Logs, TablesInv
<1>2. /\ \A d \in Sent : d # c /\ fan'[d] = fan[d] /\ writeTime'[d] = writeTime[d] /\ d \in FollowCalls
      /\ \A f : SentBy(f) \subseteq SentBy(f)'
  BY <1>1 DEF Logs, Sent, SentBy
<1>3. \A d \in FollowCalls, t \in BothTables : Arrived(d, t)' <=> Arrived(d, t)
  BY <1>1 DEF Arrived, TablesInv, BatchInv, Logs
<1>4. BatchInv'
  <2> SUFFICES ASSUME NEW d \in FollowCalls
               PROVE  /\ writeTime'[d] <= Cardinality(Sent')
                      /\ stage'[d] \in {"new", "remove"} => d \notin Sent'
                      /\ d \notin Sent' => \A t \in BothTables : <<d, t>> \notin onTheWay'
                      /\ stage'[d] = "new" => removes'[d] = Nobody
                      /\ stage'[d] = "remove" => removes'[d] # Nobody
                      /\ removes'[d] # Nobody =>
                           /\ removes'[d] \in SentBy(fan[d])' /\ removes'[removes'[d]] = Nobody
                           /\ d \in Sent' => writeTime'[removes'[d]] < writeTime'[d]
    BY DEF BatchInv
  <2>1. writeTime'[d] <= Cardinality(Sent')
    <3>1. writeTime[d] \in Nat /\ writeTime[d] <= Cardinality(Sent) /\ Cardinality(Sent) \in Nat
      BY <1>t, SentFinite DEF TablesInv, BatchInv, FollowsTypeOK
    <3> QED BY <1>1, <3>1
  <2>2. /\ stage'[d] \in {"new", "remove"} => d \notin Sent'
        /\ d \notin Sent' => \A t \in BothTables : <<d, t>> \notin onTheWay'
        /\ stage'[d] = "new" => removes'[d] = Nobody
        /\ stage'[d] = "remove" => removes'[d] # Nobody
    BY <1>1 DEF Logs, TablesInv, BatchInv
  <2>3. ASSUME removes[d] # Nobody
        PROVE  /\ removes'[d] \in SentBy(fan[d])' /\ removes'[removes'[d]] = Nobody
               /\ d \in Sent' => writeTime'[removes'[d]] < writeTime'[d]
    <3>1. /\ removes'[d] = removes[d] /\ fan'[d] = fan[d]
          /\ removes[d] \in SentBy(fan[d]) /\ removes[removes[d]] = Nobody
          /\ d \in Sent => writeTime[removes[d]] < writeTime[d]
      BY <2>3 DEF Logs, TablesInv, BatchInv
    <3>2. removes[d] \in Sent /\ writeTime'[removes[d]] = writeTime[removes[d]] /\ removes[d] \in FollowCalls
      BY <3>1, <1>2 DEF SentBy
    <3>3. removes'[d] \in SentBy(fan[d])'
      BY <3>1, <3>2, <1>1, <1>2 DEF SentBy
    <3>4. d \in Sent' => writeTime'[removes[d]] < writeTime'[d]
      BY <3>1, <3>2, <1>1, <1>2
    <3>5. removes'[removes'[d]] = Nobody
      BY <3>1 DEF Logs
    <3> QED BY <3>1, <3>3, <3>4, <3>5
  <2>4. removes'[d] = removes[d]
    BY DEF Logs
  <2> QED BY <2>1, <2>2, <2>3, <2>4
<1>5. RowInv'
  <2> SUFFICES ASSUME NEW f \in Fans
               PROVE  /\ \/ written'[f] = 0 /\ follows'[f] = Nobody
                         \/ \E d \in SentBy(f)' : /\ Arrived(d, "follows")'
                                                  /\ written'[f] = writeTime'[d]
                                                  /\ follows'[f] = RowOf(d)'
                      /\ \A d \in SentBy(f)' : Arrived(d, "follows")' => writeTime'[d] <= written'[f]
    BY DEF RowInv
  <2>0. /\ written'[f] = written[f] /\ follows'[f] = follows[f] /\ "follows" \in BothTables
        /\ \A d : RowOf(d)' = RowOf(d)
    BY DEF Logs, RowOf, BothTables
  <2>1. \/ written'[f] = 0 /\ follows'[f] = Nobody
        \/ \E d \in SentBy(f)' : /\ Arrived(d, "follows")'
                                 /\ written'[f] = writeTime'[d]
                                 /\ follows'[f] = RowOf(d)'
    <3>1. CASE written[f] = 0 /\ follows[f] = Nobody
      BY <3>1, <2>0
    <3>2. ASSUME NEW d \in SentBy(f), Arrived(d, "follows"), written[f] = writeTime[d], follows[f] = RowOf(d)
          PROVE  \E e \in SentBy(f)' : /\ Arrived(e, "follows")'
                                      /\ written'[f] = writeTime'[e]
                                      /\ follows'[f] = RowOf(e)'
      <4>1. d \in Sent /\ d \in SentBy(f)'
        BY <3>2, <1>2 DEF SentBy
      <4>2. Arrived(d, "follows")' /\ writeTime'[d] = writeTime[d]
        BY <3>2, <4>1, <1>2, <1>3, <2>0
      <4> QED BY <3>2, <4>1, <4>2, <2>0
    <3> QED BY <3>1, <3>2 DEF TablesInv, RowInv
  <2>2. ASSUME NEW d \in SentBy(f)', Arrived(d, "follows")' PROVE writeTime'[d] <= written'[f]
    <3>1. d \in FollowCalls
      BY DEF SentBy, Sent
    <3>2. Arrived(d, "follows")
      BY <3>1, <2>2, <1>3, <2>0
    <3>3. d \in SentBy(f) /\ writeTime'[d] = writeTime[d]
      BY <3>2, <2>2, <1>2 DEF Arrived, SentBy
    <3> QED BY <3>2, <3>3, <2>0 DEF TablesInv, RowInv
  <2> QED BY <2>1, <2>2
<1>6. ListInv'
  BY <1>3 DEF Logs, TablesInv, ListInv, BothTables
<1> QED
  BY <1>4, <1>5, <1>6 DEF TablesInv

\* Whoever has a row has logged the follow it is of.
LEMMA RowIsFollow ==
  ASSUME TablesInv, NEW f \in Fans, follows[f] # Nobody
  PROVE  /\ follows[f] \in SentBy(f) /\ removes[follows[f]] = Nobody
         /\ Arrived(follows[f], "follows") /\ written[f] = writeTime[follows[f]]
<1>1. PICK c \in SentBy(f) : /\ Arrived(c, "follows") /\ written[f] = writeTime[c]
                             /\ follows[f] = RowOf(c)
  BY DEF TablesInv, RowInv
<1>2. removes[c] = Nobody /\ follows[f] = c
  BY <1>1 DEF RowOf
<1> QED
  BY <1>1, <1>2

\* A step of c that logs nothing: it ends, or it finds the follow it will remove.
Reads(c) ==
  /\ UNCHANGED <<follows, written, followers, buried, onTheWay, writeTime>>
  /\ \A d \in FollowCalls \ {c} :
       stage'[d] = stage[d] /\ fan'[d] = fan[d] /\ removes'[d] = removes[d]
  /\ c \in Sent => fan'[c] = fan[c]
  /\ \/ /\ stage'[c] = "done" /\ removes'[c] = removes[c]
        /\ removes[c] # Nobody => fan'[c] = fan[c]
     \/ /\ c \notin Sent /\ fan'[c] \in Fans /\ removes'[c] = follows[fan'[c]]
        /\ stage'[c] = IF removes'[c] = Nobody THEN "done" ELSE "remove"

LEMMA ReadsTables ==
  ASSUME TablesInv, FollowsTypeOK', NEW c \in FollowCalls, Reads(c)
  PROVE  TablesInv'
<1>1. /\ Sent' = Sent /\ writeTime' = writeTime /\ onTheWay' = onTheWay
      /\ \A d, t : Arrived(d, t)' <=> Arrived(d, t)
  BY DEF Reads, Sent, Arrived
<1>2. \A d \in Sent : d \in FollowCalls /\ fan'[d] = fan[d] /\ removes'[d] \in {removes[d]}
  <2> SUFFICES ASSUME NEW d \in Sent
               PROVE  d \in FollowCalls /\ fan'[d] = fan[d] /\ removes'[d] = removes[d]
    OBVIOUS
  <2> QED BY DEF Reads, Sent
<1>3. \A f : SentBy(f)' = SentBy(f)
  BY <1>1, <1>2 DEF SentBy
<1>4. BatchInv'
  <2> SUFFICES ASSUME NEW d \in FollowCalls
               PROVE  /\ writeTime[d] <= Cardinality(Sent)
                      /\ stage'[d] \in {"new", "remove"} => d \notin Sent
                      /\ d \notin Sent => \A t \in BothTables : <<d, t>> \notin onTheWay
                      /\ stage'[d] = "new" => removes'[d] = Nobody
                      /\ stage'[d] = "remove" => removes'[d] # Nobody
                      /\ removes'[d] # Nobody =>
                           /\ removes'[d] \in SentBy(fan'[d]) /\ removes'[removes'[d]] = Nobody
                           /\ d \in Sent => writeTime[removes'[d]] < writeTime[d]
    <3>1. \A d \in FollowCalls : SentBy(fan[d])' = SentBy(fan'[d])
      BY <1>1, <1>2 DEF SentBy
    <3> QED BY <1>1, <3>1 DEF BatchInv
  <2>1. /\ writeTime[d] <= Cardinality(Sent)
        /\ d \notin Sent => \A t \in BothTables : <<d, t>> \notin onTheWay
    BY DEF TablesInv, BatchInv
  <2>2. /\ stage'[d] \in {"new", "remove"} => d \notin Sent
        /\ stage'[d] = "new" => removes'[d] = Nobody
        /\ stage'[d] = "remove" => removes'[d] # Nobody
    BY DEF Reads, TablesInv, BatchInv
  <2>3. ASSUME removes'[d] # Nobody
        PROVE  /\ removes'[d] \in SentBy(fan'[d]) /\ removes[removes'[d]] = Nobody
               /\ d \in Sent => writeTime[removes'[d]] < writeTime[d]
    <3>1. CASE removes'[d] = removes[d] /\ fan'[d] = fan[d]
      BY <2>3, <3>1 DEF TablesInv, BatchInv
    <3>2. CASE d = c /\ c \notin Sent /\ fan'[c] \in Fans /\ removes'[c] = follows[fan'[c]]
      BY <2>3, <3>2, RowIsFollow
    <3> QED BY <2>3, <3>1, <3>2 DEF Reads
  <2>4. ASSUME removes'[d] # Nobody PROVE removes'[removes'[d]] = Nobody
    <3>1. removes'[d] \in Sent
      BY <2>3, <2>4 DEF SentBy
    <3> QED BY <2>3, <2>4, <3>1, <1>2
  <2> QED BY <2>1, <2>2, <2>3, <2>4
<1>5. RowInv'
  <2>1. \A d \in Sent : RowOf(d)' = RowOf(d)
    BY <1>2 DEF RowOf
  <2> SUFFICES ASSUME NEW f \in Fans
               PROVE  /\ \/ written[f] = 0 /\ follows[f] = Nobody
                         \/ \E d \in SentBy(f) : /\ Arrived(d, "follows")
                                                 /\ written[f] = writeTime[d]
                                                 /\ follows[f] = RowOf(d)'
                      /\ \A d \in SentBy(f) : Arrived(d, "follows") => writeTime[d] <= written[f]
    BY <1>1, <1>3 DEF RowInv, Reads
  <2> QED BY <2>1 DEF TablesInv, RowInv, SentBy
<1>6. ListInv'
  <2>1. \A d \in FollowCalls : Arrived(d, "followers") => removes'[d] = removes[d]
    BY <1>2 DEF Arrived
  <2> QED BY <1>1, <2>1 DEF Reads, TablesInv, ListInv
<1> QED
  BY <1>4, <1>5, <1>6 DEF TablesInv

\* A part that arrives leaves the log and the requests as they are.
LEMMA ArrivalKeepsBatches ==
  ASSUME TablesInv, NEW c \in FollowCalls, NEW table \in BothTables,
         <<c, table>> \in onTheWay, onTheWay' = onTheWay \ {<<c, table>>},
         UNCHANGED <<writeTime, stage, fan, removes>>
  PROVE  /\ c \in Sent /\ Sent' = Sent /\ \A f : SentBy(f)' = SentBy(f)
         /\ \A d \in FollowCalls, t \in BothTables :
              Arrived(d, t)' <=> (Arrived(d, t) \/ <<d, t>> = <<c, table>>)
         /\ BatchInv'
<1>1. c \in Sent
  BY DEF TablesInv, BatchInv
<1>2. Sent' = Sent /\ \A f : SentBy(f)' = SentBy(f)
  BY DEF Sent, SentBy
<1>3. \A d \in FollowCalls, t \in BothTables :
        Arrived(d, t)' <=> (Arrived(d, t) \/ <<d, t>> = <<c, table>>)
  BY <1>1, <1>2 DEF Arrived
<1>4. BatchInv'
  <2>1. \A d \in FollowCalls : SentBy(fan[d])' = SentBy(fan[d])
    BY <1>2 DEF SentBy
  <2> QED BY <1>2, <2>1 DEF TablesInv, BatchInv
<1> QED
  BY <1>1, <1>2, <1>3, <1>4

LEMMA ArriveFollowsTables ==
  ASSUME TablesInv, FollowsTypeOK', NEW c \in FollowCalls, ArriveFollows(c)
  PROVE  TablesInv'
<1>t. FollowsTypeOK /\ "follows" \in BothTables /\ "followers" \in BothTables
  BY DEF TablesInv, BothTables
<1>0. /\ <<c, "follows">> \in onTheWay /\ onTheWay' = onTheWay \ {<<c, "follows">>}
      /\ UNCHANGED <<followers, buried, writeTime, stage, fan, removes>>
  BY DEF ArriveFollows
<1>1. /\ c \in Sent /\ Sent' = Sent /\ \A f : SentBy(f)' = SentBy(f)
      /\ \A d \in FollowCalls, t \in BothTables :
           Arrived(d, t)' <=> (Arrived(d, t) \/ <<d, t>> = <<c, "follows">>)
      /\ BatchInv'
  BY <1>0, <1>t, ArrivalKeepsBatches
<1>2. \A d : RowOf(d)' = RowOf(d)
  BY <1>0 DEF RowOf
<1>3. RowInv'
  <2> SUFFICES ASSUME NEW f \in Fans
               PROVE  /\ \/ written'[f] = 0 /\ follows'[f] = Nobody
                         \/ \E d \in SentBy(f) : /\ Arrived(d, "follows")'
                                                 /\ written'[f] = writeTime[d]
                                                 /\ follows'[f] = RowOf(d)
                      /\ \A d \in SentBy(f) : Arrived(d, "follows")' => writeTime[d] <= written'[f]
    BY <1>0, <1>1, <1>2 DEF RowInv
  <2>1. /\ \/ written[f] = 0 /\ follows[f] = Nobody
           \/ \E d \in SentBy(f) :
                Arrived(d, "follows") /\ written[f] = writeTime[d] /\ follows[f] = RowOf(d)
        /\ \A d \in SentBy(f) : Arrived(d, "follows") => writeTime[d] <= written[f]
    BY DEF TablesInv, RowInv
  <2>2. /\ \A d \in SentBy(f) : d \in FollowCalls /\ writeTime[d] \in Nat
        /\ written[f] \in Nat /\ fan[c] \in Fans /\ writeTime[c] \in Nat /\ written[fan[c]] \in Nat
    BY <1>t DEF SentBy, Sent, FollowsTypeOK
  <2>3. \A d \in SentBy(f) : Arrived(d, "follows")' <=> (Arrived(d, "follows") \/ d = c)
    BY <2>2, <1>1, <1>t
  <2>4. CASE f # fan[c]
    <3>1. c \notin SentBy(f) /\ written'[f] = written[f] /\ follows'[f] = follows[f]
      BY <2>4, <1>t DEF SentBy, ArriveFollows, FollowsTypeOK
    <3> QED BY <3>1, <2>1, <2>3
  <2>5. CASE f = fan[c] /\ writeTime[c] < written[f]
    <3>1. written'[f] = written[f] /\ follows'[f] = follows[f]
      BY <2>5 DEF ArriveFollows
    <3> QED BY <3>1, <2>1, <2>2, <2>3, <2>5
  <2>6. CASE f = fan[c] /\ ~ (writeTime[c] < written[f])
    <3>1. written'[f] = writeTime[c] /\ follows'[f] = RowOf(c) /\ c \in SentBy(f)
      BY <2>6, <1>t, <1>1 DEF ArriveFollows, FollowsTypeOK, RowOf, SentBy
    <3>2. \A d \in SentBy(f) : Arrived(d, "follows") => writeTime[d] <= writeTime[c]
      BY <2>1, <2>2, <2>6
    <3> QED BY <3>1, <3>2, <2>2, <2>3
  <2> QED BY <2>4, <2>5, <2>6
<1>4. ListInv'
  <2>1. \A d \in FollowCalls : Arrived(d, "followers")' <=> Arrived(d, "followers")
    BY <1>1, <1>t
  <2> QED BY <1>0, <2>1 DEF TablesInv, ListInv
<1> QED
  BY <1>1, <1>3, <1>4 DEF TablesInv

LEMMA ArriveFollowersTables ==
  ASSUME TablesInv, FollowsTypeOK', NEW c \in FollowCalls, ArriveFollowers(c)
  PROVE  TablesInv'
<1>t. FollowsTypeOK /\ "follows" \in BothTables /\ "followers" \in BothTables
  BY DEF TablesInv, BothTables
<1>0. /\ <<c, "followers">> \in onTheWay /\ onTheWay' = onTheWay \ {<<c, "followers">>}
      /\ UNCHANGED <<follows, written, writeTime, stage, fan, removes>>
  BY DEF ArriveFollowers
<1>1. /\ c \in Sent /\ Sent' = Sent /\ \A f : SentBy(f)' = SentBy(f)
      /\ \A d \in FollowCalls, t \in BothTables :
           Arrived(d, t)' <=> (Arrived(d, t) \/ <<d, t>> = <<c, "followers">>)
      /\ BatchInv'
  BY <1>0, <1>t, ArrivalKeepsBatches
<1>2. \A d : RowOf(d)' = RowOf(d)
  BY <1>0 DEF RowOf
<1>3. RowInv'
  <2>1. \A d \in FollowCalls : Arrived(d, "follows")' <=> Arrived(d, "follows")
    BY <1>1, <1>t
  <2>2. \A f : SentBy(f) \subseteq FollowCalls
    BY DEF SentBy, Sent
  <2> SUFFICES ASSUME NEW f \in Fans
               PROVE  /\ \/ written[f] = 0 /\ follows[f] = Nobody
                         \/ \E d \in SentBy(f) : /\ Arrived(d, "follows")'
                                                 /\ written[f] = writeTime[d]
                                                 /\ follows[f] = RowOf(d)
                      /\ \A d \in SentBy(f) : Arrived(d, "follows")' => writeTime[d] <= written[f]
    BY <1>0, <1>1, <1>2 DEF RowInv
  <2> QED BY <2>1, <2>2 DEF TablesInv, RowInv
<1>4. ListInv'
  <2>1. \A d \in FollowCalls : Arrived(d, "followers")' <=> (Arrived(d, "followers") \/ d = c)
    BY <1>1, <1>t
  <2>2. ListInv
    BY DEF TablesInv
  <2>3. CASE removes[c] = Nobody
    <3>1. followers' = followers \cup ({c} \ buried) /\ buried' = buried
      BY <2>3 DEF ArriveFollowers
    <3> QED BY <3>1, <1>0, <2>1, <2>2 DEF ListInv
  <2>4. CASE removes[c] # Nobody
    <3>1. followers' = followers \ {removes[c]} /\ buried' = buried \cup {removes[c]}
      BY <2>4 DEF ArriveFollowers
    <3>2. \A d \in FollowCalls : Arrived(d, "followers")' /\ removes'[d] = Nobody
                                   => d \in followers' \cup buried'
      BY <3>1, <2>4, <1>0, <2>1, <2>2 DEF ListInv
    <3>3. \A e \in buried' : \E d \in FollowCalls : Arrived(d, "followers")' /\ removes'[d] = e
      BY <3>1, <1>0, <2>1, <2>2 DEF ListInv
    <3> QED BY <3>2, <3>3 DEF ListInv
  <2> QED BY <2>3, <2>4
<1> QED
  BY <1>1, <1>3, <1>4 DEF TablesInv

\* What each step does to the log: it logs a batch, reads, or lets a part arrive.
LEMMA FollowSteps ==
  ASSUME TablesInv, FollowsTypeOK', NEW c \in FollowCalls
  PROVE  /\ \A f \in Fans : Follow(c, f) => Logs(c)
         /\ \A f \in Fans : FindFollow(c, f) => Reads(c)
         /\ \A f \in Fans : BatchFails(c, f) => Logs(c) \/ Reads(c)
         /\ RemoveFollow(c) => Logs(c)
         /\ MoveCounts(c) \/ MoveCountsFails(c) => Reads(c)
<1>t. FollowsTypeOK
  BY DEF TablesInv
<1>0. /\ stage[c] \in {"new", "remove"} => c \notin Sent
      /\ stage[c] = "new" => removes[c] = Nobody
      /\ fan[c] \in Fans
  BY <1>t DEF TablesInv, BatchInv, FollowsTypeOK
<1>1. ASSUME NEW f \in Fans, Follow(c, f) PROVE Logs(c)
  <2>1. /\ stage[c] = "new" /\ fan' = [fan EXCEPT ![c] = f] /\ stage' = [stage EXCEPT ![c] = "raise"]
        /\ SendBatch(c) /\ UNCHANGED <<follows, written, followers, buried, removes>>
    BY <1>1 DEF Follow, Advance, relation
  <2> QED BY <2>1, <1>0, <1>t DEF Logs, FollowsTypeOK
<1>2. ASSUME NEW f \in Fans, FindFollow(c, f) PROVE Reads(c)
  <2>1. /\ stage[c] = "new" /\ fan' = [fan EXCEPT ![c] = f]
        /\ removes' = [removes EXCEPT ![c] = follows[f]]
        /\ stage' = [stage EXCEPT ![c] = IF follows[f] = Nobody THEN "done" ELSE "remove"]
        /\ UNCHANGED <<follows, written, followers, buried, onTheWay, writeTime>>
    BY <1>2 DEF FindFollow, Advance, relation
  <2>2. /\ fan'[c] = f /\ removes'[c] = follows[f]
        /\ stage'[c] = IF follows[f] = Nobody THEN "done" ELSE "remove"
    BY <2>1, <1>t DEF FollowsTypeOK
  <2>3. \A d \in FollowCalls \ {c} :
          stage'[d] = stage[d] /\ fan'[d] = fan[d] /\ removes'[d] = removes[d]
    BY <2>1, <1>t DEF FollowsTypeOK
  <2> QED BY <2>1, <2>2, <2>3, <1>0 DEF Reads
<1>3. ASSUME NEW f \in Fans, BatchFails(c, f) PROVE Logs(c) \/ Reads(c)
  <2>1. /\ \/ stage[c] = "new" /\ fan' = [fan EXCEPT ![c] = f]
           \/ stage[c] = "remove" /\ fan' = fan
        /\ stage' = [stage EXCEPT ![c] = "done"]
        /\ UNCHANGED <<follows, written, followers, buried, removes>>
        /\ SendBatch(c) \/ UNCHANGED <<writeTime, onTheWay>>
    BY <1>3 DEF BatchFails, Advance, relation
  <2>2. /\ stage'[c] = "done" /\ c \notin Sent /\ fan'[c] \in Fans
        /\ removes[c] # Nobody => fan'[c] = fan[c]
        /\ \A d \in FollowCalls \ {c} : stage'[d] = stage[d] /\ fan'[d] = fan[d]
    BY <2>1, <1>0, <1>t DEF FollowsTypeOK
  <2> QED BY <2>1, <2>2 DEF Logs, Reads
<1>4. ASSUME RemoveFollow(c) PROVE Logs(c)
  <2>1. /\ stage[c] = "remove" /\ fan' = fan /\ stage' = [stage EXCEPT ![c] = "lower"]
        /\ SendBatch(c) /\ UNCHANGED <<follows, written, followers, buried, removes>>
    BY <1>4 DEF RemoveFollow, Advance, relation
  <2> QED BY <2>1, <1>0, <1>t DEF Logs, FollowsTypeOK
<1>5. ASSUME MoveCounts(c) \/ MoveCountsFails(c) PROVE Reads(c)
  <2>1. /\ stage' = [stage EXCEPT ![c] = "done"]
        /\ UNCHANGED <<follows, written, followers, buried, onTheWay, writeTime, fan, removes>>
    BY <1>5 DEF MoveCounts, MoveCountsFails, Advance, relation
  <2> QED BY <2>1, <1>t DEF Reads, FollowsTypeOK
<1> QED
  BY <1>1, <1>2, <1>3, <1>4, <1>5

LEMMA TablesNext == TablesInv /\ [FollowsNext]_followVars => TablesInv'
<1> SUFFICES ASSUME TablesInv, [FollowsNext]_followVars PROVE TablesInv'
  OBVIOUS
<1>t. FollowsTypeOK'
  BY FollowsTypeNext DEF TablesInv
<1>1. ASSUME NEW c \in FollowCalls, Logs(c) \/ Reads(c) PROVE TablesInv'
  BY <1>1, <1>t, LogsTables, ReadsTables
<1>2. ASSUME NEW c \in FollowCalls, ArriveFollows(c) \/ ArriveFollowers(c) PROVE TablesInv'
  BY <1>2, <1>t, ArriveFollowsTables, ArriveFollowersTables
<1>3. CASE UNCHANGED followVars
  <2>1. /\ UNCHANGED <<follows, written, followers, buried, onTheWay, writeTime, stage, fan, removes>>
        /\ Sent' = Sent
    BY <1>3 DEF followVars, relation, Sent
  <2>2. /\ \A f : SentBy(f)' = SentBy(f)
        /\ \A d, t : Arrived(d, t)' <=> Arrived(d, t)
        /\ \A d : RowOf(d)' = RowOf(d)
        /\ \A d : SentBy(fan[d])' = SentBy(fan[d])
    BY <2>1 DEF SentBy, Arrived, RowOf
  <2>3. BatchInv'
    BY <2>1, <2>2 DEF TablesInv, BatchInv
  <2>4. RowInv'
    BY <2>1, <2>2 DEF TablesInv, RowInv
  <2>5. ListInv'
    BY <2>1, <2>2 DEF TablesInv, ListInv
  <2> QED BY <2>3, <2>4, <2>5, <1>t DEF TablesInv
<1> QED
  BY <1>1, <1>2, <1>3, <1>t, FollowSteps DEF FollowsNext

LEMMA TablesInit == FollowsInit => TablesInv
<1> SUFFICES ASSUME FollowsInit PROVE TablesInv
  OBVIOUS
<1>1. FollowsTypeOK
  BY FollowsTypeInit
<1>2. Sent = {} /\ \A f : SentBy(f) = {}
  BY DEF FollowsInit, Sent, SentBy
<1>3. Cardinality(Sent) = 0
  BY <1>2, FS_EmptySet
<1>4. BatchInv
  BY <1>2, <1>3 DEF BatchInv, FollowsInit
<1>5. RowInv /\ ListInv
  BY <1>2 DEF RowInv, ListInv, Arrived, FollowsInit
<1> QED
  BY <1>1, <1>4, <1>5 DEF TablesInv

\* Were the follow of a fan's row buried, by an Unfollow that is later than it, the
\* row would be of that Unfollow or of one still later.
LEMMA TablesListed == TablesInv => FollowersListed
<1> SUFFICES ASSUME TablesInv, onTheWay = {}, NEW f \in Fans, IsFollowing(f)
             PROVE  follows[f] \in followers
  BY DEF FollowersListed
<1>t. "follows" \in BothTables /\ "followers" \in BothTables /\ FollowsTypeOK
  BY DEF BothTables, TablesInv
<1>1. /\ follows[f] \in SentBy(f) /\ removes[follows[f]] = Nobody
      /\ written[f] = writeTime[follows[f]]
  BY RowIsFollow DEF IsFollowing
<1>2. follows[f] \in followers \cup buried
  BY <1>1 DEF TablesInv, ListInv, Arrived, SentBy, Sent
<1>3. ASSUME follows[f] \in buried PROVE FALSE
  <2>1. PICK d \in FollowCalls : Arrived(d, "followers") /\ removes[d] = follows[f]
    BY <1>3 DEF TablesInv, ListInv
  <2>2. d \in Sent /\ removes[d] # Nobody
    BY <1>1, <2>1, FollowsAssumption DEF Arrived, SentBy, Sent
  <2>3. follows[f] \in SentBy(fan[d]) /\ writeTime[follows[f]] < writeTime[d]
    BY <2>1, <2>2 DEF TablesInv, BatchInv
  <2>4. d \in SentBy(f) /\ Arrived(d, "follows")
    BY <1>1, <2>2, <2>3 DEF SentBy, Arrived
  <2>5. writeTime[d] <= written[f]
    BY <2>4 DEF TablesInv, RowInv
  <2>6. writeTime[d] \in Nat /\ written[f] \in Nat
    BY <1>t DEF FollowsTypeOK
  <2> QED BY <1>1, <2>3, <2>5, <2>6
<1> QED
  BY <1>2, <1>3

\* A fan who has repeated nothing is a follower if the last batch was a Follow.
LastDecides ==
  \A f \in Fans \ repeated :
    /\ SentBy(f) = {} => f \notin follower
    /\ \A c \in SentBy(f) :
         (\A d \in SentBy(f) : writeTime[d] <= writeTime[c])
           => (f \in follower <=> removes[c] = Nobody)

\* The requests of fans in G that have yet to raise or lower the counters, and by
\* how much the counters are behind.
CallsAt(step, G) == {c \in FollowCalls : stage[c] = step /\ fan[c] \in G}
Due(G) == Cardinality(CallsAt("raise", G)) - Cardinality(CallsAt("lower", G))

CountsInv ==
  /\ \A f \in Fans \ repeated :
       following[f] + Due({f}) = IF f \in follower THEN 1 ELSE 0
  /\ repeated = {} => fanCount + Due(Fans) = Cardinality(follower)

FollowInv == TablesInv /\ LastDecides /\ CountsInv

\* The request c, of the fan f, goes from stage s to stage t.
Moves(c, f, s, t) ==
  /\ stage[c] = s /\ stage' = [stage EXCEPT ![c] = t]
  /\ fan'[c] = f /\ \A d \in FollowCalls \ {c} : fan'[d] = fan[d]
  /\ s \in {"raise", "lower"} => fan[c] = f

LEMMA CallsAtMoves ==
  ASSUME FollowsTypeOK, NEW c \in FollowCalls, NEW f \in Fans, NEW s, NEW t,
         Moves(c, f, s, t), NEW step \in {"raise", "lower"}, NEW G
  PROVE  /\ Cardinality(CallsAt(step, G)) \in Nat
         /\ f \notin G \/ (t = step <=> s = step)
              => CallsAt(step, G)' = CallsAt(step, G)
         /\ f \in G /\ t = step /\ s # step
              => Cardinality(CallsAt(step, G)') = Cardinality(CallsAt(step, G)) + 1
         /\ f \in G /\ t # step /\ s = step
              => Cardinality(CallsAt(step, G)') = Cardinality(CallsAt(step, G)) - 1
<1>1. IsFiniteSet(CallsAt(step, G))
  BY FS_Subset, FollowsAssumption DEF CallsAt
<1>2. Cardinality(CallsAt(step, G)) \in Nat
  BY <1>1, FS_CardinalityType
<1>3. /\ stage'[c] = t
      /\ \A d \in FollowCalls \ {c} : stage'[d] = stage[d]
  BY DEF FollowsTypeOK, Moves
<1>4. /\ CallsAt(step, G)' \ {c} = CallsAt(step, G) \ {c}
      /\ c \in CallsAt(step, G)' <=> t = step /\ f \in G
      /\ c \in CallsAt(step, G) <=> s = step /\ f \in G
  BY <1>3 DEF CallsAt, Moves
<1>5. ASSUME f \notin G \/ (t = step <=> s = step)
      PROVE  CallsAt(step, G)' = CallsAt(step, G)
  BY <1>4, <1>5
<1>6. ASSUME f \in G, t = step, s # step
      PROVE  Cardinality(CallsAt(step, G)') = Cardinality(CallsAt(step, G)) + 1
  <2>1. CallsAt(step, G)' = CallsAt(step, G) \cup {c} /\ c \notin CallsAt(step, G)
    BY <1>4, <1>6
  <2> QED BY <2>1, <1>1, FS_AddElement
<1>7. ASSUME f \in G, t # step, s = step
      PROVE  Cardinality(CallsAt(step, G)') = Cardinality(CallsAt(step, G)) - 1
  <2>1. CallsAt(step, G)' = CallsAt(step, G) \ {c} /\ c \in CallsAt(step, G)
    BY <1>4, <1>7
  <2> QED BY <2>1, <1>1, FS_RemoveElement
<1> QED
  BY <1>2, <1>5, <1>6, <1>7

\* How a request of f that moves on changes what is due for the fans in G.
LEMMA DueMoves ==
  ASSUME FollowsTypeOK, NEW c \in FollowCalls, NEW f \in Fans, NEW s, NEW t,
         Moves(c, f, s, t), NEW G
  PROVE  /\ Due(G) \in Int
         /\ f \notin G \/ {s, t} \cap {"raise", "lower"} = {} => Due(G)' = Due(G)
         /\ f \in G /\ s \notin {"raise", "lower"} =>
              (t = "raise" => Due(G)' = Due(G) + 1) /\ (t = "lower" => Due(G)' = Due(G) - 1)
         /\ f \in G /\ t \notin {"raise", "lower"} =>
              (s = "raise" => Due(G)' = Due(G) - 1) /\ (s = "lower" => Due(G)' = Due(G) + 1)
<1> DEFINE R == Cardinality(CallsAt("raise", G))
           L == Cardinality(CallsAt("lower", G))
<1>1. /\ R \in Nat
      /\ f \notin G \/ (t = "raise" <=> s = "raise") => R' = R
      /\ f \in G /\ t = "raise" /\ s # "raise" => R' = R + 1
      /\ f \in G /\ t # "raise" /\ s = "raise" => R' = R - 1
  <2>1. /\ Cardinality(CallsAt("raise", G)) \in Nat
        /\ f \notin G \/ (t = "raise" <=> s = "raise")
             => CallsAt("raise", G)' = CallsAt("raise", G)
        /\ f \in G /\ t = "raise" /\ s # "raise"
             => Cardinality(CallsAt("raise", G)') = Cardinality(CallsAt("raise", G)) + 1
        /\ f \in G /\ t # "raise" /\ s = "raise"
             => Cardinality(CallsAt("raise", G)') = Cardinality(CallsAt("raise", G)) - 1
    BY CallsAtMoves
  <2> QED BY <2>1
<1>2. /\ L \in Nat
      /\ f \notin G \/ (t = "lower" <=> s = "lower") => L' = L
      /\ f \in G /\ t = "lower" /\ s # "lower" => L' = L + 1
      /\ f \in G /\ t # "lower" /\ s = "lower" => L' = L - 1
  <2>1. /\ Cardinality(CallsAt("lower", G)) \in Nat
        /\ f \notin G \/ (t = "lower" <=> s = "lower")
             => CallsAt("lower", G)' = CallsAt("lower", G)
        /\ f \in G /\ t = "lower" /\ s # "lower"
             => Cardinality(CallsAt("lower", G)') = Cardinality(CallsAt("lower", G)) + 1
        /\ f \in G /\ t # "lower" /\ s = "lower"
             => Cardinality(CallsAt("lower", G)') = Cardinality(CallsAt("lower", G)) - 1
    BY CallsAtMoves
  <2> QED BY <2>1
<1>3. Due(G) = R - L /\ Due(G)' = R' - L'
  BY DEF Due
<1> HIDE DEF R, L
<1> DEFINE D == Due(G)
<1>4. D = R - L /\ D' = R' - L'
  BY <1>3
<1> HIDE DEF D
<1>5. D \in Int
  BY <1>1, <1>2, <1>4
<1>6. f \notin G \/ {s, t} \cap {"raise", "lower"} = {} => D' = D
  <2>1. f \notin G \/ (s \notin {"raise", "lower"} /\ t \notin {"raise", "lower"}) => R' = R /\ L' = L
    BY <1>1, <1>2
  <2> QED BY <2>1, <1>4
<1>7. f \in G /\ s \notin {"raise", "lower"} =>
        (t = "raise" => D' = D + 1) /\ (t = "lower" => D' = D - 1)
  BY <1>1, <1>2, <1>4
<1>8. f \in G /\ t \notin {"raise", "lower"} =>
        (s = "raise" => D' = D - 1) /\ (s = "lower" => D' = D + 1)
  BY <1>1, <1>2, <1>4
<1> QED
  BY <1>5, <1>6, <1>7, <1>8 DEF D

LEMMA FollowerCounted == FollowsTypeOK => IsFiniteSet(follower) /\ Cardinality(follower) \in Nat
BY FS_Subset, FS_CardinalityType, FollowsAssumption DEF FollowsTypeOK

\* A step of c, from the stage s to t, that leaves the counters of all but f alone:
\* f's are to be looked at only while f has repeated nothing.
LEMMA CountsStep ==
  ASSUME FollowsTypeOK, CountsInv, NEW c \in FollowCalls, NEW f \in Fans, NEW s, NEW t,
         Moves(c, f, s, t), repeated \subseteq repeated',
         \A g \in Fans \ {f} : following'[g] = following[g] /\ (g \in follower' <=> g \in follower),
         f \notin repeated' =>
           /\ following'[f] + Due({f})' = IF f \in follower' THEN 1 ELSE 0
           /\ repeated' = {} => fanCount' + Due(Fans)' = Cardinality(follower')
  PROVE  CountsInv'
<1>1. ASSUME NEW g \in Fans \ repeated', g # f
      PROVE  following'[g] + Due({g})' = IF g \in follower' THEN 1 ELSE 0
  <2>1. Due({g})' = Due({g})
    <3>1. f \notin {g}
      BY <1>1
    <3> QED BY <3>1, DueMoves
  <2> QED BY <1>1, <2>1 DEF CountsInv
<1> QED
  BY <1>1 DEF CountsInv

LEMMA CountsNext == FollowsTypeOK /\ CountsInv /\ [FollowsNext]_followVars => CountsInv'
<1> SUFFICES ASSUME FollowsTypeOK, CountsInv, [FollowsNext]_followVars PROVE CountsInv'
  OBVIOUS
<1>f. IsFiniteSet(follower) /\ Cardinality(follower) \in Nat
  BY FollowerCounted
<1>n. /\ fanCount \in Int /\ \A g \in Fans : following[g] \in Int
      /\ \A c \in FollowCalls : fan[c] \in Fans
  BY DEF FollowsTypeOK
<1>1. ASSUME NEW c \in FollowCalls, NEW f \in Fans, Follow(c, f) PROVE CountsInv'
  <2>1. /\ Moves(c, f, "new", "raise") /\ UNCHANGED <<following, fanCount>>
        /\ follower' = follower \cup {f}
        /\ repeated' = IF f \in follower THEN repeated \cup {f} ELSE repeated
    BY <1>1 DEF Follow, Advance, Repeats, tallies, Moves, FollowsTypeOK
  <2>2. /\ Due({f}) \in Int /\ Due({f})' = Due({f}) + 1
        /\ Due(Fans) \in Int /\ Due(Fans)' = Due(Fans) + 1
    <3>1. f \in {f} /\ f \in Fans
      OBVIOUS
    <3> QED BY <2>1, <3>1, DueMoves
  <2>3. ASSUME f \notin repeated'
        PROVE  f \notin repeated /\ f \notin follower /\ f \in follower' /\ repeated' = repeated
               /\ Cardinality(follower') = Cardinality(follower) + 1
    BY <2>1, <2>3, <1>f, FS_AddElement
  <2>4. ASSUME f \notin repeated' PROVE following'[f] + Due({f})' = IF f \in follower' THEN 1 ELSE 0
    <3>1. following[f] + Due({f}) = 0
      BY <2>3, <2>4 DEF CountsInv
    <3> QED BY <2>1, <2>2, <2>3, <2>4, <3>1, <1>n
  <2>5. ASSUME repeated' = {} PROVE fanCount' + Due(Fans)' = Cardinality(follower')
    <3>1. f \notin repeated'
      BY <2>5
    <3>2. fanCount + Due(Fans) = Cardinality(follower)
      BY <2>5, <3>1, <2>3 DEF CountsInv
    <3> QED BY <3>1, <3>2, <2>1, <2>2, <2>3, <1>n, <1>f
  <2> QED BY <2>1, <2>4, <2>5, CountsStep
<1>2. ASSUME NEW c \in FollowCalls, RemoveFollow(c) PROVE CountsInv'
  <2>0. PICK f \in Fans : f = fan[c]
    BY <1>n
  <2>1. /\ Moves(c, f, "remove", "lower") /\ UNCHANGED <<following, fanCount>>
        /\ follower' = follower \ {f}
        /\ repeated' = IF f \notin follower THEN repeated \cup {f} ELSE repeated
    BY <2>0, <1>2 DEF RemoveFollow, Advance, Repeats, tallies, Moves
  <2>2. /\ Due({f}) \in Int /\ Due({f})' = Due({f}) - 1
        /\ Due(Fans) \in Int /\ Due(Fans)' = Due(Fans) - 1
    <3>1. f \in {f} /\ f \in Fans
      BY <2>0
    <3> QED BY <2>1, <3>1, DueMoves
  <2>3. ASSUME f \notin repeated'
        PROVE  f \notin repeated /\ f \in follower /\ f \notin follower' /\ repeated' = repeated
               /\ Cardinality(follower') = Cardinality(follower) - 1
    BY <2>1, <2>3, <1>f, FS_RemoveElement
  <2>4. ASSUME f \notin repeated' PROVE following'[f] + Due({f})' = IF f \in follower' THEN 1 ELSE 0
    <3>1. following[f] + Due({f}) = 1
      BY <2>0, <2>3, <2>4 DEF CountsInv
    <3> QED BY <2>0, <2>1, <2>2, <2>3, <2>4, <3>1, <1>n
  <2>5. ASSUME repeated' = {} PROVE fanCount' + Due(Fans)' = Cardinality(follower')
    <3>1. f \notin repeated'
      BY <2>5
    <3>2. fanCount + Due(Fans) = Cardinality(follower)
      BY <2>5, <3>1, <2>3 DEF CountsInv
    <3> QED BY <3>1, <3>2, <2>1, <2>2, <2>3, <1>n, <1>f
  <2> QED BY <2>0, <2>1, <2>4, <2>5, CountsStep
<1>3. ASSUME NEW c \in FollowCalls, MoveCounts(c) PROVE CountsInv'
  <2>f. PICK f \in Fans : f = fan[c]
    BY <1>n
  <2> DEFINE s == stage[c]
             m == IF s = "raise" THEN 1 ELSE -1
  <2>0. s \in {"raise", "lower"} /\ m \in Int /\ Moved(c) = m
    BY <1>3, <1>n DEF MoveCounts, Moved
  <2>1. /\ Moves(c, f, s, "done") /\ UNCHANGED <<follower, repeated>>
        /\ following' = [following EXCEPT ![f] = @ + m] /\ fanCount' = fanCount + m
    BY <1>3, <2>f, <2>0 DEF MoveCounts, Advance, Moves
  <2>2. /\ Due({f}) \in Int /\ Due({f})' = Due({f}) - m
        /\ Due(Fans) \in Int /\ Due(Fans)' = Due(Fans) - m
    <3> HIDE DEF s
    <3>1. f \in {f} /\ f \in Fans
      BY <2>0
    <3>2. /\ Due({f}) \in Int /\ (s = "raise" => Due({f})' = Due({f}) - 1)
          /\ (s = "lower" => Due({f})' = Due({f}) + 1)
      BY <2>1, <3>1, DueMoves
    <3>3. /\ Due(Fans) \in Int /\ (s = "raise" => Due(Fans)' = Due(Fans) - 1)
          /\ (s = "lower" => Due(Fans)' = Due(Fans) + 1)
      BY <2>1, <3>1, DueMoves
    <3> QED BY <3>2, <3>3, <2>0
  <2>3. following'[f] = following[f] + m /\ \A g \in Fans \ {f} : following'[g] = following[g]
    BY <2>0, <2>1 DEF FollowsTypeOK
  <2> HIDE DEF s, m
  <2>4. ASSUME f \notin repeated' PROVE following'[f] + Due({f})' = IF f \in follower' THEN 1 ELSE 0
    <3>1. following[f] + Due({f}) = IF f \in follower THEN 1 ELSE 0
      BY <2>0, <2>1, <2>4 DEF CountsInv
    <3>2. following'[f] + Due({f})' = following[f] + Due({f})
      BY <2>0, <2>2, <2>3, <1>n
    <3> QED BY <2>1, <3>1, <3>2
  <2>5. ASSUME repeated' = {} PROVE fanCount' + Due(Fans)' = Cardinality(follower')
    <3>1. fanCount + Due(Fans) = Cardinality(follower)
      BY <2>1, <2>5 DEF CountsInv
    <3>2. fanCount' + Due(Fans)' = fanCount + Due(Fans)
      BY <2>0, <2>1, <2>2, <1>n
    <3> QED BY <2>1, <3>1, <3>2
  <2> QED BY <2>0, <2>1, <2>3, <2>4, <2>5, CountsStep
<1>4. ASSUME NEW c \in FollowCalls, MoveCountsFails(c) PROVE CountsInv'
  <2>0. PICK f \in Fans : f = fan[c]
    BY <1>n
  <2> DEFINE s == stage[c]
  <2>1. Moves(c, f, s, "done") /\ follower' = follower /\ repeated' = repeated \cup {f}
    BY <2>0, <1>4 DEF MoveCountsFails, Advance, Moves
  <2>2. \A g \in Fans \ {f} : following'[g] = following[g]
    BY <2>0, <1>4 DEF MoveCountsFails, FollowsTypeOK
  <2> HIDE DEF s
  <2>3. f \in repeated'
    BY <2>1
  <2> QED BY <2>0, <2>1, <2>2, <2>3, CountsStep
<1>5. ASSUME NEW c \in FollowCalls, NEW f \in Fans, BatchFails(c, f) PROVE CountsInv'
  <2> DEFINE s == stage[c]
  <2>1. /\ Moves(c, f, s, "done") /\ UNCHANGED <<following, fanCount>> /\ repeated' = repeated \cup {f}
        /\ follower' = follower \cup {f} \/ follower' = follower \ {f}
    BY <1>5 DEF BatchFails, Advance, Repeats, tallies, Moves, FollowsTypeOK
  <2> HIDE DEF s
  <2>2. f \in repeated' /\ \A g \in Fans \ {f} : g \in follower' <=> g \in follower
    BY <2>1
  <2> QED BY <2>1, <2>2, CountsStep
<1>6. ASSUME NEW c \in FollowCalls, NEW f \in Fans, FindFollow(c, f) PROVE CountsInv'
  <2> DEFINE t == IF follows[f] = Nobody THEN "done" ELSE "remove"
  <2>1. /\ Moves(c, f, "new", t) /\ UNCHANGED <<following, fanCount, follower, repeated>>
        /\ {"new", t} \cap {"raise", "lower"} = {}
    BY <1>6 DEF FindFollow, Advance, tallies, Moves, FollowsTypeOK
  <2> HIDE DEF t
  <2>2. Due({f})' = Due({f}) /\ Due(Fans)' = Due(Fans)
    BY <2>1, DueMoves
  <2>3. f \notin repeated' =>
           /\ following'[f] + Due({f})' = IF f \in follower' THEN 1 ELSE 0
           /\ repeated' = {} => fanCount' + Due(Fans)' = Cardinality(follower')
    BY <2>1, <2>2 DEF CountsInv
  <2> QED BY <2>1, <2>3, CountsStep
<1>7. ASSUME UNCHANGED <<following, fanCount, stage, fan, follower, repeated>> PROVE CountsInv'
  <2>1. \A G : Due(G)' = Due(G)
    BY <1>7 DEF Due, CallsAt
  <2> QED BY <1>7, <2>1 DEF CountsInv
<1>8. ASSUME NEW c \in FollowCalls, ArriveFollows(c) \/ ArriveFollowers(c) PROVE CountsInv'
  BY <1>7, <1>8 DEF ArriveFollows, ArriveFollowers, tallies
<1>9. CASE UNCHANGED followVars
  BY <1>7, <1>9 DEF followVars, tallies
<1> QED
  BY <1>1, <1>2, <1>3, <1>4, <1>5, <1>6, <1>8, <1>9 DEF FollowsNext

\* The batch of c, if one is logged, is the last of its fan f and decides; the
\* batches of the others are as they were.
LEMMA LastStep ==
  ASSUME TablesInv, LastDecides, NEW c \in FollowCalls, NEW f \in Fans, Logs(c) \/ Reads(c),
         fan'[c] = f \/ Reads(c), repeated \subseteq repeated',
         \A g \in Fans \ {f} : g \in follower' <=> g \in follower,
         f \notin repeated' =>
           \/ Logs(c) /\ (f \in follower' <=> removes[c] = Nobody)
           \/ Reads(c) /\ follower' = follower
  PROVE  LastDecides'
<1> SUFFICES ASSUME NEW g \in Fans \ repeated'
             PROVE  /\ SentBy(g)' = {} => g \notin follower'
                    /\ \A d \in SentBy(g)' :
                         (\A e \in SentBy(g)' : writeTime'[e] <= writeTime'[d])
                           => (g \in follower' <=> removes'[d] = Nobody)
  BY DEF LastDecides
<1>t. FollowsTypeOK
  BY DEF TablesInv
<1>o. /\ SentBy(g) = {} => g \notin follower
      /\ \A d \in SentBy(g) : (\A e \in SentBy(g) : writeTime[e] <= writeTime[d])
                                => (g \in follower <=> removes[d] = Nobody)
  BY DEF LastDecides
<1>1. CASE Reads(c) /\ (g # f \/ follower' = follower)
  <2>1. /\ g \in follower' <=> g \in follower
        /\ Sent' = Sent /\ writeTime' = writeTime
        /\ \A d \in Sent : d \in FollowCalls /\ fan'[d] = fan[d] /\ (removes'[d] = Nobody <=> removes[d] = Nobody)
    <3>1. /\ Sent' = Sent /\ writeTime' = writeTime
      BY <1>1 DEF Reads, Sent
    <3>2. ASSUME NEW d \in Sent PROVE d \in FollowCalls /\ fan'[d] = fan[d] /\ removes'[d] = removes[d]
      BY <1>1 DEF Reads, Sent
    <3> QED BY <1>1, <3>1, <3>2
  <2>2. SentBy(g)' = SentBy(g)
    BY <2>1 DEF SentBy
  <2> QED BY <1>o, <2>1, <2>2 DEF SentBy
<1>2. CASE Logs(c)
  <2>1. /\ Sent' = Sent \cup {c} /\ c \notin Sent /\ removes' = removes
        /\ \A d \in FollowCalls \ {c} : writeTime'[d] = writeTime[d]
        /\ \A d \in FollowCalls : writeTime[d] < writeTime'[c]
    BY <1>2, Logged DEF Logs, TablesInv
  <2>2. \A d \in Sent : d \in FollowCalls \ {c} /\ fan'[d] = fan[d] /\ writeTime'[d] = writeTime[d]
    BY <1>2, <2>1 DEF Logs, Sent
  <2>3. /\ fan'[c] # g => SentBy(g)' = SentBy(g)
        /\ fan'[c] = g => SentBy(g)' = SentBy(g) \cup {c}
    BY <2>1, <2>2 DEF SentBy
  <2>4. CASE fan'[c] # g /\ g # f
    <3>1. SentBy(g)' = SentBy(g) /\ (g \in follower' <=> g \in follower)
      BY <2>3, <2>4
    <3> QED BY <1>o, <2>1, <2>2, <3>1 DEF SentBy
  <2>5. CASE fan'[c] = g /\ g = f
    <3>1. SentBy(g)' = SentBy(g) \cup {c} /\ (g \in follower' <=> removes[c] = Nobody)
      BY <2>3, <2>5, <1>2, <2>1 DEF Logs, Reads, Sent, SendBatch
    <3>2. ASSUME NEW d \in SentBy(g)', d # c PROVE ~ (writeTime'[c] <= writeTime'[d])
      <4>1. d \in Sent /\ d \in FollowCalls
        BY <3>1, <3>2, <2>2 DEF SentBy
      <4>2. writeTime'[d] = writeTime[d] /\ writeTime[d] < writeTime'[c]
        BY <4>1, <2>1, <2>2
      <4>3. writeTime[d] \in Nat /\ writeTime'[c] \in Nat
        BY <4>1, <1>t, <1>2, Logged, SentFinite DEF FollowsTypeOK, Logs, TablesInv
      <4> QED BY <4>2, <4>3
    <3> QED BY <2>1, <3>1, <3>2
  <2>6. fan'[c] = g <=> g = f
    BY <1>2, <2>1 DEF Logs, Reads, Sent, SendBatch
  <2> QED BY <2>4, <2>5, <2>6
<1>3. f \notin repeated' /\ ~ Logs(c) => follower' = follower
  OBVIOUS
<1> QED
  BY <1>1, <1>2, <1>3

LEMMA LastNext == TablesInv /\ LastDecides /\ [FollowsNext]_followVars => LastDecides'
<1> SUFFICES ASSUME TablesInv, LastDecides, [FollowsNext]_followVars PROVE LastDecides'
  OBVIOUS
<1>t. FollowsTypeOK /\ FollowsTypeOK'
  BY FollowsTypeNext DEF TablesInv
<1>n. \A c \in FollowCalls :
        /\ fan[c] \in Fans /\ (stage[c] = "new" => removes[c] = Nobody)
        /\ stage[c] = "remove" => removes[c] # Nobody
  BY <1>t DEF TablesInv, BatchInv, FollowsTypeOK
<1>1. ASSUME NEW c \in FollowCalls, NEW f \in Fans, Follow(c, f) PROVE LastDecides'
  <2>1. /\ fan'[c] = f /\ follower' = follower \cup {f} /\ repeated \subseteq repeated'
        /\ removes[c] = Nobody
    BY <1>1, <1>t, <1>n DEF Follow, Repeats, FollowsTypeOK
  <2>2. Logs(c)
    BY <1>1, <1>t, FollowSteps
  <2> QED BY <2>1, <2>2, LastStep
<1>2. ASSUME NEW c \in FollowCalls, RemoveFollow(c) PROVE LastDecides'
  <2>0. PICK f \in Fans : f = fan[c]
    BY <1>n
  <2>1. /\ fan'[c] = f /\ follower' = follower \ {f} /\ repeated \subseteq repeated'
        /\ removes[c] # Nobody
    BY <1>2, <1>n, <2>0 DEF RemoveFollow, Repeats
  <2>2. Logs(c)
    BY <1>2, <1>t, FollowSteps
  <2> QED BY <2>1, <2>2, LastStep
<1>3. ASSUME NEW c \in FollowCalls, NEW f \in Fans, BatchFails(c, f) PROVE LastDecides'
  <2>1. /\ fan'[c] = f /\ repeated' = repeated \cup {f}
        /\ follower' = follower \cup {f} \/ follower' = follower \ {f}
    BY <1>3, <1>t DEF BatchFails, Repeats, FollowsTypeOK
  <2>2. Logs(c) \/ Reads(c)
    BY <1>3, <1>t, FollowSteps
  <2> QED BY <2>1, <2>2, LastStep
<1>4. ASSUME NEW c \in FollowCalls, NEW f \in Fans, FindFollow(c, f) PROVE LastDecides'
  <2>1. follower' = follower /\ repeated' = repeated
    BY <1>4 DEF FindFollow
  <2>2. Reads(c)
    BY <1>4, <1>t, FollowSteps
  <2> QED BY <2>1, <2>2, LastStep
<1>5. ASSUME NEW c \in FollowCalls, MoveCounts(c) \/ MoveCountsFails(c) PROVE LastDecides'
  <2>1. follower' = follower /\ repeated \subseteq repeated'
    BY <1>5 DEF MoveCounts, MoveCountsFails
  <2>2. Reads(c)
    BY <1>5, <1>t, FollowSteps
  <2>3. PICK f \in Fans : TRUE
    BY FollowsAssumption
  <2> QED BY <2>1, <2>2, <2>3, LastStep
<1>6. ASSUME UNCHANGED <<writeTime, fan, removes, follower, repeated>> PROVE LastDecides'
  <2>1. \A f : SentBy(f)' = SentBy(f)
    BY <1>6 DEF SentBy, Sent
  <2> QED BY <1>6, <2>1 DEF LastDecides
<1>7. ASSUME NEW c \in FollowCalls, ArriveFollows(c) \/ ArriveFollowers(c) PROVE LastDecides'
  BY <1>6, <1>7 DEF ArriveFollows, ArriveFollowers
<1>8. CASE UNCHANGED followVars
  BY <1>6, <1>8 DEF followVars
<1> QED
  BY <1>1, <1>2, <1>3, <1>4, <1>5, <1>7, <1>8 DEF FollowsNext

\* With all batches arrived, the row of a fan who has repeated nothing is of the last.
LEMMA RowIsLast ==
  ASSUME TablesInv, LastDecides, onTheWay = {}, NEW f \in Fans \ repeated
  PROVE  IsFollowing(f) <=> f \in follower
<1>t. FollowsTypeOK /\ \A c \in SentBy(f) : Arrived(c, "follows")
  BY DEF TablesInv, Arrived, SentBy
<1>1. \A c \in SentBy(f) : writeTime[c] <= written[f] /\ writeTime[c] \in Nat /\ writeTime[c] > 0
                           /\ c \in FollowCalls
  BY <1>t DEF TablesInv, RowInv, SentBy, Sent, FollowsTypeOK
<1>2. CASE written[f] = 0 /\ follows[f] = Nobody
  <2>1. SentBy(f) = {}
    BY <1>1, <1>2
  <2> QED BY <1>2, <2>1 DEF LastDecides, IsFollowing
<1>3. ASSUME NEW c \in SentBy(f), written[f] = writeTime[c], follows[f] = RowOf(c)
      PROVE  IsFollowing(f) <=> f \in follower
  <2>1. f \in follower <=> removes[c] = Nobody
    BY <1>1, <1>3 DEF LastDecides
  <2>2. follows[f] # Nobody <=> removes[c] = Nobody
    BY <1>1, <1>3, FollowsAssumption DEF RowOf
  <2> QED BY <2>1, <2>2 DEF IsFollowing
<1> QED
  BY <1>2, <1>3 DEF TablesInv, RowInv

LEMMA CountsExact == FollowInv => FollowCountsExact
<1> SUFFICES ASSUME FollowInv, Settled PROVE
      /\ \A f \in Fans \ repeated : following[f] = IF IsFollowing(f) THEN 1 ELSE 0
      /\ repeated = {} => fanCount = Cardinality({f \in Fans : IsFollowing(f)})
  BY DEF FollowCountsExact
<1>t. FollowsTypeOK
  BY DEF FollowInv, TablesInv
<1>1. \A G : Due(G) = 0
  <2>1. \A G : CallsAt("raise", G) = {} /\ CallsAt("lower", G) = {}
    BY DEF CallsAt, Settled
  <2>2. Cardinality({}) = 0
    BY FS_EmptySet
  <2> QED BY <2>1, <2>2 DEF Due
<1>2. \A f \in Fans \ repeated : IsFollowing(f) <=> f \in follower
  BY RowIsLast DEF FollowInv, Settled
<1>3. ASSUME NEW f \in Fans \ repeated PROVE following[f] = IF IsFollowing(f) THEN 1 ELSE 0
  <2>1. following[f] + Due({f}) = IF f \in follower THEN 1 ELSE 0
    BY DEF FollowInv, CountsInv
  <2>2. Due({f}) = 0 /\ following[f] \in Int
    BY <1>1, <1>t DEF FollowsTypeOK
  <2> QED BY <1>2, <2>1, <2>2
<1>4. ASSUME repeated = {} PROVE fanCount = Cardinality({f \in Fans : IsFollowing(f)})
  <2>1. fanCount + Due(Fans) = Cardinality(follower)
    BY <1>4 DEF FollowInv, CountsInv
  <2>2. Due(Fans) = 0 /\ fanCount \in Int
    BY <1>1, <1>t DEF FollowsTypeOK
  <2>3. {f \in Fans : IsFollowing(f)} = follower
    BY <1>2, <1>4, <1>t DEF FollowsTypeOK
  <2> QED BY <2>1, <2>2, <2>3
<1> QED
  BY <1>3, <1>4

LEMMA FollowInvInit == FollowsInit => FollowInv
<1> SUFFICES ASSUME FollowsInit PROVE FollowInv
  OBVIOUS
<1>1. TablesInv
  BY TablesInit
<1>2. LastDecides
  BY DEF FollowsInit, LastDecides, SentBy, Sent
<1>3. \A G : Due(G) = 0
  <2>1. \A G : CallsAt("raise", G) = {} /\ CallsAt("lower", G) = {}
    BY DEF CallsAt, FollowsInit
  <2>2. Cardinality({}) = 0
    BY FS_EmptySet
  <2> QED BY <2>1, <2>2 DEF Due
<1>4. CountsInv
  <2>1. Cardinality(follower) = 0
    BY FS_EmptySet DEF FollowsInit
  <2> QED BY <1>3, <2>1 DEF CountsInv, FollowsInit
<1> QED
  BY <1>1, <1>2, <1>4 DEF FollowInv

\* However follows and unfollows of a fan overlap, whatever fails and in whatever
\* order the parts of the batches arrive: once they have arrived, follows and
\* followers agree, and with no request under way the counters are exact for fans
\* who have repeated nothing.
THEOREM FollowTablesStayAgreed == FollowsSpec => []FollowTablesAgree
<1>1. FollowInv /\ [FollowsNext]_followVars => FollowInv'
  BY TablesNext, LastNext, CountsNext DEF FollowInv, TablesInv
<1>2. FollowInv => FollowTablesAgree
  BY TablesListed, CountsExact DEF FollowTablesAgree, FollowInv
<1> QED
  BY FollowInvInit, <1>1, <1>2, PTL DEF FollowsSpec

-----------------------------------------------------------------------------
(* The four parts side by side.                                            *)

\* A step of the composition is a step of one part and leaves the others alone.
LEMMA PartsNext ==
  [SideBySideNext]_allVars =>
    /\ [Next]_vars /\ [InboxNext]_inboxVars
    /\ [FollowsNext]_followVars /\ [PresenceNext]_presenceVars
BY Zenon DEF SideBySideNext, allVars

\* The composition is a behaviour of each of the four specifications: what the
\* theorems of this module and of LikesProofs say of a part holds in it.
THEOREM PartsKeepTheirSpecs ==
  SideBySide => Spec /\ InboxSpec /\ FollowsSpec /\ PresenceSpec
<1>1. SideBySideInit => Init /\ InboxInit /\ FollowsInit /\ PresenceInit
  BY DEF SideBySideInit
<1> QED
  BY <1>1, PartsNext, PTL DEF SideBySide, Spec, InboxSpec, FollowsSpec, PresenceSpec

\* All four parts stay well typed, whichever of them moves.
THEOREM CountersTypesCorrect == SideBySide => []AllTypesOK
<1>1. TypeOK /\ InboxTypeOK /\ FollowsTypeOK /\ PresenceTypeOK => AllTypesOK
  BY DEF AllTypesOK
<1> QED
  BY <1>1, PartsKeepTheirSpecs, TypeCorrect, InboxTypeCorrect, FollowsTypeCorrect,
     PresenceTypeCorrect, PTL
=============================================================================
