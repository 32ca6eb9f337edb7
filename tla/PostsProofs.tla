---------------------------- MODULE PostsProofs ----------------------------
(***************************************************************************)
(* Proofs about Posts, for any number of people, posts, requests, cells    *)
(* and page sizes, with every failure that Posts has: types, deletion,     *)
(* blocks, and the scroll, which repeats nothing and misses nothing.       *)
(***************************************************************************)
EXTENDS Posts, FiniteSetTheorems, WellFoundedInduction, TLAPS

\* r has called ExecuteBatch.
Begun(r) == pc[r] \in {"parts", "done"}

\* There was such a post, or its creation has begun.
Posted(p) == p \in Old \/ (p \in Requests /\ Begun(p) /\ kind[p] = "create")

\* The rows that the batch of r writes, and whether it makes or removes them.
TablesOf(k) ==
  IF k \in {"create", "delete"} THEN PostTables
  ELSE IF k \in {"block", "unblock"} THEN {"blocks", "blockedBy"} ELSE {"mutes"}
KeyOf(r) ==
  IF kind[r] = "create" THEN r
  ELSE IF kind[r] = "delete" THEN target[r] ELSE <<author[r], target[r]>>
RowsOf(r) == TablesOf(kind[r]) \X {KeyOf(r)}
Makes(r) == kind[r] \in {"create", "block", "mute"}

\* What a handler has found out when it was let through.
HandlerKnows ==
  \A r \in Requests : pc[r] # "idle" =>
    /\ kind[r] \in Kinds
    /\ pc[r] = "write" => kind[r] = "delete"
    /\ kind[r] = "delete" =>
         target[r] \in Ids /\ Posted(target[r]) /\ author[target[r]] = author[r]
    /\ kind[r] \notin {"create", "delete"} => target[r] \in Users
    /\ kind[r] \in {"block", "mute"} => target[r] # author[r]

\* Nothing is written of a post before its creation.
ClocksStart ==
  /\ now >= 1
  /\ \A p \in Ids : IF Posted(p) THEN clock[p] >= 1 /\ created[p] >= 1 ELSE clock[p] = 0

\* What a batch has under way, and what it has left behind: a row that is
\* as late as the batch, or later.  Creations are first.
BatchesLand ==
  \A r \in Requests :
    /\ pc[r] # "parts" => left[r] = {}
    /\ Begun(r) =>
         /\ left[r] \subseteq RowsOf(r)
         /\ stamp[r] >= 1
         /\ kind[r] = "create" => stamp[r] = 1
         /\ kind[r] = "delete" => stamp[r] >= 2
         /\ \A w \in RowsOf(r) \ left[r] : cell[w].at >= stamp[r]

\* A row is what one batch has written, or was there to begin with.
Written(w) ==
  \E r \in Requests : /\ Begun(r) /\ w \in RowsOf(r)
                      /\ cell[w].at = stamp[r] /\ (cell[w].live <=> Makes(r))
RowsHaveOrigin ==
  \A w \in Rows :
    /\ cell[w].live => cell[w].at >= 1
    /\ w \in PostTables \X Old => cell[w].at >= 1
    /\ cell[w].at >= 1 =>
         \/ w \in PostTables \X Old /\ cell[w].at = 1 /\ cell[w].live
         \/ Written(w)

StoreInv == TypeOK /\ HandlerKnows /\ ClocksStart /\ BatchesLand /\ RowsHaveOrigin

\* The scroll so far: what was shown is not older than the cursor, what
\* was read is.
Scrolling == reader.at \in {"cells", "user", "more"}
CursorBetween ==
  /\ ~reader.again
  /\ Scrolling => reader.limit \in Limits
  /\ reader.at = "user" => reader.of # None
  /\ \A p \in reader.shown \cup reader.got \cup reader.page : Posted(p)
  /\ reader.at = "idle" => reader.shown = {} /\ reader.cursor = 0
  /\ Scrolling => /\ reader.cursor = 0 => reader.shown = {}
                  /\ \A p \in reader.shown : created[p] >= reader.cursor
  /\ \A p \in reader.got : reader.cursor = 0 \/ created[p] < reader.cursor

\* Who is barred is among those left out, and not on the page.
BarredLeftOut ==
  reader.of = None /\ ~reader.blind =>
    /\ reader.at = "cells" => reader.barred \subseteq reader.excluded
    /\ \A p \in reader.page : author[p] \notin reader.barred

IInv == StoreInv /\ CursorBetween /\ BarredLeftOut

-----------------------------------------------------------------------------
(* Facts about numbers and about the rows.                                 *)

\* The least of some numbers is one of them, and none is below it.
LEMMA MinIsLeast ==
  ASSUME NEW S \in SUBSET Nat, S # {}
  PROVE  Min(S) \in S /\ \A y \in S : Min(S) =< y
<1> DEFINE Less == {ss \in Nat \X Nat : ss[1] < ss[2]}
<1>1. IsWellFoundedOn(Less, Nat)
  BY NatLessThanWellFounded DEF OpToRel
<1>2. PICK x \in S : \A y \in S : <<y, x>> \notin Less
  <2> HIDE DEF Less
  <2> QED
    BY <1>1, WFMin, Zenon
<1>3. ASSUME NEW y \in S PROVE x =< y
  <2>1. ~(y < x)
    <3>1. <<y, x>> \in Less <=> <<y, x>> \in Nat \X Nat /\ <<y, x>>[1] < <<y, x>>[2]
      BY Zenon
    <3> QED
      BY <1>2, <3>1
  <2> QED
    BY <2>1
<1> QED
  BY <1>3 DEF Min

\* Only posts have rows in the tables of posts, and only pairs elsewhere.
LEMMA RowKeys ==
  /\ \A t \in PostTables : \A k : <<t, k>> \in Rows <=> k \in Ids
  /\ \A t \in {"blocks", "blockedBy", "mutes"} : \A k : <<t, k>> \in Rows <=> k \in Pairs
  /\ PostTables \cap {"blocks", "blockedBy", "mutes"} = {}
  /\ \A k : TablesOf(k) \subseteq PostTables \/ TablesOf(k) \cap PostTables = {}
BY DEF Rows, PostTables, TablesOf

\* A batch writes rows that there are, of a post or a pair.
LEMMA RowsOfBatch ==
  ASSUME TypeOK, HandlerKnows, NEW r \in Requests, pc[r] # "idle"
  PROVE  /\ RowsOf(r) \subseteq Rows
         /\ KeyOf(r) \in Ids \cup Pairs
BY DEF TypeOK, HandlerKnows, RowsOf, KeyOf, TablesOf, Rows, Ids, Pairs, PostTables, Kinds

\* A post that can be seen in some table has been posted.
LEMMA VisibleIsPosted ==
  ASSUME StoreInv, NEW t \in PostTables, NEW p \in Visible(t)
  PROVE  p \in Ids /\ Posted(p)
<1>1. p \in Ids /\ <<t, p>> \in Rows /\ cell[<<t, p>>].live
  BY DEF Visible, Keys, Rows
<1>2. CASE p \in Old
  BY <1>1, <1>2 DEF Posted
<1>3. CASE p \notin Old
  <2>1. PICK r \in Requests : Begun(r) /\ <<t, p>> \in RowsOf(r) /\ Makes(r)
    BY <1>1, <1>3 DEF StoreInv, RowsHaveOrigin, Written
  <2>2. kind[r] = "create" /\ p = r
    BY <2>1, <1>1 DEF RowsOf, TablesOf, KeyOf, Makes, PostTables
  <2> QED
    BY <1>1, <2>1, <2>2 DEF Posted
<1> QED
  BY <1>2, <1>3

\* Nobody blocks or mutes themselves.
LEMMA PairsDiffer ==
  ASSUME StoreInv, NEW t \in {"blocks", "blockedBy", "mutes"}, NEW u, NEW x,
         <<u, x>> \in Visible(t)
  PROVE  u \in Users /\ x \in Users /\ u # x
<1>1. <<u, x>> \in Pairs /\ <<t, <<u, x>>>> \in Rows /\ cell[<<t, <<u, x>>>>].live
  BY DEF Visible, Keys, Rows, PostTables
<1>2. PICK r \in Requests : Begun(r) /\ <<t, <<u, x>>>> \in RowsOf(r) /\ Makes(r)
  BY <1>1 DEF StoreInv, RowsHaveOrigin, Written, PostTables
<1>3. kind[r] \notin {"create", "delete"} /\ <<u, x>> = <<author[r], target[r]>>
  BY <1>2 DEF RowsOf, TablesOf, KeyOf, PostTables
<1> QED
  BY <1>1, <1>2, <1>3 DEF StoreInv, HandlerKnows, Begun, Pairs, Makes

-----------------------------------------------------------------------------
(* What the invariant says of the rows of an answered request.             *)

\* A deletion that has begun comes after every creation.
LEMMA DeletionIsLast ==
  ASSUME StoreInv, NEW r \in Requests, pc[r] = "done", kind[r] = "delete",
         NEW t \in PostTables
  PROVE  target[r] \notin Visible(t)
<1> DEFINE w == <<t, target[r]>>
<1>1. w \in RowsOf(r) /\ w \in Rows /\ w \notin left[r]
  BY DEF StoreInv, HandlerKnows, BatchesLand, RowsOf, TablesOf, KeyOf, Rows
<1>2. cell[w].at >= stamp[r] /\ stamp[r] >= 2 /\ stamp[r] \in Nat /\ cell[w].at \in Nat
  BY <1>1 DEF StoreInv, BatchesLand, Begun, TypeOK
<1>3. ASSUME NEW s \in Requests, Begun(s), w \in RowsOf(s), Makes(s)
      PROVE  stamp[s] = 1
  BY <1>3, RowKeys DEF StoreInv, BatchesLand, RowsOf, TablesOf, Makes, PostTables
<1>4. ~cell[w].live
  BY <1>1, <1>2, <1>3 DEF StoreInv, RowsHaveOrigin, Written
<1> QED
  BY <1>4 DEF Visible

\* A row that someone has made is there unless someone has asked for its removal.
LEMMA RowStays ==
  ASSUME StoreInv, NEW w \in Rows, cell[w].at >= 1,
         \A r \in Requests : Begun(r) /\ w \in RowsOf(r) => Makes(r)
  PROVE  cell[w].live
BY DEF StoreInv, RowsHaveOrigin, Written

\* All rows of a batch that was answered are at least as late as it.
LEMMA AnsweredHasLanded ==
  ASSUME StoreInv, NEW r \in Requests, pc[r] = "done", NEW w \in RowsOf(r)
  PROVE  w \in Rows /\ cell[w].at >= 1
<1>1. w \in Rows
  BY RowsOfBatch DEF StoreInv
<1>2. cell[w].at >= stamp[r] /\ stamp[r] >= 1 /\ w \notin left[r]
  BY DEF StoreInv, BatchesLand, Begun
<1> QED
  BY <1>1, <1>2 DEF StoreInv, TypeOK

\* The rows of a post are there, for the only requests that would remove them are its author's.
LEMMA PostsThatStay == ASSUME StoreInv PROVE PostsStay
<1> SUFFICES ASSUME NEW p \in Ids, p \in Old \/ (kind[p] = "create" /\ pc[p] = "done"),
                    ~Asked("delete", author[p], p), NEW t \in PostTables
             PROVE  p \in Visible(t)
  BY DEF PostsStay
<1> DEFINE w == <<t, p>>
<1>1. w \in Rows
  BY DEF Rows
<1>2. cell[w].at >= 1
  <2>1. CASE p \in Old
    BY <1>1, <2>1 DEF StoreInv, RowsHaveOrigin
  <2>2. CASE p \in Requests /\ kind[p] = "create" /\ pc[p] = "done"
    <3>1. w \in RowsOf(p)
      BY <2>2 DEF RowsOf, TablesOf, KeyOf
    <3> QED
      BY <2>2, <3>1, AnsweredHasLanded
  <2> QED
    BY <2>1, <2>2 DEF Ids
<1>3. ASSUME NEW r \in Requests, Begun(r), w \in RowsOf(r) PROVE Makes(r)
  <2>1. kind[r] \in {"create", "delete"}
    BY <1>3 DEF RowsOf, TablesOf, PostTables
  <2>2. kind[r] # "delete"
    <3> SUFFICES ASSUME kind[r] = "delete" PROVE FALSE
      OBVIOUS
    <3>1. target[r] = p /\ author[p] = author[r]
      BY <1>3 DEF RowsOf, KeyOf, StoreInv, HandlerKnows, Begun
    <3> QED
      BY <3>1 DEF Asked
  <2> QED
    BY <2>1, <2>2 DEF Makes
<1> QED
  BY <1>1, <1>2, <1>3, RowStays DEF Visible, Keys

\* The rows of a block or mute that was answered, and that nobody asks to undo, are there.
LEMMA AnsweredBlockIsSeen ==
  ASSUME StoreInv, NEW r \in Requests, pc[r] = "done", NEW u, NEW x,
         author[r] = u, target[r] = x,
         \/ kind[r] = "block" /\ ~Asked("unblock", u, x)
         \/ kind[r] = "mute" /\ ~Asked("unmute", u, x),
         NEW t \in TablesOf(kind[r])
  PROVE  <<u, x>> \in Visible(t)
<1> DEFINE w == <<t, <<u, x>>>>
<1>1. w \in RowsOf(r)
  BY DEF RowsOf, KeyOf
<1>2. w \in Rows /\ cell[w].at >= 1
  BY <1>1, AnsweredHasLanded
<1>3. ASSUME NEW s \in Requests, Begun(s), w \in RowsOf(s) PROVE Makes(s)
  <2>1. kind[s] \in Kinds /\ t \in TablesOf(kind[s]) /\ KeyOf(s) = <<u, x>>
    BY <1>3 DEF RowsOf, StoreInv, HandlerKnows, Begun
  <2>2. kind[s] \notin {"create", "delete"}
    BY <2>1 DEF TablesOf, PostTables
  <2>3. author[s] = u /\ target[s] = x
    BY <2>1, <2>2 DEF KeyOf
  <2> QED
    BY <2>1, <2>2, <2>3 DEF Makes, Asked, Kinds, TablesOf
<1>4. cell[w].live
  BY <1>2, <1>3, RowStays
<1>5. t \notin PostTables /\ <<u, x>> \in Pairs
  <2>1. t \in {"blocks", "blockedBy", "mutes"} /\ t \notin PostTables
    BY DEF TablesOf, PostTables
  <2> QED
    BY <1>2, <2>1, RowKeys
<1> QED
  BY <1>4, <1>5 DEF Visible, Keys

\* Whoever must not be seen is among those that the three reads return.
LEMMA BarredAreExcluded == ASSUME StoreInv PROVE Barred \subseteq Excluded
<1> SUFFICES ASSUME NEW a \in Barred PROVE a \in Excluded
  OBVIOUS
<1>1. a \in Users
  BY DEF Barred
<1>2. CASE Done("block", Viewer, a) /\ ~Asked("unblock", Viewer, a)
  <2>1. PICK r \in Requests : /\ pc[r] = "done" /\ kind[r] = "block"
                              /\ author[r] = Viewer /\ target[r] = a
    BY <1>2 DEF Done
  <2>2. "blocks" \in TablesOf(kind[r])
    BY <2>1 DEF TablesOf
  <2> QED
    BY <1>1, <1>2, <2>1, <2>2, AnsweredBlockIsSeen DEF Excluded
<1>3. CASE Done("block", a, Viewer) /\ ~Asked("unblock", a, Viewer)
  <2>1. PICK r \in Requests : /\ pc[r] = "done" /\ kind[r] = "block"
                              /\ author[r] = a /\ target[r] = Viewer
    BY <1>3 DEF Done
  <2>2. "blockedBy" \in TablesOf(kind[r])
    BY <2>1 DEF TablesOf
  <2> QED
    BY <1>1, <1>3, <2>1, <2>2, AnsweredBlockIsSeen DEF Excluded
<1>4. CASE Done("mute", Viewer, a) /\ ~Asked("unmute", Viewer, a)
  <2>1. PICK r \in Requests : /\ pc[r] = "done" /\ kind[r] = "mute"
                              /\ author[r] = Viewer /\ target[r] = a
    BY <1>4 DEF Done
  <2>2. "mutes" \in TablesOf(kind[r])
    BY <2>1 DEF TablesOf
  <2> QED
    BY <1>1, <1>4, <2>1, <2>2, AnsweredBlockIsSeen DEF Excluded
<1> QED
  BY <1>2, <1>3, <1>4 DEF Barred

-----------------------------------------------------------------------------
(* The client's steps change nothing but the scroll.                       *)

ReaderInv == reader \in Scroll /\ CursorBetween /\ BarredLeftOut

\* A page has at least one post.
LEMMA LimitsPositive == ASSUME NEW n \in Limits PROVE n \in Nat /\ n >= 1
BY PostsAssumption

\* Nobody is left out of their own feed.
LEMMA ExcludedAreOthers == ASSUME StoreInv PROVE Excluded \in SUBSET (Users \ {Viewer})
<1> SUFFICES ASSUME NEW a \in Excluded PROVE a \in Users \ {Viewer}
  OBVIOUS
<1>1. PICK t \in {"blocks", "blockedBy", "mutes"} :
        <<Viewer, a>> \in Visible(t) \/ <<a, Viewer>> \in Visible(t)
  BY DEF Excluded
<1> QED
  BY <1>1, PairsDiffer

\* Asking for a page puts the barred among the excluded, unless the reads fail.
LEMMA AskKeeps ==
  ASSUME IInv, NEW of \in Authors \cup {None}, NEW n \in Limits, NEW base \in SUBSET Ids,
         reader.at \in {"idle", "more"}, Ask(of, n, base), UNCHANGED <<batches, request, pc>>
  PROVE  ReaderInv'
<1> USE DEF IInv
<1>1. reader \in Scroll
  BY DEF StoreInv, TypeOK
<1>2. PICK some \in IF of = None THEN ExcludedAsRead ELSE {{}} :
        reader' = [reader EXCEPT
          !.at = IF of = None THEN "cells" ELSE "user", !.of = of, !.limit = n,
          !.base = base, !.page = {}, !.barred = Barred, !.todo = 1,
          !.excluded = some, !.ever = @ \cup some,
          !.blind = @ \/ (of = None /\ some # Excluded)]
  BY DEF Ask
<1>3. some \in SUBSET (Users \ {Viewer})
  BY ExcludedAreOthers DEF ExcludedAsRead
<1>4. Barred \in SUBSET Users /\ Barred \subseteq Excluded
  BY BarredAreExcluded DEF Barred
<1>5. 1 \in 0..Len(Cells)
  <2>1. Cells # <<>> /\ Cells \in Seq(Range(Cells))
    BY PostsAssumption DEF Range
  <2> QED
    BY <2>1
<1>6. reader' \in Scroll
  BY <1>1, <1>2, <1>3, <1>4, <1>5, PostsAssumption, ZenonT(60) DEF Scroll
<1>7. CursorBetween'
  BY <1>1, <1>2, PostsAssumption DEF Scroll, CursorBetween, Scrolling, Posted, Begun, batches, request
<1>8. BarredLeftOut'
  BY <1>1, <1>2, <1>4 DEF Scroll, BarredLeftOut, batches, request
<1> QED
  BY <1>6, <1>7, <1>8 DEF ReaderInv

\* The page that is answered is older than the cursor, and leaves the cursor below it.
LEMMA PagedKeeps ==
  ASSUME IInv, NEW ps \in SUBSET Ids, reader.at \in {"cells", "user"}, Paged(ps),
         \A p \in ps : Posted(p) /\ (reader.cursor = 0 \/ created[p] < reader.cursor),
         reader.at = "cells" => \A p \in ps : author[p] \notin reader.excluded,
         UNCHANGED <<batches, request, pc>>
  PROVE  ReaderInv'
<1> USE DEF IInv
<1>1. reader \in Scroll /\ reader.limit \in Nat /\ reader.limit >= 1
  BY LimitsPositive DEF StoreInv, TypeOK, CursorBetween, Scrolling
<1> DEFINE full == Cardinality(ps) > reader.limit
<1>2. PICK page \in Newest(ps, reader.limit) :
        reader' = [reader EXCEPT
          !.at = IF full THEN "more" ELSE "end",
          !.cursor = IF full THEN Min({created[p] : p \in page}) ELSE @,
          !.got = {}, !.excluded = {}, !.todo = 0,
          !.page = page, !.shown = @ \cup page, !.again = @ \/ page \cap reader.shown # {}]
  BY DEF Paged
<1>3. page \subseteq ps /\ page \in SUBSET Ids
  BY DEF Newest
<1>4. full => page # {}
  <2>1. IsFiniteSet(ps)
    BY FS_Subset, FS_Union, PostsAssumption DEF Ids
  <2>2. Cardinality(ps) \in Nat /\ Cardinality({}) = 0
    BY <2>1, FS_CardinalityType, FS_EmptySet
  <2>3. full => Cardinality(page) = reader.limit
    BY <2>2, <1>1 DEF Newest
  <2> QED
    BY <2>2, <2>3, <1>1
<1> DEFINE least == Min({created[p] : p \in page})
<1>5. \A p \in page : created[p] \in Nat /\ created[p] >= 1
  BY <1>3 DEF StoreInv, TypeOK, ClocksStart
<1>6. ASSUME full PROVE /\ least \in Nat /\ least >= 1
                        /\ \A p \in page : created[p] >= least
                        /\ reader.cursor # 0 => least < reader.cursor
  <2>1. {created[p] : p \in page} \in SUBSET Nat /\ {created[p] : p \in page} # {}
    BY <1>4, <1>5, <1>6
  <2>2. least \in {created[p] : p \in page} /\ \A y \in {created[p] : p \in page} : least =< y
    BY <2>1, MinIsLeast
  <2>3. \A p \in page : least =< created[p]
    BY <2>2
  <2>4. PICK p \in page : least = created[p]
    BY <2>2, SMTT(30)
  <2> QED
    BY <2>3, <2>4, <1>3, <1>5
<1> HIDE DEF full, least
<1>7. reader' \in Scroll
  <2>1. (IF full THEN least ELSE reader.cursor) \in Nat
    BY <1>1, <1>6 DEF Scroll
  <2>2. reader.shown \cup page \in SUBSET Ids
    BY <1>1, <1>3 DEF Scroll
  <2>3. (reader.again \/ page \cap reader.shown # {}) \in BOOLEAN
    OBVIOUS
  <2>4. 0 \in 0..Len(Cells)
    BY <1>1 DEF Scroll
  <2> QED
    BY <1>1, <1>2, <1>3, <2>1, <2>2, <2>3, <2>4 DEF Scroll, least
<1>8. page \cap reader.shown = {}
  <2> SUFFICES ASSUME NEW p \in page, p \in reader.shown PROVE FALSE
    OBVIOUS
  <2>1. reader.cursor # 0 /\ created[p] >= reader.cursor
    BY DEF CursorBetween, Scrolling
  <2>2. created[p] < reader.cursor
    BY <1>3, <2>1
  <2> QED
    BY <2>1, <2>2, <1>1, <1>5 DEF Scroll
<1>9. CursorBetween'
  <2>1. ~reader'.again /\ reader'.at \in {"more", "end"} /\ reader'.got = {}
    BY <1>1, <1>2, <1>8 DEF Scroll, CursorBetween
  <2>2. reader'.limit = reader.limit /\ reader.limit \in Limits
    BY <1>1, <1>2 DEF Scroll, CursorBetween, Scrolling
  <2>3. reader'.shown = reader.shown \cup page /\ reader'.page = page
    BY <1>1, <1>2 DEF Scroll
  <2>4. \A p \in reader'.shown \cup reader'.got \cup reader'.page : Posted(p)
    BY <2>1, <2>3, <1>3 DEF CursorBetween
  <2>5. reader'.at = "more" => /\ reader'.cursor # 0
                               /\ \A p \in reader'.shown : created[p] >= reader'.cursor
    <3> SUFFICES ASSUME full PROVE /\ reader'.cursor = least /\ least # 0
                                   /\ \A p \in reader'.shown : created[p] >= least
      BY <1>1, <1>2 DEF Scroll, least
    <3>1. reader'.cursor = least /\ least # 0
      BY <1>1, <1>2, <1>6 DEF Scroll, least
    <3>2. ASSUME NEW p \in reader.shown PROVE created[p] >= least
      <4>1. reader.cursor # 0 /\ created[p] >= reader.cursor
        BY DEF CursorBetween, Scrolling
      <4>2. created[p] \in Nat /\ reader.cursor \in Nat
        BY <1>1 DEF Scroll, StoreInv, TypeOK
      <4> QED
        BY <4>1, <4>2, <1>6
    <3> QED
      BY <3>1, <3>2, <1>6, <2>3
  <2> QED
    BY <2>1, <2>2, <2>4, <2>5 DEF CursorBetween, Scrolling, Posted, Begun, batches, request
<1>10. BarredLeftOut'
  <2> SUFFICES ASSUME reader.of = None, ~reader.blind, NEW p \in page
               PROVE  author[p] \notin reader.barred
    BY <1>1, <1>2 DEF Scroll, BarredLeftOut, batches, request
  <2>1. reader.at = "cells"
    BY DEF CursorBetween
  <2> QED
    BY <2>1, <1>3 DEF BarredLeftOut
<1> QED
  BY <1>7, <1>9, <1>10 DEF ReaderInv

\* What is read of a cell has been posted and is older than the cursor.
LEMMA CellIsUnread ==
  ASSUME IInv, NEW c, NEW ps \in NearIn(c)
  PROVE  /\ ps \in SUBSET Ids
         /\ \A p \in ps : Posted(p) /\ (reader.cursor = 0 \/ created[p] < reader.cursor)
<1>1. ps \subseteq Before({p \in Visible("byGeohash") : place[p][1] = c})
  BY DEF NearIn, Newest
<1>2. ps \subseteq Visible("byGeohash")
  BY <1>1 DEF Before
<1>3. \A p \in ps : p \in Ids /\ Posted(p)
  BY <1>2, VisibleIsPosted DEF IInv, PostTables
<1> QED
  BY <1>1, <1>3 DEF Before

\* Every step of the client and of the handler that answers it keeps what is said of the scroll.
LEMMA ReaderSteps ==
  ASSUME IInv, Read
  PROVE  ReaderInv' /\ UNCHANGED <<batches, request, pc>>
<1>1. \A of \in Authors \cup {None} : Listed(of) \in SUBSET Ids
  BY DEF Listed, Visible, Keys, PostTables
<1>2. CASE StartScroll
  BY <1>1, <1>2, AskKeeps DEF StartScroll
<1>3. CASE NextPage
  <2>1. reader.of \in Authors \cup {None} /\ reader.limit \in Limits /\ reader.base \in SUBSET Ids
    BY <1>3 DEF NextPage, IInv, StoreInv, TypeOK, Scroll, CursorBetween, Scrolling
  <2> QED
    BY <1>3, <2>1, AskKeeps DEF NextPage
<1>4. CASE ReadCell
  <2>1. reader \in Scroll /\ reader.at = "cells" /\ reader.todo + 1 \in 0..Len(Cells)
    BY <1>4 DEF ReadCell, IInv, StoreInv, TypeOK, Scroll
  <2>2. PICK ps \in NearIn(Cells[reader.todo]) :
          reader' = [reader EXCEPT !.todo = @ + 1, !.got = @ \cup ps]
    BY <1>4 DEF ReadCell
  <2>3. UNCHANGED <<batches, request, pc>>
    BY <1>4 DEF ReadCell
  <2>4. reader' \in Scroll
    <3>1. ps \in SUBSET Ids
      BY CellIsUnread
    <3>2. reader.got \cup ps \in SUBSET Ids
      BY <2>1, <3>1 DEF Scroll
    <3> QED
      BY <2>1, <2>2, <3>2 DEF Scroll
  <2>5. CursorBetween'
    BY <2>1, <2>2, <2>3, CellIsUnread
       DEF IInv, CursorBetween, Scroll, Scrolling, Posted, Begun, batches, request
  <2>6. BarredLeftOut'
    BY <2>1, <2>2, <2>3 DEF IInv, BarredLeftOut, Scroll, batches, request
  <2> QED
    BY <2>3, <2>4, <2>5, <2>6 DEF ReaderInv
<1>5. CASE GetFeed
  <2>1. PICK ps \in NearIn(Cells[reader.todo]) : \E newest \in Newest(reader.got \cup ps, Fetch) :
          Paged({p \in newest : author[p] \notin reader.excluded})
    BY <1>5 DEF GetFeed
  <2>2. PICK newest \in Newest(reader.got \cup ps, Fetch) :
          Paged({p \in newest : author[p] \notin reader.excluded})
    BY <2>1
  <2> DEFINE unbarred == {p \in newest : author[p] \notin reader.excluded}
  <2>3. unbarred \subseteq reader.got \cup ps
    BY DEF Newest
  <2>4. /\ reader.got \cup ps \in SUBSET Ids
        /\ \A p \in reader.got \cup ps :
             Posted(p) /\ (reader.cursor = 0 \/ created[p] < reader.cursor)
    BY CellIsUnread DEF IInv, StoreInv, TypeOK, Scroll, CursorBetween
  <2>5. \A p \in unbarred : author[p] \notin reader.excluded
    OBVIOUS
  <2> HIDE DEF unbarred
  <2> QED
    BY <1>5, <2>2, <2>3, <2>4, <2>5, PagedKeeps DEF GetFeed, unbarred
<1>6. CASE GetUserPosts
  <2>1. PICK ps \in Newest(Before(Listed(reader.of)), QueryLimit(reader.limit + 1)) : Paged(ps)
    BY <1>6 DEF GetUserPosts
  <2>2. reader.of \in Authors /\ reader.at = "user"
    BY <1>6 DEF GetUserPosts, IInv, CursorBetween, StoreInv, TypeOK, Scroll
  <2>3. ps \subseteq Visible("byUser")
    BY <2>2, PostsAssumption DEF Newest, Before, Listed
  <2>4. \A p \in ps : reader.cursor = 0 \/ created[p] < reader.cursor
    BY DEF Newest, Before
  <2>5. \A p \in ps : p \in Ids /\ Posted(p)
    BY <2>3, VisibleIsPosted DEF IInv, PostTables
  <2> QED
    BY <1>6, <2>1, <2>2, <2>4, <2>5, PagedKeeps DEF GetUserPosts
<1> QED
  BY <1>2, <1>3, <1>4, <1>5, <1>6 DEF Read

-----------------------------------------------------------------------------
(* The requests' steps leave alone what was posted.                        *)

\* Whatever a request does, a post stays posted, with its time and its author.
LEMMA PostsAreFixed ==
  ASSUME IInv, NEW r \in Requests, Handle(r)
  PROVE  /\ reader' = reader
         /\ \A p \in Ids : Posted(p) =>
              Posted(p)' /\ created'[p] = created[p] /\ author'[p] = author[p]
<1>1. CASE CreatePost(r)
  BY <1>1, PostsAssumption
     DEF CreatePost, Accept, Execute, Goto, Posted, Begun, Ids, IInv, StoreInv, TypeOK
<1>2. CASE DeletePost(r)
  BY <1>2, PostsAssumption
     DEF DeletePost, Accept, Goto, Posted, Begun, Ids, IInv, StoreInv, TypeOK, batches
<1>3. CASE DeleteRows(r)
  BY <1>3, PostsAssumption
     DEF DeleteRows, Execute, Goto, Posted, Begun, Ids, IInv, StoreInv, TypeOK, request
<1>4. ASSUME NEW k, NEW tables, Moderate(r, k, tables)
      PROVE  /\ reader' = reader
             /\ \A p \in Ids : Posted(p) =>
                  Posted(p)' /\ created'[p] = created[p] /\ author'[p] = author[p]
  BY <1>4, PostsAssumption
     DEF Moderate, Accept, Execute, Goto, Posted, Begun, Ids, IInv, StoreInv, TypeOK
<1>5. ASSUME NEW w \in left[r], Arrive(r, w)
      PROVE  /\ reader' = reader
             /\ \A p \in Ids : Posted(p) =>
                  Posted(p)' /\ created'[p] = created[p] /\ author'[p] = author[p]
  <2>1. Begun(r)
    BY DEF IInv, StoreInv, BatchesLand, Begun
  <2> QED
    BY <1>5, <2>1 DEF Arrive, Goto, Posted, Begun, IInv, StoreInv, TypeOK, request
<1> QED
  BY <1>1, <1>2, <1>3, <1>4, <1>5 DEF Handle, BlockUser, UnblockUser, MuteUser, UnmuteUser

\* So the requests cannot disturb the scroll either.
LEMMA HandleKeepsReader ==
  ASSUME IInv, NEW r \in Requests, Handle(r)
  PROVE  ReaderInv'
<1>1. reader' = reader /\ reader \in Scroll
  BY PostsAreFixed DEF IInv, StoreInv, TypeOK
<1>2. reader.shown \cup reader.got \cup reader.page \subseteq Ids
  BY <1>1 DEF Scroll
<1>3. \A p \in reader.shown \cup reader.got \cup reader.page :
        Posted(p)' /\ created'[p] = created[p] /\ author'[p] = author[p]
  BY <1>2, PostsAreFixed DEF IInv, CursorBetween
<1>4. CursorBetween'
  BY <1>1, <1>3 DEF IInv, CursorBetween, Scrolling
<1>5. BarredLeftOut'
  BY <1>1, <1>3 DEF IInv, BarredLeftOut
<1> QED
  BY <1>1, <1>4, <1>5 DEF ReaderInv

-----------------------------------------------------------------------------
(* The store keeps its invariant.                                          *)

\* ExecuteBatch counts up one clock and notes the rows to come.
LEMMA ExecuteKeepsTypes ==
  ASSUME TypeOK, NEW r \in Requests, NEW tables, NEW x \in Ids \cup Pairs,
         tables \X {x} \subseteq Rows, Execute(r, tables, x)
  PROVE  /\ clock' \in [Ids \cup Pairs -> Nat] /\ cell' \in [Rows -> [at: Nat, live: BOOLEAN]]
         /\ pc' \in [Requests -> {"idle", "write", "parts", "done"}]
         /\ stamp' \in [Requests -> Nat] /\ left' \in [Requests -> SUBSET Rows]
<1>1. clock' \in [Ids \cup Pairs -> Nat] /\ clock'[x] \in Nat
  BY DEF TypeOK, Execute
<1> QED
  BY <1>1 DEF TypeOK, Execute, Goto

\* Every step of a request keeps the types.
LEMMA HandleKeepsTypes ==
  ASSUME IInv, NEW r \in Requests, Handle(r)
  PROVE  TypeOK'
<1> USE DEF IInv, StoreInv
<1>1. CASE CreatePost(r)
  <2>1. r \in Ids /\ PostTables \X {r} \subseteq Rows
    BY DEF Ids, Rows
  <2>2. Execute(r, PostTables, r)
    BY <1>1 DEF CreatePost
  <2>3. now' \in Nat /\ created' \in [Ids -> Nat]
    <3>1. now' \in Nat /\ created' = [created EXCEPT ![r] = now']
      BY <1>1 DEF CreatePost, TypeOK
    <3> QED
      BY <3>1 DEF TypeOK
  <2>4. place' \in [Ids -> Places] /\ author' \in [Ids -> Users] /\ reader' = reader
    <3>1. PICK u \in Users : Accept(r, "create", u, r)
      BY <1>1 DEF CreatePost
    <3>2. PICK e \in Places : place' = [place EXCEPT ![r] = e]
      BY <1>1 DEF CreatePost
    <3> QED
      BY <3>1, <3>2 DEF Accept, TypeOK
  <2>5. kind' \in [Requests -> Kinds \cup {None}] /\ target' \in [Requests -> Ids \cup Users \cup {None}]
    BY <1>1, <2>1 DEF CreatePost, Accept, TypeOK, Kinds
  <2> QED
    BY <2>1, <2>2, <2>3, <2>4, <2>5, ExecuteKeepsTypes DEF TypeOK
<1>2. CASE DeletePost(r)
  <2>1. PICK u \in Users, p \in Ids : Accept(r, "delete", u, p)
    BY <1>2 DEF DeletePost
  <2>2. Goto(r, "write") /\ UNCHANGED <<batches, place, reader>>
    BY <1>2, <2>1 DEF DeletePost, Accept
  <2>3. /\ author' \in [Ids -> Users] /\ kind' \in [Requests -> Kinds \cup {None}]
        /\ target' \in [Requests -> Ids \cup Users \cup {None}]
    BY <2>1 DEF Accept, TypeOK, Kinds
  <2> QED
    BY <2>2, <2>3 DEF Goto, TypeOK, batches
<1>3. CASE DeleteRows(r)
  <2>1. target[r] \in Ids /\ PostTables \X {target[r]} \subseteq Rows
    BY <1>3 DEF DeleteRows, HandlerKnows, Rows
  <2>2. Execute(r, PostTables, target[r]) /\ UNCHANGED <<now, created, request, reader>>
    BY <1>3 DEF DeleteRows
  <2> QED
    BY <2>1, <2>2, ExecuteKeepsTypes DEF TypeOK, request
<1>4. ASSUME NEW k \in Kinds, NEW tables \in SUBSET {"blocks", "blockedBy", "mutes"},
             Moderate(r, k, tables)
      PROVE  TypeOK'
  <2>1. PICK u \in Users, x \in Users : Accept(r, k, u, x) /\ Execute(r, tables, <<u, x>>)
    BY <1>4 DEF Moderate
  <2>2. <<u, x>> \in Ids \cup Pairs /\ tables \X {<<u, x>>} \subseteq Rows
    <3>1. <<u, x>> \in Pairs
      BY DEF Pairs
    <3> QED
      BY <3>1 DEF Rows
  <2>3. UNCHANGED <<now, created, place, reader>>
    BY <1>4, <2>1 DEF Moderate, Accept
  <2>4. /\ author' \in [Ids -> Users] /\ kind' \in [Requests -> Kinds \cup {None}]
        /\ target' \in [Requests -> Ids \cup Users \cup {None}]
    BY <2>1 DEF Accept, TypeOK
  <2> QED
    BY <2>1, <2>2, <2>3, <2>4, ExecuteKeepsTypes DEF TypeOK
<1>5. ASSUME NEW w \in left[r], Arrive(r, w) PROVE TypeOK'
  <2>1. [at |-> stamp[r], live |-> kind[r] \in {"create", "block", "mute"}] \in [at: Nat, live: BOOLEAN]
    BY DEF TypeOK
  <2>2. cell' \in [Rows -> [at: Nat, live: BOOLEAN]]
    BY <1>5, <2>1 DEF Arrive, Merged, TypeOK
  <2>3. left' \in [Requests -> SUBSET Rows]
    BY <1>5 DEF Arrive, TypeOK
  <2>4. pc' \in [Requests -> {"idle", "write", "parts", "done"}]
    BY <1>5 DEF Arrive, Goto, TypeOK
  <2> QED
    BY <1>5, <2>2, <2>3, <2>4 DEF Arrive, TypeOK, request
<1> QED
  BY <1>1, <1>2, <1>3, <1>4, <1>5
     DEF Handle, BlockUser, UnblockUser, MuteUser, UnmuteUser, Kinds

\* A batch that starts has all its rows before it, and leaves the others alone.
LEMMA Starting ==
  ASSUME IInv, TypeOK', NEW r \in Requests, pc[r] \in {"idle", "write"},
         \A s \in Requests \ {r} :
           kind'[s] = kind[s] /\ target'[s] = target[s] /\ author'[s] = author[s],
         NEW x \in Ids \cup Pairs, x = KeyOf(r)', Execute(r, TablesOf(kind[r])', x),
         kind'[r] = "create" => clock[x] = 0,
         kind'[r] = "delete" => clock[x] >= 1
  PROVE  BatchesLand' /\ RowsHaveOrigin'
<1> USE DEF IInv, StoreInv
<1>1. /\ pc' = [pc EXCEPT ![r] = "parts"] /\ cell' = cell
      /\ left' = [left EXCEPT ![r] = RowsOf(r)']
      /\ stamp' = [stamp EXCEPT ![r] = clock[x] + 1]
  BY DEF Execute, Goto, RowsOf, TypeOK
<1>2. clock[x] \in Nat
  BY DEF TypeOK
<1>3. \A s \in Requests \ {r} :
        /\ RowsOf(s)' = RowsOf(s) /\ (Makes(s)' <=> Makes(s)) /\ kind'[s] = kind[s]
        /\ (Begun(s)' <=> Begun(s)) /\ pc'[s] = pc[s] /\ left'[s] = left[s] /\ stamp'[s] = stamp[s]
  BY <1>1 DEF RowsOf, KeyOf, Makes, Begun, TypeOK
<1>4. ~Begun(r) /\ pc'[r] = "parts" /\ left'[r] = RowsOf(r)' /\ stamp'[r] = clock[x] + 1
  BY <1>1 DEF Begun, TypeOK
<1>5. BatchesLand'
  <2> SUFFICES ASSUME NEW s \in Requests
      PROVE  /\ pc'[s] # "parts" => left'[s] = {}
             /\ Begun(s)' =>
                  /\ left'[s] \subseteq RowsOf(s)'
                  /\ stamp'[s] >= 1
                  /\ kind'[s] = "create" => stamp'[s] = 1
                  /\ kind'[s] = "delete" => stamp'[s] >= 2
                  /\ \A w \in RowsOf(s)' \ left'[s] : cell'[w].at >= stamp'[s]
    BY DEF BatchesLand
  <2>1. CASE s = r
    BY <1>2, <1>4, <2>1
  <2>2. CASE s # r
    BY <1>1, <1>3, <2>2 DEF BatchesLand
  <2> QED
    BY <2>1, <2>2
<1>6. RowsHaveOrigin'
  <2>1. \A w : Written(w) => Written(w)'
    <3> SUFFICES ASSUME NEW w, Written(w) PROVE Written(w)'
      OBVIOUS
    <3>1. PICK s \in Requests : /\ Begun(s) /\ w \in RowsOf(s)
                                /\ cell[w].at = stamp[s] /\ (cell[w].live <=> Makes(s))
      BY DEF Written
    <3>2. s \in Requests \ {r}
      BY <1>4, <3>1
    <3>3. /\ Begun(s)' /\ w \in RowsOf(s)'
          /\ cell'[w].at = stamp'[s] /\ (cell'[w].live <=> Makes(s)')
      BY <1>1, <1>3, <3>1, <3>2
    <3> QED
      BY <3>2, <3>3 DEF Written
  <2> QED
    BY <1>1, <2>1 DEF RowsHaveOrigin
<1> QED
  BY <1>5, <1>6

\* The request that is not r knows what it knew.
LEMMA OthersKnow ==
  ASSUME IInv, NEW r \in Requests, Handle(r),
         NEW s \in Requests, pc'[s] # "idle", pc[s] # "idle", pc'[s] = "write" => pc[s] = "write",
         kind'[s] = kind[s], target'[s] = target[s], author'[s] = author[s]
  PROVE  /\ kind'[s] \in Kinds
         /\ pc'[s] = "write" => kind'[s] = "delete"
         /\ kind'[s] = "delete" =>
              target'[s] \in Ids /\ Posted(target[s])' /\ author'[target'[s]] = author'[s]
         /\ kind'[s] \notin {"create", "delete"} => target'[s] \in Users
         /\ kind'[s] \in {"block", "mute"} => target'[s] # author'[s]
BY PostsAreFixed DEF IInv, StoreInv, HandlerKnows

\* A creation is the first write of its post.
LEMMA CreateKeeps ==
  ASSUME IInv, NEW r \in Requests, CreatePost(r)
  PROVE  HandlerKnows' /\ ClocksStart' /\ BatchesLand' /\ RowsHaveOrigin'
<1> USE DEF IInv, StoreInv
<1>1. Handle(r) /\ TypeOK'
  BY HandleKeepsTypes DEF Handle
<1>2. PICK u \in Users : Accept(r, "create", u, r)
  BY DEF CreatePost
<1>3. Execute(r, PostTables, r) /\ now' \in {now, now + 1} /\ created' = [created EXCEPT ![r] = now']
  BY DEF CreatePost
<1>4. /\ pc[r] = "idle" /\ kind'[r] = "create" /\ target'[r] = r /\ author'[r] = u
      /\ pc' = [pc EXCEPT ![r] = "parts"] /\ clock' = [clock EXCEPT ![r] = @ + 1]
      /\ \A s \in Requests \ {r} : /\ kind'[s] = kind[s] /\ target'[s] = target[s]
                                   /\ author'[s] = author[s] /\ pc'[s] = pc[s]
  BY <1>2, <1>3 DEF Accept, Execute, Goto, TypeOK, Ids
<1>5. r \in Ids /\ r \notin Old /\ ~Posted(r)
  BY <1>4, PostsAssumption DEF Ids, Posted, Begun
<1>6. HandlerKnows'
  <2> SUFFICES ASSUME NEW s \in Requests, pc'[s] # "idle"
      PROVE  /\ kind'[s] \in Kinds
             /\ pc'[s] = "write" => kind'[s] = "delete"
             /\ kind'[s] = "delete" =>
                  target'[s] \in Ids /\ Posted(target[s])' /\ author'[target'[s]] = author'[s]
             /\ kind'[s] \notin {"create", "delete"} => target'[s] \in Users
             /\ kind'[s] \in {"block", "mute"} => target'[s] # author'[s]
    BY DEF HandlerKnows
  <2>1. CASE s = r
    BY <1>1, <1>4, <2>1 DEF TypeOK, Kinds
  <2>2. CASE s # r
    BY <1>1, <1>4, <2>2, OthersKnow
  <2> QED
    BY <2>1, <2>2
<1>7. ClocksStart'
  <2>1. now \in Nat /\ now' \in Nat /\ now' >= 1
    BY <1>1, <1>3 DEF ClocksStart, TypeOK
  <2>2. Posted(r)' /\ clock'[r] >= 1 /\ created'[r] >= 1
    BY <1>3, <1>4, <1>5, <2>1 DEF Posted, Begun, ClocksStart, TypeOK
  <2>3. \A p \in Ids \ {r} : (Posted(p)' <=> Posted(p)) /\ clock'[p] = clock[p] /\ created'[p] = created[p]
    BY <1>3, <1>4 DEF Posted, Begun, TypeOK
  <2> QED
    BY <2>1, <2>2, <2>3 DEF ClocksStart
<1>8. BatchesLand' /\ RowsHaveOrigin'
  <2>1. KeyOf(r)' = r /\ TablesOf(kind[r])' = PostTables /\ clock[r] = 0
    BY <1>4, <1>5 DEF KeyOf, TablesOf, ClocksStart
  <2> QED
    BY <1>1, <1>3, <1>4, <1>5, <2>1, Starting
<1> QED
  BY <1>6, <1>7, <1>8

\* The read of a deletion finds a post that was posted, by the one who asks.
LEMMA DeletePostKeeps ==
  ASSUME IInv, NEW r \in Requests, DeletePost(r)
  PROVE  HandlerKnows' /\ ClocksStart' /\ BatchesLand' /\ RowsHaveOrigin'
<1> USE DEF IInv, StoreInv
<1>1. Handle(r)
  BY DEF Handle
<1>2. PICK u \in Users, p \in Ids : MayDelete(u, p) /\ Accept(r, "delete", u, p)
  BY DEF DeletePost
<1>3. UNCHANGED <<batches, place>> /\ Goto(r, "write")
  BY DEF DeletePost
<1>4. /\ pc[r] = "idle" /\ kind'[r] = "delete" /\ target'[r] = p /\ author'[r] = u /\ pc'[r] = "write"
      /\ \A s \in Requests \ {r} : /\ kind'[s] = kind[s] /\ target'[s] = target[s]
                                   /\ author'[s] = author[s] /\ pc'[s] = pc[s]
  BY <1>2, <1>3 DEF Accept, Goto, TypeOK, Ids
<1>5. Posted(p) /\ author[p] = u
  BY <1>2, VisibleIsPosted DEF MayDelete, PostTables
<1>6. HandlerKnows'
  <2> SUFFICES ASSUME NEW s \in Requests, pc'[s] # "idle"
      PROVE  /\ kind'[s] \in Kinds
             /\ pc'[s] = "write" => kind'[s] = "delete"
             /\ kind'[s] = "delete" =>
                  target'[s] \in Ids /\ Posted(target[s])' /\ author'[target'[s]] = author'[s]
             /\ kind'[s] \notin {"create", "delete"} => target'[s] \in Users
             /\ kind'[s] \in {"block", "mute"} => target'[s] # author'[s]
    BY DEF HandlerKnows
  <2>1. CASE s = r
    BY <1>1, <1>4, <1>5, <2>1, PostsAreFixed DEF Kinds
  <2>2. CASE s # r
    BY <1>1, <1>4, <2>2, OthersKnow
  <2> QED
    BY <2>1, <2>2
<1>7. \A s \in Requests : /\ (Begun(s)' <=> Begun(s)) /\ (pc'[s] = "parts" <=> pc[s] = "parts")
                          /\ Begun(s) => s # r
  BY <1>4 DEF Begun
<1>8. \A s \in Requests : Begun(s) =>
        /\ kind'[s] = kind[s] /\ RowsOf(s)' = RowsOf(s) /\ (Makes(s)' <=> Makes(s))
  BY <1>4, <1>7 DEF RowsOf, KeyOf, Makes
<1>9. ClocksStart'
  <2>1. \A q \in Ids : Posted(q)' <=> Posted(q)
    BY <1>7, <1>8 DEF Posted
  <2> QED
    BY <1>3, <2>1 DEF ClocksStart, batches
<1>10. BatchesLand'
  BY <1>3, <1>7, <1>8 DEF BatchesLand, batches
<1>11. RowsHaveOrigin'
  <2>1. \A w : Written(w) => Written(w)'
    BY <1>3, <1>7, <1>8 DEF Written, batches
  <2> QED
    BY <1>3, <2>1 DEF RowsHaveOrigin, batches
<1> QED
  BY <1>6, <1>9, <1>10, <1>11

\* The writes of a deletion are later than the creation.
LEMMA DeleteRowsKeeps ==
  ASSUME IInv, NEW r \in Requests, DeleteRows(r)
  PROVE  HandlerKnows' /\ ClocksStart' /\ BatchesLand' /\ RowsHaveOrigin'
<1> USE DEF IInv, StoreInv
<1>1. Handle(r) /\ TypeOK'
  BY HandleKeepsTypes DEF Handle
<1>2. /\ pc[r] = "write" /\ Execute(r, PostTables, target[r])
      /\ kind' = kind /\ target' = target /\ author' = author /\ now' = now /\ created' = created
  BY DEF DeleteRows, request
<1>3. kind[r] = "delete" /\ target[r] \in Ids /\ Posted(target[r])
  BY <1>2 DEF HandlerKnows
<1>4. /\ pc' = [pc EXCEPT ![r] = "parts"] /\ clock' = [clock EXCEPT ![target[r]] = @ + 1]
  BY <1>2 DEF Execute, Goto
<1>5. HandlerKnows'
  <2>1. \A s \in Requests : /\ pc'[s] # "idle" => pc[s] # "idle"
                            /\ pc'[s] = "write" => pc[s] = "write"
    BY <1>2, <1>4 DEF TypeOK
  <2> QED
    BY <1>1, <1>2, <2>1, OthersKnow DEF HandlerKnows
<1>6. ClocksStart'
  <2>1. \A p \in Ids : Posted(p)' <=> Posted(p)
    BY <1>2, <1>3, <1>4 DEF Posted, Begun, TypeOK
  <2>2. clock[target[r]] \in Nat /\ clock[target[r]] >= 1
    BY <1>3 DEF ClocksStart, TypeOK
  <2> QED
    BY <1>2, <1>3, <1>4, <2>1, <2>2 DEF ClocksStart, TypeOK
<1>7. BatchesLand' /\ RowsHaveOrigin'
  <2>1. KeyOf(r)' = target[r] /\ TablesOf(kind[r])' = PostTables /\ clock[target[r]] >= 1
    BY <1>2, <1>3 DEF KeyOf, TablesOf, ClocksStart
  <2> QED
    BY <1>1, <1>2, <1>3, <2>1, Starting
<1> QED
  BY <1>5, <1>6, <1>7

\* A block or mute writes rows of a pair, and of no post.
LEMMA ModerateKeeps ==
  ASSUME IInv, NEW r \in Requests, Handle(r), NEW k \in Kinds \ {"create", "delete"},
         Moderate(r, k, TablesOf(k))
  PROVE  HandlerKnows' /\ ClocksStart' /\ BatchesLand' /\ RowsHaveOrigin'
<1> USE DEF IInv, StoreInv
<1>1. TypeOK'
  BY HandleKeepsTypes
<1>2. PICK u \in Users, x \in Users :
        MayTarget(k, u, x) /\ Accept(r, k, u, x) /\ Execute(r, TablesOf(k), <<u, x>>)
  BY DEF Moderate
<1>3. now' = now /\ created' = created
  BY DEF Moderate
<1>4. /\ pc[r] = "idle" /\ kind'[r] = k /\ target'[r] = x /\ author'[r] = u
      /\ k \in {"block", "mute"} => u # x
      /\ pc' = [pc EXCEPT ![r] = "parts"] /\ clock' = [clock EXCEPT ![<<u, x>>] = @ + 1]
      /\ \A s \in Requests \ {r} : /\ kind'[s] = kind[s] /\ target'[s] = target[s]
                                   /\ author'[s] = author[s] /\ pc'[s] = pc[s]
  BY <1>2 DEF Accept, Execute, Goto, TypeOK, Ids, MayTarget
<1>5. <<u, x>> \in Pairs /\ <<u, x>> \notin Ids
  BY PostsAssumption DEF Pairs, Ids
<1>6. HandlerKnows'
  <2> SUFFICES ASSUME NEW s \in Requests, pc'[s] # "idle"
      PROVE  /\ kind'[s] \in Kinds
             /\ pc'[s] = "write" => kind'[s] = "delete"
             /\ kind'[s] = "delete" =>
                  target'[s] \in Ids /\ Posted(target[s])' /\ author'[target'[s]] = author'[s]
             /\ kind'[s] \notin {"create", "delete"} => target'[s] \in Users
             /\ kind'[s] \in {"block", "mute"} => target'[s] # author'[s]
    BY DEF HandlerKnows
  <2>1. CASE s = r
    BY <1>4, <2>1 DEF TypeOK
  <2>2. CASE s # r
    BY <1>4, <2>2, OthersKnow
  <2> QED
    BY <2>1, <2>2
<1>7. ClocksStart'
  <2>1. \A p \in Ids : Posted(p)' <=> Posted(p)
    BY <1>4 DEF Posted, Begun, TypeOK
  <2>2. \A p \in Ids : clock'[p] = clock[p]
    BY <1>4, <1>5 DEF TypeOK
  <2> QED
    BY <1>3, <2>1, <2>2 DEF ClocksStart
<1>8. BatchesLand' /\ RowsHaveOrigin'
  <2>1. KeyOf(r)' = <<u, x>> /\ TablesOf(kind[r])' = TablesOf(k)
    BY <1>4 DEF KeyOf, TablesOf
  <2> QED
    BY <1>1, <1>2, <1>4, <1>5, <2>1, Starting
<1> QED
  BY <1>6, <1>7, <1>8

\* A row takes what arrives if it is later, and is then what that batch has written.
LEMMA ArriveKeeps ==
  ASSUME IInv, NEW r \in Requests, NEW w \in left[r], Arrive(r, w)
  PROVE  HandlerKnows' /\ ClocksStart' /\ BatchesLand' /\ RowsHaveOrigin'
<1> USE DEF IInv, StoreInv
<1>1. Handle(r)
  BY DEF Handle
<1>2. UNCHANGED <<clock, now, created, stamp, request, reader>>
  BY DEF Arrive
<1>3. pc[r] = "parts" /\ Begun(r) /\ w \in Rows /\ w \in RowsOf(r)
  BY DEF BatchesLand, Begun, TypeOK
<1>4. left' = [left EXCEPT ![r] = @ \ {w}]
  BY DEF Arrive
<1>5. IF left'[r] = {} THEN pc' = [pc EXCEPT ![r] = "done"] ELSE pc' = pc
  BY DEF Arrive, Goto
<1>6. \A s \in Requests : /\ (Begun(s)' <=> Begun(s)) /\ RowsOf(s)' = RowsOf(s)
                          /\ (Makes(s)' <=> Makes(s)) /\ stamp'[s] = stamp[s]
                          /\ (pc'[s] = "idle" <=> pc[s] = "idle") /\ (pc'[s] = "write" <=> pc[s] = "write")
  BY <1>2, <1>3, <1>5 DEF Begun, RowsOf, KeyOf, Makes, request, TypeOK
<1> DEFINE new == [at |-> stamp[r], live |-> kind[r] \in {"create", "block", "mute"}]
<1>7. /\ cell'[w] = IF new.at > cell[w].at THEN new ELSE cell[w]
      /\ \A v \in Rows \ {w} : cell'[v] = cell[v]
  BY <1>3 DEF Arrive, Merged, TypeOK
<1>8. /\ stamp[r] \in Nat /\ stamp[r] >= 1 /\ cell[w].at \in Nat
      /\ \A v \in Rows : cell[v].at \in Nat
  BY <1>3 DEF BatchesLand, TypeOK
<1>9. /\ cell'[w].at >= stamp[r]
      /\ \A v \in Rows : cell'[v].at >= cell[v].at /\ cell'[v].at \in Nat
  BY <1>7, <1>8
<1>10. HandlerKnows'
  BY <1>1, <1>2, <1>6, OthersKnow DEF HandlerKnows, request
<1>11. ClocksStart'
  <2>1. \A p \in Ids : Posted(p)' <=> Posted(p)
    BY <1>2, <1>6 DEF Posted, request
  <2> QED
    BY <1>2, <2>1 DEF ClocksStart
<1>12. BatchesLand'
  <2> SUFFICES ASSUME NEW s \in Requests
      PROVE  /\ pc'[s] # "parts" => left'[s] = {}
             /\ Begun(s)' =>
                  /\ left'[s] \subseteq RowsOf(s)'
                  /\ stamp'[s] >= 1
                  /\ kind'[s] = "create" => stamp'[s] = 1
                  /\ kind'[s] = "delete" => stamp'[s] >= 2
                  /\ \A v \in RowsOf(s)' \ left'[s] : cell'[v].at >= stamp'[s]
    BY DEF BatchesLand
  <2>1. pc'[s] # "parts" => left'[s] = {}
    BY <1>3, <1>4, <1>5 DEF BatchesLand, TypeOK
  <2>2. left'[s] \subseteq left[s] /\ \A v \in left[s] \ left'[s] : v = w /\ s = r
    BY <1>4 DEF TypeOK
  <2>3. ASSUME Begun(s), NEW v \in RowsOf(s) \ left'[s] PROVE cell'[v].at >= stamp[s]
    <3>1. v \in Rows /\ stamp[s] \in Nat
      BY <2>3, RowsOfBatch DEF Begun, TypeOK
    <3>2. CASE v \in left[s]
      BY <1>9, <2>2, <2>3, <3>2
    <3>3. CASE v \notin left[s]
      <4>1. cell[v].at >= stamp[s]
        BY <2>3, <3>3 DEF BatchesLand
      <4> QED
        BY <1>8, <1>9, <3>1, <4>1
    <3> QED
      BY <3>2, <3>3
  <2> QED
    BY <1>2, <1>6, <2>1, <2>2, <2>3 DEF BatchesLand, request
<1>13. RowsHaveOrigin'
  <2>1. ASSUME NEW v \in Rows, cell'[v] = cell[v], Written(v) PROVE Written(v)'
    BY <1>6, <2>1 DEF Written
  <2>2. ASSUME NEW v \in Rows, cell'[v] = cell[v]
        PROVE  /\ cell'[v].live => cell'[v].at >= 1
               /\ v \in PostTables \X Old => cell'[v].at >= 1
               /\ cell'[v].at >= 1 =>
                    \/ v \in PostTables \X Old /\ cell'[v].at = 1 /\ cell'[v].live
                    \/ Written(v)'
    BY <2>1, <2>2 DEF RowsHaveOrigin
  <2>3. ASSUME cell'[w] = new PROVE cell'[w].at >= 1 /\ Written(w)'
    <3>1. cell'[w].at = stamp'[r] /\ (cell'[w].live <=> Makes(r)')
      <4>1. new.at = stamp[r] /\ (new.live <=> Makes(r))
        BY Zenon DEF Makes
      <4> HIDE DEF new
      <4> QED
        BY <1>6, <2>3, <4>1
    <3> QED
      BY <1>3, <1>6, <1>8, <3>1 DEF Written
  <2> QED
    BY <1>7, <2>2, <2>3 DEF RowsHaveOrigin
<1> QED
  BY <1>10, <1>11, <1>12, <1>13

-----------------------------------------------------------------------------
(* The invariant holds.                                                    *)

\* The old posts are rows that were there to begin with; nothing else is.
LEMMA InitIsThere == Init => IInv
<1> SUFFICES ASSUME Init PROVE IInv
  OBVIOUS
<1> USE DEF Init
<1>1. Cardinality(Old) \in Nat /\ Cardinality(Old) >= 1
  BY PostsAssumption, FS_CardinalityType, FS_EmptySet
<1>2. PICK f \in [Old -> Users] : author = [p \in Ids |-> IF p \in Old THEN f[p] ELSE Viewer]
  OBVIOUS
<1>3. PICK e \in [Old -> Places] :
        place = [p \in Ids |-> IF p \in Old THEN e[p] ELSE CHOOSE d \in Places : TRUE]
  OBVIOUS
<1>4. \A p \in Old : created[p] \in 1..Cardinality(Old)
  OBVIOUS
<1>5. TypeOK
  <2>1. author \in [Ids -> Users] /\ place \in [Ids -> Places]
    BY <1>2, <1>3, PostsAssumption
  <2>2. created \in [Ids -> Nat] /\ now \in Nat
    BY <1>1
  <2>3. reader \in Scroll
    <3>1. 0 \in 0..Len(Cells)
      BY PostsAssumption
    <3> QED
      BY <3>1 DEF Scroll
  <2> QED
    BY <2>1, <2>2, <2>3 DEF TypeOK
<1>6. \A p \in Ids : Posted(p) <=> p \in Old
  BY DEF Posted, Begun
<1>7. HandlerKnows /\ BatchesLand
  BY DEF HandlerKnows, BatchesLand, Begun
<1>8. ClocksStart
  BY <1>1, <1>4, <1>6 DEF ClocksStart, Ids
<1>9. RowsHaveOrigin
  BY DEF RowsHaveOrigin
<1>10. CursorBetween /\ BarredLeftOut
  BY DEF CursorBetween, BarredLeftOut, Scrolling
<1> QED
  BY <1>5, <1>7, <1>8, <1>9, <1>10 DEF IInv, StoreInv

\* Each step belongs to the client or to one request.
LEMMA NextKeeps == IInv /\ [Next]_vars => IInv'
<1> SUFFICES ASSUME IInv, [Next]_vars PROVE IInv'
  OBVIOUS
<1>1. ASSUME UNCHANGED <<batches, request, pc>> PROVE /\ HandlerKnows' /\ ClocksStart'
                                                      /\ BatchesLand' /\ RowsHaveOrigin'
  <2>1. \A r \in Requests : /\ (Begun(r)' <=> Begun(r)) /\ RowsOf(r)' = RowsOf(r)
                            /\ (Makes(r)' <=> Makes(r))
    BY <1>1 DEF Begun, RowsOf, KeyOf, Makes, request
  <2>2. \A p : Posted(p)' <=> Posted(p)
    BY <1>1, <2>1 DEF Posted, request
  <2>3. \A w : Written(w)' <=> Written(w)
    BY <1>1, <2>1 DEF Written, batches
  <2> QED
    BY <1>1, <2>1, <2>2, <2>3
       DEF IInv, StoreInv, HandlerKnows, ClocksStart, BatchesLand, RowsHaveOrigin, batches, request
<1>2. ASSUME Read PROVE IInv'
  <2>1. ReaderInv' /\ UNCHANGED <<batches, request, pc>>
    BY <1>2, ReaderSteps
  <2>2. TypeOK'
    BY <2>1 DEF ReaderInv, IInv, StoreInv, TypeOK, batches, request
  <2> QED
    BY <1>1, <2>1, <2>2 DEF ReaderInv, IInv, StoreInv
<1>3. ASSUME NEW r \in Requests, Handle(r) PROVE IInv'
  <2>1. HandlerKnows' /\ ClocksStart' /\ BatchesLand' /\ RowsHaveOrigin'
    <3>1. ASSUME NEW k \in Kinds \ {"create", "delete"}, Moderate(r, k, TablesOf(k))
          PROVE  HandlerKnows' /\ ClocksStart' /\ BatchesLand' /\ RowsHaveOrigin'
      BY <1>3, <3>1, ModerateKeeps
    <3>2. CASE BlockUser(r) \/ UnblockUser(r) \/ MuteUser(r) \/ UnmuteUser(r)
      BY <3>1, <3>2 DEF BlockUser, UnblockUser, MuteUser, UnmuteUser, TablesOf, Kinds
    <3> QED
      BY <1>3, <3>2, CreateKeeps, DeletePostKeeps, DeleteRowsKeeps, ArriveKeeps DEF Handle
  <2>2. TypeOK' /\ ReaderInv'
    BY <1>3, HandleKeepsTypes, HandleKeepsReader
  <2> QED
    BY <2>1, <2>2 DEF IInv, StoreInv, ReaderInv
<1>4. ASSUME UNCHANGED vars PROVE IInv'
  <2>1. UNCHANGED <<batches, request, pc>> /\ reader' = reader
    BY <1>4 DEF vars
  <2>2. TypeOK'
    BY <2>1 DEF IInv, StoreInv, TypeOK, batches, request
  <2>3. \A p : (Posted(p)' <=> Posted(p)) /\ created' = created /\ author' = author
    BY <2>1 DEF Posted, Begun, batches, request
  <2>4. CursorBetween' /\ BarredLeftOut'
    BY <2>1, <2>3 DEF IInv, CursorBetween, BarredLeftOut, Scrolling
  <2> QED
    BY <1>1, <2>1, <2>2, <2>4 DEF IInv, StoreInv
<1> QED
  BY <1>2, <1>3, <1>4 DEF Next

\* The inductive invariant holds in every state that the service reaches.
THEOREM PostsInvariant == Spec => []IInv
<1> QED
  BY InitIsThere, NextKeeps, PTL DEF Spec

\* All variables have their types: among them, nobody blocks or mutes themselves, and
\* the cursor of a page is the time of some post.
THEOREM PostsTypeCorrect == Spec => []TypeOK
<1>1. IInv => TypeOK
  BY DEF IInv, StoreInv
<1> QED
  BY <1>1, PostsInvariant, PTL

\* DeletePost: once it is answered the post is in none of its three tables, whatever of
\* its creation arrives after.
THEOREM DeletedPostsAreGone == Spec => []DeletedIsGone
<1>1. IInv => DeletedIsGone
  BY DeletionIsLast DEF IInv, DeletedIsGone
<1> QED
  BY <1>1, PostsInvariant, PTL

\* CreatePost: an answered post is in all three tables until its author deletes it.
THEOREM AnsweredPostsStay == Spec => []PostsStay
<1>1. IInv => PostsStay
  BY PostsThatStay DEF IInv
<1> QED
  BY <1>1, PostsInvariant, PTL

\* GetFeed, GetUserPosts: the cursor makes no page repeat an earlier one.
THEOREM PagesDoNotRepeat == Spec => []ShownOnce
<1>1. IInv => ShownOnce
  BY DEF IInv, CursorBetween, ShownOnce
<1> QED
  BY <1>1, PostsInvariant, PTL

\* GetFeed: nobody on a page was blocked or muted, on either side, when it was asked for.
THEOREM BarredAreUnseen == Spec => []BarredUnseen
<1>1. IInv => BarredUnseen
  BY DEF IInv, BarredLeftOut, BarredUnseen
<1> QED
  BY <1>1, PostsInvariant, PTL
-----------------------------------------------------------------------------
(* A scroll that is repeated to the end misses nothing.                    *)

\* Nothing has a time before it is posted.
TimesStart == \A p \in Ids : ~Posted(p) => created[p] = 0

\* What NothingMissed supposes, as far as the scroll has come.
Bounded ==
  /\ Distinct
  /\ IF reader.of = None
       THEN /\ Widest <= MaxLimit /\ Cardinality(Hidden) <= reader.limit
            /\ \A c \in Range(Cells) : Cardinality(Far(c)) <= reader.limit + 1
       ELSE reader.limit + 1 <= MaxLimit

\* What was in the list when the scroll began has had a row.
TableOf(of) == IF of = None THEN "byGeohash" ELSE "byUser"
BaseHasRows == \A p \in reader.base : cell[<<TableOf(reader.of), p>>].at >= 1

\* What the client must be shown: what has been in the list all the time, but for those
\* who were left out.
Sought == {p \in reader.base \cap Listed(reader.of) :
             reader.of = None => author[p] \notin reader.ever}

\* It has been shown down to the cursor.
SeenAbove ==
  Scrolling => \A p \in Sought :
    reader.cursor # 0 /\ created[p] >= reader.cursor => p \in reader.shown

\* Below the cursor, what is near in the first n cells is among what was got, or that
\* has enough posts as new.
Outdone(p, got) ==
  \E t \in SUBSET got : Cardinality(t) >= Fetch /\ \A q \in t : created[q] >= created[p]
Reached(got, n) ==
  \A p \in Sought :
    /\ reader.cursor = 0 \/ created[p] < reader.cursor
    /\ \E i \in 1..n : Cells[i] = place[p][1]
    => p \in got \/ Outdone(p, got)
CellsRead == reader.at = "cells" => Reached(reader.got, reader.todo - 1)

\* Who is left out of this page has been left out of some.
Remembers ==
  /\ reader.at = "cells" => reader.of = None /\ reader.todo >= 1
  /\ reader.excluded \subseteq reader.ever

ScrollInv ==
  /\ TimesStart /\ BaseHasRows /\ Remembers
  /\ Bounded => SeenAbove /\ CellsRead
  /\ NothingMissed

\* The posts are finitely many.
LEMMA IdsAreFinite == ASSUME NEW ps \in SUBSET Ids
                      PROVE  IsFiniteSet(ps) /\ Cardinality(ps) \in Nat
BY PostsAssumption, FS_Union, FS_Subset, FS_CardinalityType DEF Ids

\* The newest n are all, or n that are as new as the others.
LEMMA NewestTake ==
  ASSUME NEW ps \in SUBSET Ids, NEW n \in Nat, NEW t \in Newest(ps, n)
  PROVE  /\ t \in SUBSET Ids /\ t \subseteq ps /\ Cardinality(t) \in Nat
         /\ Cardinality(ps) \in Nat /\ Cardinality(t) <= n
         /\ n <= Cardinality(ps) => Cardinality(t) = n
         /\ \A p \in ps \ t : /\ Cardinality(t) = n /\ n < Cardinality(ps)
                              /\ \A q \in t : created[q] >= created[p]
<1>1. t \in SUBSET Ids /\ t \subseteq ps
  BY DEF Newest
<1>2. /\ IsFiniteSet(ps) /\ Cardinality(ps) \in Nat /\ Cardinality(t) \in Nat
      /\ Cardinality(t) = IF Cardinality(ps) < n THEN Cardinality(ps) ELSE n
      /\ \A p \in t, q \in ps \ t : created[p] >= created[q]
  BY <1>1, IdsAreFinite DEF Newest
<1>3. Cardinality(t) = Cardinality(ps) => t = ps
  BY <1>1, <1>2, FS_Subset
<1> QED
  BY <1>1, <1>2, <1>3

\* Every post that has a time has been posted; it keeps its time, author and place.
LEMMA PlacesAreFixed ==
  ASSUME IInv, NEW r \in Requests, Handle(r), NEW p \in Ids, Posted(p)
  PROVE  place'[p] = place[p]
<1>1. CASE CreatePost(r)
  <2>1. pc[r] = "idle" /\ \E e \in Places : place' = [place EXCEPT ![r] = e]
    BY <1>1 DEF CreatePost, Accept
  <2>2. p # r
    BY <2>1, PostsAssumption DEF Posted, Begun
  <2> QED
    BY <2>1, <2>2 DEF IInv, StoreInv, TypeOK
<1>2. ASSUME NEW k, NEW tables, Moderate(r, k, tables) PROVE place'[p] = place[p]
  BY <1>2 DEF Moderate
<1> QED
  BY <1>1, <1>2 DEF Handle, DeletePost, DeleteRows, Arrive, BlockUser, UnblockUser, MuteUser,
     UnmuteUser, request

\* A request gives a time to no post but its own.
LEMMA TimesKeep ==
  ASSUME IInv, TimesStart, NEW r \in Requests, Handle(r)
  PROVE  TimesStart'
<1> SUFFICES ASSUME NEW p \in Ids, ~Posted(p)' PROVE created'[p] = 0
  BY DEF TimesStart
<1>1. ~Posted(p) /\ created[p] = 0
  BY PostsAreFixed DEF TimesStart
<1>2. CASE CreatePost(r)
  <2>1. /\ pc' = [pc EXCEPT ![r] = "parts"] /\ kind' = [kind EXCEPT ![r] = "create"]
        /\ created' = [created EXCEPT ![r] = now']
    BY <1>2 DEF CreatePost, Accept, Execute, Goto
  <2>2. Posted(r)'
    BY <2>1 DEF Posted, Begun, IInv, StoreInv, TypeOK
  <2>3. p # r
    BY <2>2
  <2> QED
    BY <1>1, <2>1, <2>3 DEF IInv, StoreInv, TypeOK
<1>3. ASSUME NEW k, NEW tables, Moderate(r, k, tables) PROVE created' = created
  BY <1>3 DEF Moderate
<1> QED
  BY <1>1, <1>2, <1>3 DEF Handle, DeletePost, DeleteRows, Arrive, BlockUser, UnblockUser, MuteUser,
     UnmuteUser, batches

\* A row of a post that has been there does not come back.
LEMMA RowsDoNotReturn ==
  ASSUME IInv, NEW r \in Requests, Handle(r), NEW t \in PostTables, NEW p \in Ids,
         cell[<<t, p>>].at >= 1
  PROVE  cell'[<<t, p>>].at >= 1 /\ (cell'[<<t, p>>].live => cell[<<t, p>>].live)
<1> DEFINE w == <<t, p>>
<1>1. w \in Rows /\ cell[w].at \in Nat
  BY DEF Rows, IInv, StoreInv, TypeOK
<1>2. ASSUME NEW v \in left[r], Arrive(r, v)
      PROVE  cell'[w].at >= 1 /\ (cell'[w].live => cell[w].live)
  <2> DEFINE new == [at |-> stamp[r], live |-> kind[r] \in {"create", "block", "mute"}]
  <2>1. /\ Begun(r) /\ v \in RowsOf(r) /\ stamp[r] \in Nat
        /\ kind[r] = "create" => stamp[r] = 1
    BY <1>2 DEF IInv, StoreInv, BatchesLand, Begun, TypeOK
  <2>2. cell' = [cell EXCEPT ![v] = IF new.at > cell[v].at THEN new ELSE cell[v]]
    BY <1>2 DEF Arrive, Merged
  <2>3. CASE v # w
    BY <1>1, <2>2, <2>3 DEF IInv, StoreInv, TypeOK
  <2>4. CASE v = w
    <3>1. cell'[w] = IF new.at > cell[w].at THEN new ELSE cell[w]
      BY <1>1, <2>2, <2>4 DEF IInv, StoreInv, TypeOK
    <3>2. new.at = stamp[r] /\ (new.live => kind[r] \in {"create", "block", "mute"})
      BY Zenon
    <3>3. kind[r] \in {"create", "delete"}
      BY <2>1, <2>4 DEF RowsOf, TablesOf, PostTables
    <3> HIDE DEF new
    <3> QED
      BY <1>1, <2>1, <3>1, <3>2, <3>3
  <2> QED
    BY <2>3, <2>4
<1>3. ASSUME NEW k, NEW tables, Moderate(r, k, tables) PROVE cell' = cell
  BY <1>3 DEF Moderate, Execute
<1> QED
  BY <1>2, <1>3 DEF Handle, CreatePost, DeletePost, DeleteRows, Execute, BlockUser, UnblockUser, MuteUser,
     UnmuteUser, batches

\* What NothingMissed supposes of a later state of the scroll, it supposes of this one.
LEMMA BoundsWereThere ==
  ASSUME IInv, TypeOK', TimesStart,
         reader'.of = reader.of, reader'.limit = reader.limit, reader.ever \subseteq reader'.ever,
         \A p \in Ids : Posted(p) =>
           created'[p] = created[p] /\ author'[p] = author[p] /\ place'[p] = place[p],
         Bounded'
  PROVE  Bounded
<1>1. \A p \in Ids : created[p] # 0 =>
        created'[p] = created[p] /\ author'[p] = author[p] /\ place'[p] = place[p]
  BY DEF TimesStart
<1>2. Distinct
  BY <1>1 DEF Bounded, Distinct
<1>3. reader \in Scroll /\ reader' \in Scroll
  BY DEF IInv, StoreInv, TypeOK
<1>4. ASSUME reader.of = None
      PROVE  /\ Widest <= MaxLimit /\ Cardinality(Hidden) <= reader.limit
             /\ \A c \in Range(Cells) : Cardinality(Far(c)) <= reader.limit + 1
  <2>1. reader.limit \in Nat
    <3>1. reader.limit \in Limits \cup {0}
      BY <1>3 DEF Scroll
    <3> QED
      BY <3>1, LimitsPositive
  <2>2. Widest <= Widest' /\ Widest \in Nat /\ Widest' \in Nat
    BY <2>1 DEF Widest
  <2>3. Hidden \in SUBSET Ids /\ Hidden' \in SUBSET Ids /\ Hidden \subseteq Hidden'
    BY <1>1 DEF Hidden
  <2>4. Cardinality(Hidden) <= Cardinality(Hidden') /\ Cardinality(Hidden) \in Nat
        /\ Cardinality(Hidden') \in Nat
    BY <2>3, IdsAreFinite, FS_Subset
  <2>5. ASSUME NEW c \in Range(Cells) PROVE Cardinality(Far(c)) <= reader.limit + 1
    <3>1. Far(c) \in SUBSET Ids /\ Far(c)' \in SUBSET Ids /\ Far(c) \subseteq Far(c)'
      BY <1>1 DEF Far, Near
    <3>2. Cardinality(Far(c)) <= Cardinality(Far(c)') /\ Cardinality(Far(c)) \in Nat
          /\ Cardinality(Far(c)') \in Nat
      BY <3>1, IdsAreFinite, FS_Subset
    <3>3. Cardinality(Far(c)') <= reader.limit + 1
      BY <1>4 DEF Bounded
    <3> QED
      BY <2>1, <3>2, <3>3
  <2>6. Widest' <= MaxLimit /\ Cardinality(Hidden') <= reader.limit /\ MaxLimit \in Nat
    BY <1>4, PostsAssumption DEF Bounded
  <2> QED
    BY <2>1, <2>2, <2>4, <2>5, <2>6
<1> QED
  BY <1>2, <1>4 DEF Bounded

\* A query reads more than a page, and of everything twice as much where somebody is left out.
LEMMA FetchEnough ==
  ASSUME IInv, Remembers, Bounded, reader.at = "cells"
  PROVE  /\ reader.limit \in Nat /\ reader.limit >= 1 /\ Fetch \in Nat
         /\ Fetch = IF reader.excluded = {} THEN reader.limit + 1 ELSE 2 * reader.limit + 1
<1>1. reader.limit \in Nat /\ reader.limit >= 1 /\ MaxLimit \in Nat
  BY LimitsPositive, PostsAssumption DEF IInv, CursorBetween, Scrolling
<1>2. Widest <= MaxLimit /\ (reader.excluded # {} => reader.ever # {})
  BY DEF Bounded, Remembers
<1>3. reader.limit + 1 <= MaxLimit /\ (reader.excluded # {} => 2 * reader.limit + 1 <= MaxLimit)
  BY <1>1, <1>2 DEF Widest
<1> QED
  BY <1>1, <1>3 DEF Fetch, QueryLimit

\* The next cell: of what is near and below the cursor all is got, or enough as new.
LEMMA NextCellIsReached ==
  ASSUME IInv, Remembers, Bounded, CellsRead, reader.at = "cells",
         NEW ps \in NearIn(Cells[reader.todo])
  PROVE  Reached(reader.got \cup ps, reader.todo)
<1> DEFINE got == reader.got \cup ps
           c == Cells[reader.todo]
           there == Before({p \in Visible("byGeohash") : place[p][1] = c})
<1> SUFFICES ASSUME NEW p \in Sought, reader.cursor = 0 \/ created[p] < reader.cursor,
                    \E i \in 1..reader.todo : Cells[i] = place[p][1],
                    p \notin got
             PROVE  Outdone(p, got)
  BY DEF Reached
<1>1. reader \in Scroll /\ reader.of = None /\ reader.todo \in Nat /\ reader.todo >= 1
      /\ reader.todo <= Len(Cells) /\ Len(Cells) \in Nat
  BY PostsAssumption DEF IInv, StoreInv, TypeOK, Scroll, Remembers
<1>2. reader.limit \in Nat /\ reader.limit >= 1 /\ Fetch \in Nat /\ Fetch >= reader.limit + 1
  BY FetchEnough
<1>3. CASE \E i \in 1..(reader.todo - 1) : Cells[i] = place[p][1]
  <2>1. Outdone(p, reader.got)
    BY <1>3 DEF CellsRead, Reached
  <2> QED
    BY <2>1 DEF Outdone
<1>4. CASE place[p][1] = c
  <2>1. p \in Visible("byGeohash") /\ Near(p)
    BY <1>1 DEF Sought, Listed
  <2>2. p \in there
    BY <1>4, <2>1 DEF Before
  <2>3. PICK all \in Newest(there, CellLimit) : ps = {q \in all : Near(q)}
    BY DEF NearIn
  <2>4. p \notin all
    BY <2>1, <2>3
  <2>5. there \in SUBSET Ids /\ CellLimit \in Nat /\ CellLimit = 2 * Fetch
    BY <1>2 DEF Before, Visible, Keys, PostTables, CellLimit
  <2>6. /\ all \subseteq there /\ all \in SUBSET Ids /\ Cardinality(all) = CellLimit
        /\ \A q \in all : created[q] >= created[p]
    <3> HIDE DEF there
    <3> QED
      BY <2>2, <2>3, <2>4, <2>5, NewestTake
  <2>7. all \ ps \subseteq Far(c)
    <3> SUFFICES ASSUME NEW q \in all, ~Near(q) PROVE q \in Far(c)
      BY <2>3
    <3>1. q \in Visible("byGeohash") /\ place[q][1] = c
      BY <2>6 DEF Before
    <3>2. q \in Ids /\ Posted(q)
      BY <3>1, VisibleIsPosted DEF IInv, PostTables
    <3>3. created[q] # 0
      BY <3>2 DEF IInv, StoreInv, ClocksStart
    <3> QED
      BY <3>1, <3>2, <3>3 DEF Far
  <2>8. Cardinality(all \ ps) <= reader.limit + 1 /\ Cardinality(all \ ps) \in Nat
    <3>1. c \in Range(Cells)
      <4>1. DOMAIN Cells = 1..Len(Cells)
        BY PostsAssumption
      <4> QED
        BY <1>1, <4>1 DEF Range
    <3>2. Cardinality(Far(c)) <= reader.limit + 1
      BY <1>1, <3>1 DEF Bounded
    <3>3. Far(c) \in SUBSET Ids /\ all \ ps \in SUBSET Ids
      BY <2>6 DEF Far
    <3>4. Cardinality(all \ ps) <= Cardinality(Far(c))
      BY <2>7, <3>3, IdsAreFinite, FS_Subset
    <3> QED
      BY <1>2, <3>2, <3>3, <3>4, IdsAreFinite
  <2>9. Cardinality(ps) = Cardinality(all) - Cardinality(all \ ps) /\ Cardinality(ps) \in Nat
    <3>1. ps \subseteq all /\ IsFiniteSet(all) /\ ps \in SUBSET Ids
      BY <2>3, <2>6, IdsAreFinite
    <3>2. Cardinality(all \ ps) = Cardinality(all) - Cardinality(ps)
      <4>1. all \cap ps = ps
        BY <3>1
      <4> QED
        BY <3>1, <4>1, FS_Difference
    <3>3. Cardinality(all) \in Nat /\ Cardinality(ps) \in Nat
      BY <2>6, <3>1, IdsAreFinite
    <3> QED
      BY <2>8, <3>2, <3>3
  <2>10. Cardinality(ps) >= Fetch
    BY <1>2, <2>5, <2>6, <2>8, <2>9
  <2> QED
    BY <2>3, <2>6, <2>10 DEF Outdone
<1> QED
  <2>1. ASSUME NEW i \in 1..reader.todo PROVE i \in 1..(reader.todo - 1) \/ i = reader.todo
    BY <1>1
  <2> QED
    BY <1>3, <1>4, <2>1

\* A page that leaves out a post of its list has a cursor above it.
LEMMA PageOrBelow ==
  ASSUME IInv, Distinct, NEW kept \in SUBSET Ids, \A q \in kept : Posted(q),
         NEW n \in Nat, n >= 1, NEW page \in Newest(kept, n), NEW p \in Ids, Posted(p),
         p \in kept \/ (Cardinality(kept) > n /\ \A q \in kept : created[q] > created[p])
  PROVE  \/ p \in page
         \/ Cardinality(kept) > n /\ created[p] < Min({created[q] : q \in page})
<1> SUFFICES ASSUME p \notin page
             PROVE  Cardinality(kept) > n /\ created[p] < Min({created[q] : q \in page})
  OBVIOUS
<1>1. /\ page \subseteq kept /\ Cardinality(page) \in Nat /\ Cardinality(kept) \in Nat
      /\ n <= Cardinality(kept) => Cardinality(page) = n
      /\ \A q \in kept \ page : /\ Cardinality(page) = n /\ n < Cardinality(kept)
                                /\ \A s \in page : created[s] >= created[q]
  BY NewestTake
<1>2. \A q \in kept \cup {p} : created[q] \in Nat /\ created[q] >= 1
  BY DEF IInv, StoreInv, TypeOK, ClocksStart
<1>3. Cardinality(kept) > n /\ \A q \in page : created[q] > created[p]
  <2>1. CASE p \in kept
    <3>1. \A q \in page : created[q] >= created[p] /\ q # p
      BY <1>1, <2>1
    <3>2. \A q \in page : created[q] # created[p]
      BY <1>1, <1>2, <3>1 DEF Distinct
    <3> QED
      BY <1>1, <1>2, <2>1, <3>1, <3>2
  <2>2. CASE p \notin kept
    BY <1>1, <2>2
  <2> QED
    BY <2>1, <2>2
<1>4. page # {}
  BY <1>1, <1>3, FS_EmptySet
<1>5. Min({created[q] : q \in page}) \in {created[q] : q \in page}
  <2>1. {created[q] : q \in page} \in SUBSET Nat /\ {created[q] : q \in page} # {}
    BY <1>1, <1>2, <1>4
  <2> QED
    BY <2>1, MinIsLeast
<1> QED
  BY <1>3, <1>5

\* The answer of a page: what is sought below the cursor is shown, or lies below the next one.
LEMMA PagedReaches ==
  ASSUME IInv, Distinct, reader.at \in {"cells", "user"}, NEW kept \in SUBSET Ids,
         \A q \in kept : Posted(q), Paged(kept), NEW p \in Ids, Posted(p),
         p \in kept \/ (Cardinality(kept) > reader.limit /\ \A q \in kept : created[q] > created[p])
  PROVE  p \in reader'.shown \/ (reader'.at = "more" /\ created[p] < reader'.cursor)
<1>1. reader \in Scroll /\ reader.limit \in Nat /\ reader.limit >= 1
  BY LimitsPositive DEF IInv, StoreInv, TypeOK, CursorBetween, Scrolling
<1> DEFINE full == Cardinality(kept) > reader.limit
<1>2. PICK page \in Newest(kept, reader.limit) :
        reader' = [reader EXCEPT
          !.at = IF full THEN "more" ELSE "end",
          !.cursor = IF full THEN Min({created[q] : q \in page}) ELSE @,
          !.got = {}, !.excluded = {}, !.todo = 0,
          !.page = page, !.shown = @ \cup page, !.again = @ \/ page \cap reader.shown # {}]
  BY DEF Paged
<1>3. p \in page \/ (full /\ created[p] < Min({created[q] : q \in page}))
  BY <1>1, PageOrBelow
<1> HIDE DEF full
<1> QED
  BY <1>1, <1>2, <1>3 DEF Scroll

\* What is sought is a post, and was shown or lies below the cursor.
LEMMA SoughtIsPosted ==
  ASSUME IInv, NEW p \in Sought
  PROVE  p \in Ids /\ Posted(p) /\ created[p] \in Nat /\ created[p] >= 1
<1>1. p \in Visible("byGeohash") \/ p \in Visible("byUser")
  BY DEF Sought, Listed
<1>2. p \in Ids /\ Posted(p)
  BY <1>1, VisibleIsPosted DEF IInv, PostTables
<1> QED
  BY <1>2 DEF IInv, StoreInv, TypeOK, ClocksStart

\* A page of the feed: what it left out of its fetch had more than a page as new, even
\* without those who are hidden.
LEMMA FeedReaches ==
  ASSUME IInv, Remembers, Bounded, CellsRead, GetFeed, NEW p \in Sought,
         reader.cursor = 0 \/ created[p] < reader.cursor
  PROVE  p \in reader'.shown \/ (reader'.at = "more" /\ created[p] < reader'.cursor)
<1>1. reader \in Scroll /\ reader.of = None /\ reader.at = "cells" /\ reader.todo = Len(Cells)
  BY DEF GetFeed, IInv, StoreInv, TypeOK, Remembers
<1>2. PICK ps \in NearIn(Cells[reader.todo]) : \E newest \in Newest(reader.got \cup ps, Fetch) :
        Paged({q \in newest : author[q] \notin reader.excluded})
  BY DEF GetFeed
<1> DEFINE got == reader.got \cup ps
<1>3. PICK newest \in Newest(got, Fetch) : Paged({q \in newest : author[q] \notin reader.excluded})
  BY <1>2
<1> DEFINE kept == {q \in newest : author[q] \notin reader.excluded}
<1>4. /\ reader.limit \in Nat /\ reader.limit >= 1 /\ Fetch \in Nat
      /\ Fetch = IF reader.excluded = {} THEN reader.limit + 1 ELSE 2 * reader.limit + 1
  BY <1>1, FetchEnough
<1>5. p \in Ids /\ Posted(p) /\ created[p] \in Nat /\ created[p] >= 1
  BY SoughtIsPosted
<1>6. got \in SUBSET Ids /\ \A q \in got : q \in Ids /\ Posted(q) /\ created[q] \in Nat /\ created[q] >= 1
  <2>1. got \in SUBSET Ids /\ \A q \in got : Posted(q)
    BY <1>1, CellIsUnread DEF Scroll, IInv, CursorBetween
  <2> QED
    BY <2>1 DEF IInv, StoreInv, TypeOK, ClocksStart
<1>7. /\ newest \subseteq got /\ newest \in SUBSET Ids /\ Cardinality(newest) \in Nat
      /\ Cardinality(got) \in Nat
      /\ Fetch <= Cardinality(got) => Cardinality(newest) = Fetch
      /\ \A q \in got \ newest : /\ Cardinality(newest) = Fetch
                                 /\ \A s \in newest : created[s] >= created[q]
  <2> HIDE DEF got
  <2> QED
    BY <1>4, <1>6, NewestTake
<1>8. p \in got \/ Outdone(p, got)
  <2>1. Reached(got, reader.todo)
    BY <1>1, NextCellIsReached
  <2>2. \E i \in 1..reader.todo : Cells[i] = place[p][1]
    <3>1. place[p][1] \in Range(Cells)
      BY <1>5, PostsAssumption DEF IInv, StoreInv, TypeOK
    <3>2. DOMAIN Cells = 1..Len(Cells)
      BY PostsAssumption
    <3> QED
      BY <1>1, <3>1, <3>2 DEF Range
  <2> HIDE DEF got
  <2> QED
    BY <2>1, <2>2 DEF Reached
<1>9. ASSUME p \notin newest
      PROVE  Cardinality(newest) = Fetch /\ \A q \in newest : created[q] > created[p]
  <2>1. Cardinality(newest) = Fetch /\ \A q \in newest : created[q] >= created[p]
    <3>1. CASE p \in got
      BY <1>7, <1>9, <3>1
    <3>2. CASE p \notin got
      <4>1. PICK t \in SUBSET got : Cardinality(t) >= Fetch /\ \A q \in t : created[q] >= created[p]
        BY <1>8, <3>2 DEF Outdone
      <4>2. /\ t \in SUBSET Ids /\ Cardinality(t) \in Nat /\ IsFiniteSet(t)
            /\ IsFiniteSet(got) /\ IsFiniteSet(newest)
        BY <1>6, <1>7, IdsAreFinite
      <4>3. Cardinality(t) <= Cardinality(got)
        BY <4>2, FS_Subset
      <4>4. Cardinality(newest) = Fetch
        BY <1>4, <1>7, <4>1, <4>2, <4>3
      <4>5. ASSUME NEW q \in newest, ~(created[q] >= created[p]) PROVE FALSE
        <5>1. q \notin t
          BY <4>1, <4>5
        <5>2. \A s \in t : s \in newest
          BY <1>5, <1>6, <1>7, <4>1, <4>5
        <5>3. Cardinality(t) = Cardinality(newest) => t = newest
          BY <4>2, <5>2, FS_Subset
        <5>4. Cardinality(t) <= Cardinality(newest)
          BY <4>2, <5>2, FS_Subset
        <5> QED
          BY <1>4, <4>1, <4>2, <4>4, <5>1, <5>3, <5>4
      <4> QED
        BY <4>4, <4>5
    <3> QED
      BY <3>1, <3>2
  <2>2. \A q \in newest : created[q] # created[p]
    BY <1>5, <1>6, <1>7, <1>9 DEF Bounded, Distinct
  <2> QED
    BY <1>5, <1>6, <1>7, <2>1, <2>2
<1>10. author[p] \notin reader.excluded
  BY <1>1 DEF Sought, Remembers
<1>11. ASSUME p \notin kept
       PROVE  Cardinality(kept) > reader.limit /\ \A q \in kept : created[q] > created[p]
  <2>1. p \notin newest
    BY <1>10, <1>11
  <2>2. Cardinality(newest) = Fetch /\ \A q \in newest : created[q] > created[p]
    BY <1>9, <2>1
  <2>3. CASE reader.excluded = {}
    <3>1. kept = newest
      BY <2>3
    <3> QED
      BY <1>4, <2>2, <2>3, <3>1, SMTT(30)
  <2>4. CASE reader.excluded # {}
    <3>1. newest \ kept \subseteq Hidden
      BY <1>6, <1>7 DEF Hidden, Remembers
    <3>2. newest \ kept \in SUBSET Ids /\ Hidden \in SUBSET Ids /\ kept \in SUBSET Ids
      BY <1>7 DEF Hidden
    <3>3. /\ Cardinality(newest \ kept) \in Nat /\ Cardinality(kept) \in Nat
          /\ Cardinality(Hidden) \in Nat /\ IsFiniteSet(Hidden) /\ IsFiniteSet(newest)
      BY <1>7, <3>2, IdsAreFinite
    <3>4. Cardinality(newest \ kept) <= Cardinality(Hidden)
      BY <3>1, <3>3, FS_Subset
    <3>5. Cardinality(newest \ kept) = Cardinality(newest) - Cardinality(kept)
      <4>1. newest \cap kept = kept
        OBVIOUS
      <4> HIDE DEF kept
      <4> QED
        BY <3>3, <4>1, FS_Difference
    <3>6. Cardinality(Hidden) <= reader.limit
      BY <1>1 DEF Bounded
    <3>7. Cardinality(kept) > reader.limit
      <4> HIDE DEF kept
      <4> QED
        BY <1>4, <2>2, <2>4, <3>3, <3>4, <3>5, <3>6
    <3> QED
      BY <2>2, <3>7
  <2> QED
    BY <2>3, <2>4
<1>12. kept \in SUBSET Ids /\ \A q \in kept : Posted(q)
  BY <1>6, <1>7
<1>13. Distinct /\ reader.at \in {"cells", "user"}
  BY <1>1 DEF Bounded
<1>14. Paged(kept)
  BY <1>3
<1> HIDE DEF kept
<1> QED
  BY <1>5, <1>11, <1>12, <1>13, <1>14, PagedReaches

\* A page of somebody's posts.
LEMMA UserPostsReach ==
  ASSUME IInv, Remembers, Bounded, GetUserPosts, NEW p \in Sought,
         reader.cursor = 0 \/ created[p] < reader.cursor
  PROVE  p \in reader'.shown \/ (reader'.at = "more" /\ created[p] < reader'.cursor)
<1>1. reader \in Scroll /\ reader.of # None /\ reader.at = "user"
  BY DEF GetUserPosts, IInv, StoreInv, TypeOK, CursorBetween
<1> DEFINE below == Before(Listed(reader.of))
<1>2. PICK ps \in Newest(below, QueryLimit(reader.limit + 1)) : Paged(ps)
  BY DEF GetUserPosts
<1>3. /\ reader.limit \in Nat /\ reader.limit >= 1 /\ MaxLimit \in Nat
      /\ QueryLimit(reader.limit + 1) = reader.limit + 1
  <2>1. reader.limit \in Nat /\ reader.limit >= 1 /\ MaxLimit \in Nat
    BY <1>1, LimitsPositive, PostsAssumption DEF IInv, CursorBetween, Scrolling
  <2>2. reader.limit + 1 <= MaxLimit
    BY <1>1 DEF Bounded
  <2> QED
    BY <2>1, <2>2 DEF QueryLimit
<1>4. p \in Ids /\ Posted(p) /\ created[p] \in Nat /\ created[p] >= 1
  BY SoughtIsPosted
<1>5. below \in SUBSET Ids /\ p \in below /\ below \subseteq Visible("byUser")
  BY <1>1 DEF Before, Listed, Visible, Keys, PostTables, Sought
<1>6. \A q \in below : Posted(q) /\ created[q] \in Nat /\ created[q] >= 1
  <2>1. \A q \in below : q \in Ids /\ Posted(q)
    BY <1>5, VisibleIsPosted DEF IInv, PostTables
  <2> QED
    BY <2>1 DEF IInv, StoreInv, TypeOK, ClocksStart
<1> HIDE DEF below
<1>7. /\ ps \in SUBSET Ids /\ ps \subseteq below
      /\ p \notin ps => /\ Cardinality(ps) = reader.limit + 1
                        /\ \A q \in ps : created[q] >= created[p]
  BY <1>2, <1>3, <1>5, NewestTake
<1>8. p \notin ps => Cardinality(ps) > reader.limit /\ \A q \in ps : created[q] > created[p]
  <2>1. p \notin ps => \A q \in ps : created[q] # created[p]
    BY <1>4, <1>5, <1>6, <1>7 DEF Bounded, Distinct
  <2> QED
    BY <1>3, <1>4, <1>6, <1>7, <2>1
<1>9. Distinct /\ reader.at \in {"cells", "user"}
  BY <1>1 DEF Bounded
<1> QED
  BY <1>2, <1>4, <1>6, <1>7, <1>8, <1>9, PagedReaches

\* NothingMissed, by the names above.
LEMMA CompleteMeans ==
  NothingMissed <=> (reader.at = "end" /\ Bounded => \A p \in Sought : p \in reader.shown)
BY DEF NothingMissed, Bounded, Sought

LEMMA CompleteMeansNext ==
  NothingMissed' <=> (reader.at = "end" /\ Bounded => \A p \in Sought : p \in reader.shown)'
BY CompleteMeans, PTL

\* The requests keep the scroll: a post that is gone is not sought again.
LEMMA RequestsKeepScroll ==
  ASSUME IInv, ScrollInv, NEW r \in Requests, Handle(r)
  PROVE  ScrollInv'
<1>1. reader' = reader /\ reader \in Scroll /\ TypeOK'
  BY PostsAreFixed, HandleKeepsTypes DEF IInv, StoreInv, TypeOK
<1>2. \A p \in Ids : Posted(p) =>
        created'[p] = created[p] /\ author'[p] = author[p] /\ place'[p] = place[p]
  BY PostsAreFixed, PlacesAreFixed
<1>3. Bounded' => Bounded /\ SeenAbove /\ CellsRead
  <2>1. ASSUME Bounded' PROVE Bounded
    BY <1>1, <1>2, <2>1, BoundsWereThere DEF ScrollInv
  <2> QED
    BY <2>1 DEF ScrollInv
<1>4. ASSUME NEW p \in reader.base
      PROVE  /\ p \in Ids /\ cell'[<<TableOf(reader.of), p>>].at >= 1
             /\ cell'[<<TableOf(reader.of), p>>].live => cell[<<TableOf(reader.of), p>>].live
  <2>1. p \in Ids /\ TableOf(reader.of) \in PostTables /\ cell[<<TableOf(reader.of), p>>].at >= 1
    BY <1>1 DEF Scroll, TableOf, PostTables, ScrollInv, BaseHasRows
  <2> QED
    BY <2>1, RowsDoNotReturn
<1>5. Sought' \subseteq Sought
  <2> SUFFICES ASSUME NEW p \in Sought' PROVE p \in Sought
    OBVIOUS
  <2>1. p \in reader.base /\ p \in Listed(reader.of)' /\ (reader.of = None => author'[p] \notin reader.ever)
    BY <1>1 DEF Sought
  <2>2. p \in Ids /\ cell'[<<TableOf(reader.of), p>>].live
    BY <1>1, <1>4, <2>1 DEF Listed, Visible, TableOf
  <2>3. p \in Visible(TableOf(reader.of)) /\ TableOf(reader.of) \in PostTables
    BY <1>4, <2>1, <2>2 DEF Visible, Keys, TableOf, PostTables
  <2>4. author'[p] = author[p] /\ place'[p] = place[p]
    BY <1>2, <2>2, <2>3, VisibleIsPosted DEF IInv
  <2>5. p \in Listed(reader.of)
    BY <1>1, <2>1, <2>3, <2>4 DEF Listed, TableOf, Near
  <2> QED
    BY <2>1, <2>4, <2>5 DEF Sought
<1>6. \A p \in Sought \cup reader.got : created'[p] = created[p] /\ place'[p] = place[p]
  <2>1. \A p \in Sought \cup reader.got : p \in Ids /\ Posted(p)
    BY <1>1, SoughtIsPosted DEF Scroll, IInv, CursorBetween
  <2> QED
    BY <1>2, <2>1
<1>7. TimesStart' /\ BaseHasRows' /\ Remembers'
  BY <1>1, <1>4, TimesKeep DEF ScrollInv, BaseHasRows, Remembers
<1>8. Bounded' => SeenAbove'
  BY <1>1, <1>3, <1>5, <1>6 DEF SeenAbove, Scrolling
<1>9. Bounded' => CellsRead'
  <2> SUFFICES ASSUME Bounded', reader.at = "cells", NEW p \in Sought',
                      reader.cursor = 0 \/ created'[p] < reader.cursor,
                      \E i \in 1..(reader.todo - 1) : Cells[i] = place'[p][1],
                      p \notin reader.got
               PROVE  Outdone(p, reader.got)'
    BY <1>1 DEF CellsRead, Reached
  <2>1. Outdone(p, reader.got)
    BY <1>3, <1>5, <1>6 DEF CellsRead, Reached
  <2>2. PICK t \in SUBSET reader.got : Cardinality(t) >= Fetch /\ \A q \in t : created[q] >= created[p]
    BY <2>1 DEF Outdone
  <2>3. Fetch' = Fetch
    BY <1>1 DEF Fetch, QueryLimit
  <2>4. \A q \in t : created'[q] >= created'[p]
    BY <1>5, <1>6, <2>2
  <2> QED
    BY <1>1, <2>2, <2>3, <2>4 DEF Outdone
<1>10. NothingMissed'
  BY <1>1, <1>3, <1>5, CompleteMeans, CompleteMeansNext DEF ScrollInv
<1> QED
  BY <1>7, <1>8, <1>9, <1>10 DEF ScrollInv

\* A scroll that goes on seeks no more than it has sought.
LEMMA ReadsGoOn ==
  ASSUME IInv, TypeOK', ScrollInv, UNCHANGED <<batches, request, pc>>,
         reader'.of = reader.of, reader'.limit = reader.limit, reader'.base = reader.base,
         reader.ever \subseteq reader'.ever
  PROVE  /\ TimesStart' /\ BaseHasRows' /\ Sought' \subseteq Sought
         /\ Bounded' => Bounded /\ SeenAbove /\ CellsRead
<1>1. created' = created /\ author' = author /\ place' = place /\ cell' = cell
      /\ \A p : Posted(p)' <=> Posted(p)
  BY DEF batches, request, Posted, Begun
<1>2. TimesStart' /\ BaseHasRows'
  BY <1>1 DEF ScrollInv, TimesStart, BaseHasRows
<1>3. Listed(reader.of)' = Listed(reader.of)
  BY <1>1 DEF Listed, Visible, Near
<1>4. Sought' \subseteq Sought
  BY <1>1, <1>3 DEF Sought
<1>5. Bounded' => Bounded
  BY <1>1, BoundsWereThere DEF ScrollInv
<1> QED
  BY <1>2, <1>4, <1>5 DEF ScrollInv

\* A page has been asked for, and a cell has been read, and a page answered.
LEMMA ReadsKeepScroll ==
  ASSUME IInv, TypeOK', ScrollInv, Read
  PROVE  ScrollInv'
<1>1. reader \in Scroll /\ UNCHANGED <<batches, request, pc>>
  BY ReaderSteps DEF IInv, StoreInv, TypeOK
<1>2. CASE StartScroll
  <2>1. PICK of \in Authors \cup {None}, n \in Limits : Ask(of, n, Listed(of))
    BY <1>2 DEF StartScroll
  <2>2. reader.cursor = 0
    BY <1>2 DEF StartScroll, IInv, CursorBetween
  <2>3. /\ reader'.at = IF of = None THEN "cells" ELSE "user"
        /\ reader'.of = of /\ reader'.base = Listed(of) /\ reader'.cursor = 0
        /\ reader'.todo = 1 /\ reader'.excluded \subseteq reader'.ever
    BY <1>1, <2>1, <2>2 DEF Ask, Scroll
  <2>4. TimesStart' /\ cell' = cell
    BY <1>1 DEF ScrollInv, TimesStart, batches, request, Posted, Begun
  <2>5. BaseHasRows'
    <3> SUFFICES ASSUME NEW p \in Listed(of) PROVE cell[<<TableOf(of), p>>].at >= 1
      BY <2>3, <2>4 DEF BaseHasRows
    <3>1. <<TableOf(of), p>> \in Rows /\ cell[<<TableOf(of), p>>].live
      BY DEF Listed, Visible, Keys, TableOf, PostTables, Rows
    <3> QED
      BY <3>1 DEF IInv, StoreInv, RowsHaveOrigin
  <2>6. Remembers' /\ SeenAbove' /\ CellsRead'
    BY <2>3 DEF Remembers, SeenAbove, CellsRead, Reached
  <2>7. NothingMissed'
    BY <2>3 DEF NothingMissed
  <2> QED
    BY <2>4, <2>5, <2>6, <2>7 DEF ScrollInv
<1>3. CASE NextPage
  <2>1. Ask(reader.of, reader.limit, reader.base) /\ reader.at = "more"
    BY <1>3 DEF NextPage
  <2>2. /\ reader'.at = IF reader.of = None THEN "cells" ELSE "user"
        /\ reader'.of = reader.of /\ reader'.base = reader.base /\ reader'.limit = reader.limit
        /\ reader'.cursor = reader.cursor /\ reader'.shown = reader.shown
        /\ reader.ever \subseteq reader'.ever
        /\ reader'.todo = 1 /\ reader'.excluded \subseteq reader'.ever
    BY <1>1, <2>1 DEF Ask, Scroll
  <2>3. /\ TimesStart' /\ BaseHasRows' /\ Sought' \subseteq Sought
        /\ Bounded' => Bounded /\ SeenAbove /\ CellsRead
    BY <1>1, <2>2, ReadsGoOn
  <2>4. Remembers' /\ CellsRead'
    BY <2>2 DEF Remembers, CellsRead, Reached
  <2>5. Bounded' => SeenAbove'
    BY <1>1, <2>1, <2>2, <2>3 DEF SeenAbove, Scrolling, batches
  <2>6. NothingMissed'
    BY <2>2 DEF NothingMissed
  <2> QED
    BY <2>3, <2>4, <2>5, <2>6 DEF ScrollInv
<1>4. CASE ReadCell
  <2>1. PICK ps \in NearIn(Cells[reader.todo]) :
          reader' = [reader EXCEPT !.todo = @ + 1, !.got = @ \cup ps]
    BY <1>4 DEF ReadCell
  <2>2. /\ reader.at = "cells" /\ reader'.at = "cells"
        /\ reader'.of = reader.of /\ reader'.base = reader.base /\ reader'.limit = reader.limit
        /\ reader'.cursor = reader.cursor /\ reader'.shown = reader.shown
        /\ reader'.ever = reader.ever /\ reader'.excluded = reader.excluded
        /\ reader'.todo = reader.todo + 1 /\ reader'.got = reader.got \cup ps
    BY <1>1, <1>4, <2>1 DEF ReadCell, Scroll
  <2>3. /\ TimesStart' /\ BaseHasRows' /\ Sought' \subseteq Sought
        /\ Bounded' => Bounded /\ SeenAbove /\ CellsRead
    BY <1>1, <2>2, ReadsGoOn
  <2>4. reader.todo \in Nat
    BY <1>1 DEF Scroll
  <2>5. Remembers'
    BY <2>2, <2>4 DEF ScrollInv, Remembers
  <2>6. Bounded' => SeenAbove'
    BY <1>1, <2>2, <2>3 DEF SeenAbove, Scrolling, batches
  <2>7. Bounded' => CellsRead'
    <3> SUFFICES ASSUME Bounded' PROVE Reached(reader.got, reader.todo - 1)'
      BY DEF CellsRead
    <3>1. Reached(reader.got \cup ps, reader.todo)
      BY <2>2, <2>3, NextCellIsReached DEF ScrollInv
    <3>2. Fetch' = Fetch /\ created' = created /\ place' = place
      BY <1>1, <2>2 DEF Fetch, QueryLimit, batches, request
    <3>3. reader'.todo - 1 = reader.todo
      BY <2>2, <2>4
    <3> QED
      BY <2>2, <2>3, <3>1, <3>2, <3>3 DEF Reached, Outdone
  <2>8. NothingMissed'
    BY <2>2 DEF NothingMissed
  <2> QED
    BY <2>3, <2>5, <2>6, <2>7, <2>8 DEF ScrollInv
<1>5. ASSUME NEW ps, Paged(ps), reader.at \in {"cells", "user"},
             Bounded => \A p \in Sought :
               reader.cursor = 0 \/ created[p] < reader.cursor =>
                 p \in reader'.shown \/ (reader'.at = "more" /\ created[p] < reader'.cursor)
      PROVE  ScrollInv'
  <2>1. /\ reader'.at \in {"more", "end"}
        /\ reader'.of = reader.of /\ reader'.base = reader.base /\ reader'.limit = reader.limit
        /\ reader'.ever = reader.ever /\ reader'.excluded = {}
        /\ reader.shown \subseteq reader'.shown
    BY <1>1, <1>5 DEF Paged, Scroll
  <2>2. /\ TimesStart' /\ BaseHasRows' /\ Sought' \subseteq Sought
        /\ Bounded' => Bounded /\ SeenAbove /\ CellsRead
    BY <1>1, <2>1, ReadsGoOn
  <2>3. Remembers' /\ CellsRead'
    BY <2>1 DEF Remembers, CellsRead
  <2>4. ASSUME Bounded', NEW p \in Sought'
        PROVE  p \in reader'.shown \/ (reader'.at = "more" /\ created[p] < reader'.cursor)
    <3>1. p \in Sought /\ created[p] \in Nat /\ reader.cursor \in Nat
      BY <1>1, <2>2, SoughtIsPosted DEF Scroll
    <3>2. reader.cursor # 0 /\ created[p] >= reader.cursor => p \in reader.shown
      BY <1>5, <2>2, <2>4, <3>1 DEF SeenAbove, Scrolling
    <3> QED
      BY <1>5, <2>1, <2>2, <2>4, <3>1, <3>2
  <2>5. Bounded' => SeenAbove'
    <3>1. created' = created /\ reader'.cursor \in Nat
      BY <1>1 DEF batches, TypeOK, Scroll
    <3>2. \A p \in Sought' : created[p] \in Nat
      BY <2>2, SoughtIsPosted
    <3> QED
      BY <2>4, <3>1, <3>2 DEF SeenAbove
  <2>6. NothingMissed'
    BY <2>4, CompleteMeansNext
  <2> QED
    BY <2>2, <2>3, <2>5, <2>6 DEF ScrollInv
<1>6. CASE GetFeed
  <2>1. reader.at = "cells" /\ \E ps : Paged(ps)
    BY <1>6 DEF GetFeed
  <2>2. Bounded => \A p \in Sought :
          reader.cursor = 0 \/ created[p] < reader.cursor =>
            p \in reader'.shown \/ (reader'.at = "more" /\ created[p] < reader'.cursor)
    BY <1>6, FeedReaches DEF ScrollInv
  <2> QED
    BY <1>5, <2>1, <2>2
<1>7. CASE GetUserPosts
  <2>1. reader.at = "user" /\ \E ps : Paged(ps)
    BY <1>7 DEF GetUserPosts
  <2>2. Bounded => \A p \in Sought :
          reader.cursor = 0 \/ created[p] < reader.cursor =>
            p \in reader'.shown \/ (reader'.at = "more" /\ created[p] < reader'.cursor)
    BY <1>7, UserPostsReach DEF ScrollInv
  <2> QED
    BY <1>5, <2>1, <2>2
<1> QED
  BY <1>2, <1>3, <1>4, <1>6, <1>7 DEF Read

LEMMA ScrollNext == IInv /\ ScrollInv /\ [Next]_vars => ScrollInv'
<1> SUFFICES ASSUME IInv, ScrollInv, [Next]_vars PROVE ScrollInv'
  OBVIOUS
<1>1. TypeOK'
  BY NextKeeps DEF IInv, StoreInv
<1>2. CASE UNCHANGED vars
  <2>1. UNCHANGED <<batches, request, pc>> /\ reader' = reader
    BY <1>2 DEF vars
  <2>2. /\ TimesStart' /\ BaseHasRows' /\ Sought' \subseteq Sought
        /\ Bounded' => Bounded /\ SeenAbove /\ CellsRead
    BY <1>1, <2>1, ReadsGoOn
  <2>3. created' = created /\ place' = place /\ Fetch' = Fetch
    BY <2>1 DEF batches, request, Fetch, QueryLimit
  <2>4. Remembers' /\ (Bounded' => SeenAbove' /\ CellsRead')
    BY <2>1, <2>2, <2>3 DEF ScrollInv, Remembers, SeenAbove, Scrolling, CellsRead, Reached, Outdone
  <2>5. NothingMissed'
    BY <2>1, <2>2, CompleteMeans, CompleteMeansNext DEF ScrollInv
  <2> QED
    BY <2>2, <2>4, <2>5 DEF ScrollInv
<1> QED
  BY <1>1, <1>2, RequestsKeepScroll, ReadsKeepScroll DEF Next

LEMMA ScrollInit == Init => ScrollInv
<1> SUFFICES ASSUME Init PROVE ScrollInv
  OBVIOUS
<1>1. reader.at = "idle" /\ reader.base = {} /\ reader.excluded = {} /\ reader.ever = {}
  BY DEF Init
<1>2. TimesStart
  BY DEF Init, TimesStart, Posted, Ids
<1> QED
  BY <1>1, <1>2 DEF ScrollInv, BaseHasRows, Remembers, SeenAbove, Scrolling, CellsRead, NothingMissed

\* GetFeed, GetUserPosts and the client that follows their cursors: scrolled to the end, a list
\* has shown every post that was there all the time, within the limits that NothingMissed
\* names.
THEOREM ScrollsMissNothing == Spec => []ScrollComplete
<1>1. ScrollInv => NothingMissed
  BY DEF ScrollInv
<1>2. ShownOnce /\ NothingMissed => ScrollComplete
  BY DEF ScrollComplete
<1> QED
  BY <1>1, <1>2, PostsInvariant, PagesDoNotRepeat, ScrollInit, ScrollNext, PTL DEF Spec

-----------------------------------------------------------------------------
(* Rows that have gone.                                                    *)

\* DeleteRows and CreatePost: however the parts of the two batches overtake each
\* other, and whatever else is requested, a post is shown by a table for one span of
\* time at most.
THEOREM PostsDoNotReturn == Spec => ShownForOneSpan
<1> DEFINE OneSpan ==
      \A table \in PostTables : \A p \in Visible(table)' :
        p \in Visible(table) \/ cell[<<table, p>>].at = 0
<1>1. IInv /\ [Next]_vars => [OneSpan]_vars
  <2> SUFFICES ASSUME IInv, Next, NEW t \in PostTables, NEW p \in Visible(t)',
                      p \notin Visible(t), cell[<<t, p>>].at # 0
               PROVE  FALSE
    BY Zenon
  <2>1. /\ p \in Ids /\ cell'[<<t, p>>].live /\ ~cell[<<t, p>>].live
        /\ <<t, p>> \in Rows
    BY DEF Visible, Keys, Rows
  <2>2. cell[<<t, p>>].at >= 1
    BY <2>1 DEF IInv, StoreInv, TypeOK
  <2>3. CASE Read
    BY <2>1, <2>3 DEF Read, StartScroll, NextPage, ReadCell, GetFeed, GetUserPosts, batches
  <2>4. ASSUME NEW r \in Requests, Handle(r) PROVE FALSE
    BY <2>1, <2>2, <2>4, RowsDoNotReturn
  <2> QED
    BY <2>3, <2>4 DEF Next
<1> QED
  BY <1>1, PostsInvariant, PTL DEF ShownForOneSpan, Spec
=============================================================================
