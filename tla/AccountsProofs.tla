--------------------------- MODULE AccountsProofs ---------------------------
(***************************************************************************)
(* What holds of Accounts for every set of requests, mails, usernames and  *)
(* passwords, with and without failures: its types and its four safety     *)
(* properties.                                                             *)
(***************************************************************************)
EXTENDS Accounts, TLAPS

(* The inductive invariant, part by part.                                  *)

\* Accounts and tokens come from requests that are finished and name the account
\* they belong to; a mail or username is somebody's own or the anonymized one, and
\* those of a deleted account are anonymized.
RowsAreFinished ==
  /\ mail[First] # None
  /\ \A a \in Ids : mail[a] \in Mails \cup {a, None} /\ name[a] \in Names \cup {a, None}
  /\ \A a \in deleted : mail[a] = a /\ name[a] = a
  /\ \A r \in Requests :
       /\ mail[r] # None => pc[r] \in {"done", "failed"} /\ kind[r] \in Creating
       /\ mail[r] = None => name[r] = None
       /\ tokens[r] # "none" => pc[r] = "done" /\ kind[r] = "forgot" /\ who[r] # None

\* A handler is only where its endpoint can be, and has what it needs there.
HandlerKnows ==
  \A r \in Requests :
    /\ who[r] # None => mail[who[r]] # None
    /\ pc[r] = "lookName" => kind[r] = "register"
    /\ pc[r] = "look" => kind[r] \in {"register", "social", "login", "forgot"}
    /\ pc[r] \in {"lookName", "look", "insert"} /\ kind[r] # "login" => arg[r] \in Mails
    /\ pc[r] \in {"lookName", "look", "insert"} /\ kind[r] = "register"
         => asked[r] \in Names
    /\ pc[r] \in {"look", "validate"} => arg[r] # None
    /\ pc[r] = "insert" => kind[r] \in Creating
    /\ pc[r] = "token" => kind[r] = "forgot"
    /\ pc[r] \in {"grant", "token", "set", "load", "erase", "backup", "write"}
         => who[r] # None
    /\ pc[r] \in {"validate", "set", "mark"}
         => kind[r] = "reset" /\ arg[r] \in Ids /\ tokens[arg[r]] # "none"
    /\ pc[r] \in {"load", "erase", "backup", "write"} => kind[r] \in {"delete", "update"}

\* Who was deleted when a request came in still is, and is not who it logs in.
GoneStaysGone ==
  \A r \in Requests :
    /\ goneAt[r] \subseteq deleted
    /\ kind[r] \in {"login", "social"} /\ pc[r] \in {"grant", "done"}
         => who[r] \notin goneAt[r]

\* A spent token stays spent, until its row is gone.
SpentStaysSpent ==
  \A r \in spent :
    /\ pc[r] \in {"validate", "failed"} /\ kind[r] = "reset"
    /\ pc[r] = "validate" => tokens[arg[r]] \in {"used", "expired"}

\* A request that is about to create an account has found its mail free, and no
\* account that had a mail then takes this one.
MailStaysFree ==
  \A r \in Requests :
    /\ \A a \in takenBy[r] : a # r /\ mail[a] # None
    /\ pc[r] = "insert" /\ "mail" \notin blind[r]
         => \A a \in takenBy[r] : mail[a] # arg[r]

\* And so with the username of one that is registered, once it has been looked up.
NameStaysFree ==
  \A r \in Requests :
    /\ \A a \in namedBy[r] : a # r /\ name[a] # None
    /\ pc[r] \in {"look", "insert"} /\ kind[r] = "register" /\ "name" \notin blind[r]
         => \A a \in namedBy[r] : name[a] # asked[r]

IInv ==
  /\ TypeOK /\ RowsAreFinished /\ HandlerKnows
  /\ GoneStaysGone /\ SpentStaysSpent /\ MailStaysFree /\ NameStaysFree /\ TakenOnce

-----------------------------------------------------------------------------
(* It is inductive.                                                        *)

\* The invariant holds of one account with a reset token out, and no requests yet.
LEMMA IInvInit == Init => IInv
<1> SUFFICES ASSUME Init PROVE IInv
  OBVIOUS
<1> USE AccountsAssumption DEF Init, Ids, Labels
<1>1. TypeOK
  BY DEF TypeOK
<1>2. RowsAreFinished
  BY DEF RowsAreFinished
<1>3. /\ HandlerKnows /\ GoneStaysGone /\ SpentStaysSpent
      /\ MailStaysFree /\ NameStaysFree /\ TakenOnce
  BY DEF HandlerKnows, GoneStaysGone, SpentStaysSpent, MailStaysFree, NameStaysFree,
         TakenOnce
<1> QED
  BY <1>1, <1>2, <1>3 DEF IInv

\* Under each action, first the parts it can disturb, with the parts that keep them;
\* then the rest, each of which keeps itself.
LEMMA IInvNext == IInv /\ [Next]_vars => IInv'
<1> SUFFICES ASSUME IInv, [Next]_vars PROVE IInv'
  OBVIOUS
<1> USE AccountsAssumption
        DEF IInv, TypeOK, Ids, Creating, Columns, row, request, history, Goto, Found
<1>1. ASSUME NEW r \in Requests, Receive(r) PROVE IInv'
  <2>1. TypeOK'
    BY <1>1 DEF Receive, Inputs, Entry, Holders, Named, Kinds, Labels
  <2>2. HandlerKnows'
    BY <1>1 DEF Receive, Inputs, Entry, Kinds, HandlerKnows
  <2>3. SpentStaysSpent'
    BY <1>1 DEF Receive, Entry, SpentStaysSpent
  <2>4. MailStaysFree'
    <3>1. \A a \in takenBy'[r] : mail[a] \in Mails
      BY <1>1 DEF Receive, Inputs, Holders, Kinds
    <3>2. mail[r] = None
      BY <1>1 DEF Receive, RowsAreFinished
    <3> QED
      BY <1>1, <3>1, <3>2 DEF Receive, Entry, MailStaysFree
  <2>5. NameStaysFree'
    BY <1>1 DEF Receive, Entry, Named, Kinds, RowsAreFinished, NameStaysFree
  <2>6. TakenOnce'
    BY <1>1 DEF Receive, RowsAreFinished, TakenOnce
  <2>7. RowsAreFinished' /\ GoneStaysGone'
    BY <1>1 DEF Receive, RowsAreFinished, GoneStaysGone
  <2> QED
    BY <2>1, <2>2, <2>3, <2>4, <2>5, <2>6, <2>7
<1>2. ASSUME NEW r \in Requests, Look(r) PROVE IInv'
  <2> USE DEF AfterLook, Register, SocialSignIn, Login, ForgotPassword
  <2>1. TypeOK'
    BY <1>2 DEF Look, Sought, Holders, Named, Labels, HandlerKnows
  <2>2. HandlerKnows'
    BY <1>2 DEF Look, Sought, Holders, Named, RowsAreFinished, HandlerKnows
  <2>3. GoneStaysGone'
    BY <1>2 DEF Look, Sought, Holders, Named, RowsAreFinished, HandlerKnows,
           GoneStaysGone
  <2>4. MailStaysFree'
    BY <1>2 DEF Look, Sought, Holders, HandlerKnows, MailStaysFree
  <2>5. NameStaysFree'
    BY <1>2 DEF Look, HandlerKnows, NameStaysFree
  <2>6. TakenOnce'
    BY <1>2 DEF Look, RowsAreFinished, TakenOnce
  <2>7. RowsAreFinished' /\ SpentStaysSpent'
    BY <1>2 DEF Look, RowsAreFinished, SpentStaysSpent
  <2> QED
    BY <2>1, <2>2, <2>3, <2>4, <2>5, <2>6, <2>7
<1>3. ASSUME NEW r \in Requests, CreateUser(r) PROVE IInv'
  <2>1. TypeOK'
    BY <1>3 DEF CreateUser, Usernames, Labels, HandlerKnows
  <2>2. RowsAreFinished'
    BY <1>3 DEF CreateUser, Usernames, RowsAreFinished, HandlerKnows
  <2>3. GoneStaysGone'
    BY <1>3 DEF CreateUser, Usernames, RowsAreFinished, GoneStaysGone
  <2>4. MailStaysFree' /\ NameStaysFree'
    <3>1. MailStaysFree'
      BY <1>3 DEF CreateUser, RowsAreFinished, MailStaysFree
    <3>2. NameStaysFree'
      BY <1>3 DEF CreateUser, RowsAreFinished, HandlerKnows, NameStaysFree
    <3> QED
      BY <3>1, <3>2
  <2>5. TakenOnce'
    BY <1>3 DEF CreateUser, Usernames, RowsAreFinished, MailStaysFree, NameStaysFree,
           TakenOnce
  <2>6. HandlerKnows' /\ SpentStaysSpent'
    BY <1>3 DEF CreateUser, HandlerKnows, SpentStaysSpent
  <2> QED
    BY <2>1, <2>2, <2>3, <2>4, <2>5, <2>6
<1>4. ASSUME NEW r \in Requests, GenerateTokenPair(r) PROVE IInv'
  <2>1. TypeOK'
    BY <1>4 DEF GenerateTokenPair, Labels, HandlerKnows
  <2>2. TakenOnce'
    BY <1>4 DEF GenerateTokenPair, RowsAreFinished, HandlerKnows, TakenOnce
  <2>3. RowsAreFinished' /\ HandlerKnows' /\ GoneStaysGone' /\ SpentStaysSpent' /\
         MailStaysFree' /\ NameStaysFree'
    BY <1>4 DEF GenerateTokenPair, RowsAreFinished, HandlerKnows, GoneStaysGone,
           SpentStaysSpent, MailStaysFree, NameStaysFree
  <2> QED
    BY <2>1, <2>2, <2>3
<1>5. ASSUME NEW r \in Requests, CreateToken(r) PROVE IInv'
  <2>1. RowsAreFinished'
    BY <1>5 DEF CreateToken, RowsAreFinished, HandlerKnows
  <2>2. GoneStaysGone'
    BY <1>5 DEF CreateToken, HandlerKnows, GoneStaysGone
  <2>3. SpentStaysSpent'
    BY <1>5 DEF CreateToken, RowsAreFinished, SpentStaysSpent
  <2>4. TakenOnce'
    BY <1>5 DEF CreateToken, RowsAreFinished, HandlerKnows, TakenOnce
  <2>5. TypeOK' /\ HandlerKnows' /\ MailStaysFree' /\ NameStaysFree'
    BY <1>5 DEF CreateToken, Labels, HandlerKnows, MailStaysFree, NameStaysFree
  <2> QED
    BY <2>1, <2>2, <2>3, <2>4, <2>5
<1>6. ASSUME NEW r \in Requests, ValidateToken(r) PROVE IInv'
  <2>1. TypeOK'
    BY <1>6 DEF ValidateToken, TokenOwner, Labels, HandlerKnows
  <2>2. HandlerKnows'
    BY <1>6 DEF ValidateToken, TokenOwner, RowsAreFinished, HandlerKnows
  <2>3. RowsAreFinished' /\ GoneStaysGone' /\ SpentStaysSpent'
    BY <1>6 DEF ValidateToken, RowsAreFinished, GoneStaysGone, SpentStaysSpent
  <2>4. MailStaysFree' /\ NameStaysFree' /\ TakenOnce'
    BY <1>6 DEF ValidateToken, MailStaysFree, NameStaysFree, TakenOnce
  <2> QED
    BY <2>1, <2>2, <2>3, <2>4
<1>7. ASSUME NEW r \in Requests, UpdatePassword(r) PROVE IInv'
  BY <1>7 DEF UpdatePassword, Labels, RowsAreFinished, HandlerKnows, GoneStaysGone,
         SpentStaysSpent, MailStaysFree, NameStaysFree, TakenOnce
<1>8. ASSUME NEW r \in Requests, MarkUsed(r) PROVE IInv'
  <2>1. RowsAreFinished'
    BY <1>8 DEF MarkUsed, RowsAreFinished, HandlerKnows
  <2>2. GoneStaysGone'
    BY <1>8 DEF MarkUsed, HandlerKnows, GoneStaysGone
  <2>3. SpentStaysSpent'
    BY <1>8 DEF MarkUsed, HandlerKnows, SpentStaysSpent
  <2>4. TakenOnce'
    BY <1>8 DEF MarkUsed, RowsAreFinished, HandlerKnows, TakenOnce
  <2>5. TypeOK' /\ HandlerKnows' /\ MailStaysFree' /\ NameStaysFree'
    BY <1>8 DEF MarkUsed, Labels, HandlerKnows, MailStaysFree, NameStaysFree
  <2> QED
    BY <2>1, <2>2, <2>3, <2>4, <2>5
<1>9. ASSUME NEW r \in Requests, DeleteAccount(r) PROVE IInv'
  <2>1. TypeOK'
    BY <1>9 DEF DeleteAccount, Labels, HandlerKnows
  <2>2. RowsAreFinished' /\ HandlerKnows' /\ GoneStaysGone' /\ SpentStaysSpent' /\
         MailStaysFree' /\ NameStaysFree' /\ TakenOnce'
    BY <1>9 DEF DeleteAccount, RowsAreFinished, HandlerKnows, GoneStaysGone,
           SpentStaysSpent, MailStaysFree, NameStaysFree, TakenOnce
  <2> QED
    BY <2>1, <2>2
<1>10. ASSUME NEW r \in Requests, UpdateProfile(r) PROVE IInv'
  <2>1. TypeOK'
    BY <1>10 DEF UpdateProfile, Labels, HandlerKnows
  <2>2. RowsAreFinished' /\ HandlerKnows' /\ GoneStaysGone' /\ SpentStaysSpent' /\
         MailStaysFree' /\ NameStaysFree' /\ TakenOnce'
    BY <1>10 DEF UpdateProfile, RowsAreFinished, HandlerKnows, GoneStaysGone,
           SpentStaysSpent, MailStaysFree, NameStaysFree, TakenOnce
  <2> QED
    BY <2>1, <2>2
<1>11. ASSUME NEW r \in Requests, SoftDeleteUser(r) PROVE IInv'
  <2>1. TypeOK'
    BY <1>11 DEF SoftDeleteUser, Labels, HandlerKnows
  <2>2. RowsAreFinished'
    BY <1>11 DEF SoftDeleteUser, RowsAreFinished, HandlerKnows
  <2>3. MailStaysFree' /\ NameStaysFree'
    BY <1>11 DEF SoftDeleteUser, HandlerKnows, MailStaysFree, NameStaysFree
  <2>4. TakenOnce'
    <3>1. \A a, b \in Ids : mail[a] # mail[b] => mail'[a] # mail'[b]
      BY <1>11 DEF SoftDeleteUser, RowsAreFinished, HandlerKnows
    <3>2. \A a, b \in Ids : name[a] # name[b] => name'[a] # name'[b]
      BY <1>11 DEF SoftDeleteUser, RowsAreFinished, HandlerKnows
    <3>3. \A q \in Requests : mail'[q] # None => mail[q] # None
      BY <1>11 DEF SoftDeleteUser, HandlerKnows
    <3> QED
      BY <1>11, <3>1, <3>2, <3>3 DEF SoftDeleteUser, TakenOnce
  <2>5. HandlerKnows' /\ GoneStaysGone' /\ SpentStaysSpent'
    BY <1>11 DEF SoftDeleteUser, HandlerKnows, GoneStaysGone, SpentStaysSpent
  <2> QED
    BY <2>1, <2>2, <2>3, <2>4, <2>5
<1>12. ASSUME NEW r \in Requests, DeleteKeyBackup(r) PROVE IInv'
  <2>1. GoneStaysGone'
    BY <1>12 DEF DeleteKeyBackup, HandlerKnows, GoneStaysGone
  <2>2. TakenOnce'
    BY <1>12 DEF DeleteKeyBackup, RowsAreFinished, HandlerKnows, TakenOnce
  <2>3. TypeOK' /\ RowsAreFinished' /\ HandlerKnows' /\ SpentStaysSpent' /\
         MailStaysFree' /\ NameStaysFree'
    BY <1>12 DEF DeleteKeyBackup, Labels, RowsAreFinished, HandlerKnows,
           SpentStaysSpent, MailStaysFree, NameStaysFree
  <2> QED
    BY <2>1, <2>2, <2>3
<1>13. ASSUME NEW r \in Requests, UpdateUser(r) PROVE IInv'
  <2>1. TypeOK'
    BY <1>13 DEF UpdateUser, Labels, HandlerKnows
  <2>2. GoneStaysGone'
    BY <1>13 DEF UpdateUser, HandlerKnows, GoneStaysGone
  <2>3. TakenOnce'
    BY <1>13 DEF UpdateUser, RowsAreFinished, HandlerKnows, TakenOnce
  <2>4. RowsAreFinished' /\ HandlerKnows' /\ SpentStaysSpent' /\
         MailStaysFree' /\ NameStaysFree'
    BY <1>13 DEF UpdateUser, RowsAreFinished, HandlerKnows, SpentStaysSpent,
           MailStaysFree, NameStaysFree
  <2> QED
    BY <2>1, <2>2, <2>3, <2>4
<1>14. ASSUME NEW r \in Requests, Fail(r) PROVE IInv'
  BY <1>14 DEF Fail, Labels, RowsAreFinished, HandlerKnows, GoneStaysGone,
         SpentStaysSpent, MailStaysFree, NameStaysFree, TakenOnce
<1>15. ASSUME NEW a \in Ids, Expire(a) PROVE IInv'
  BY <1>15 DEF Expire, RowsAreFinished, HandlerKnows, GoneStaysGone,
         SpentStaysSpent, MailStaysFree, NameStaysFree, TakenOnce
<1>16. ASSUME NEW a \in Ids, PutIdentityBackup(a) PROVE IInv'
  BY <1>16 DEF PutIdentityBackup, RowsAreFinished, HandlerKnows, GoneStaysGone,
         SpentStaysSpent, MailStaysFree, NameStaysFree, TakenOnce
<1>17. ASSUME NEW r \in Requests, LookName(r) PROVE IInv'
  <2> USE DEF RegisterName
  <2>1. TypeOK'
    BY <1>17 DEF LookName, Named, Labels
  <2>2. HandlerKnows'
    BY <1>17 DEF LookName, Named, HandlerKnows
  <2>3. NameStaysFree'
    BY <1>17 DEF LookName, Named, NameStaysFree, HandlerKnows
  <2>4. RowsAreFinished' /\ GoneStaysGone' /\ SpentStaysSpent'
    BY <1>17 DEF LookName, RowsAreFinished, HandlerKnows, GoneStaysGone, SpentStaysSpent
  <2>5. MailStaysFree'
    BY <1>17 DEF LookName, MailStaysFree
  <2>6. TakenOnce'
    BY <1>17 DEF LookName, RowsAreFinished, TakenOnce
  <2> QED
    BY <2>1, <2>2, <2>3, <2>4, <2>5, <2>6
<1>18. CASE UNCHANGED vars
  BY <1>18 DEF vars, RowsAreFinished, HandlerKnows, GoneStaysGone, SpentStaysSpent,
       MailStaysFree, NameStaysFree, TakenOnce
<1> QED
  BY <1>1, <1>2, <1>3, <1>4, <1>5, <1>6, <1>7, <1>8, <1>9, <1>10, <1>11, <1>12, <1>13,
     <1>14, <1>15, <1>16, <1>17, <1>18 DEF Next, Handle

\* The invariant holds in every reachable state.
LEMMA IInvHolds == Spec => []IInv
BY IInvInit, IInvNext, PTL DEF Spec

\* Every reachable state is well typed: in particular every session is of an account
\* that exists.
THEOREM AccountsTypeCorrect == Spec => []TypeOK
<1>1. IInv => TypeOK
  BY DEF IInv
<1> QED
  BY IInvHolds, <1>1, PTL

\* Login and the social sign-ins let nobody into an account that was deleted before
\* they were asked.
THEOREM DeletedAccountsStayClosed == Spec => []DeletedStaysOut
<1>1. IInv => DeletedStaysOut
  BY DEF IInv, GoneStaysGone, DeletedStaysOut
<1> QED
  BY IInvHolds, <1>1, PTL

\* A reset that comes in with a token marked as used sets no password, even if the
\* token's row expires and is made again meanwhile.
THEOREM MarkedTokensAreDead == Spec => []TokenUsedOnce
<1>1. IInv => TokenUsedOnce
  BY DEF IInv, SpentStaysSpent, TokenUsedOnce
<1> QED
  BY IInvHolds, <1>1, PTL

\* Register and the social sign-ins create no account with a mail, and Register none
\* with a username, that another had when the request came in and has still, where the
\* lookup has not failed.
THEOREM TakenIsRefused == Spec => []TakenOnce
<1>1. IInv => TakenOnce
  BY DEF IInv
<1> QED
  BY IInvHolds, <1>1, PTL

\* No request that is under way or comes later gives a deleted account its mail back.
THEOREM DeletedStayAnonymous == Spec => []AnonymousForGood
<1>1. IInv => AnonymousForGood
  BY DEF IInv, RowsAreFinished, AnonymousForGood
<1> QED
  BY IInvHolds, <1>1, PTL
=============================================================================
