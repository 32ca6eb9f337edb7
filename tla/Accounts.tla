------------------------------ MODULE Accounts ------------------------------
(***************************************************************************)
(* Accounts: registration, social sign-in, login, password reset, profile  *)
(* updates and deletion (internal/data/user_repo.go, password_reset_repo.go *)
(* and the handlers auth.go, social_auth.go, password_reset.go, account.go  *)
(* and profile.go).                                                         *)
(*                                                                          *)
(* The users table has one key, the id.  That a mail belongs to one account *)
(* and that a deleted account is left alone rests on reads that the         *)
(* handlers make before they write.  That a username does rests on the      *)
(* registration's lookup alone: a social sign-in makes one up from the mail *)
(* and the second, and stores it without looking (user_repo.go:46-58).      *)
(*                                                                          *)
(* A request is a handler goroutine.  One that creates an account is also   *)
(* its id, and one that creates a reset token is also that token.           *)
(***************************************************************************)
EXTENDS FiniteSets

CONSTANTS
  Requests,   \* HTTP requests; a bound on the workload
  First,      \* the account there is to begin with, and a reset token of it
  Mails,
  Names,      \* usernames
  Passwords,
  None,       \* no row, no password, no answer
  Failures    \* TRUE: calls fail and processes end

ASSUME AccountsAssumption ==
  /\ First \notin Requests
  /\ None \notin Requests \cup {First} \cup Mails \cup Names \cup Passwords
  \* Nobody's mail is at deleted.local and nobody is called deleted_... or by a mail.
  /\ (Mails \cup Names) \cap (Requests \cup {First}) = {} /\ Mails \cap Names = {}
  /\ Mails # {} /\ Names # {} /\ Passwords # {} /\ Failures \in BOOLEAN

Ids == Requests \cup {First}
Kinds == {"register", "social", "login", "forgot", "reset", "delete", "update"}
Labels == {"idle", "lookName", "look", "insert", "grant", "token", "validate", "set",
           "mark", "load", "erase", "backup", "write", "done", "failed"}
Creating == {"register", "social"}
Columns == {"mail", "name"}

VARIABLES
  mail,      \* of every account; the anonymized mail of a deleted one is its id,
  name,      \* and so is its anonymized username
  hash,      \* the password it is logged in with, None for social accounts
  deleted,   \* accounts with is_deleted
  profile,   \* accounts with the full name and the biography of somebody
  backups,   \* accounts with a row in user_dm_identity_backups
  tokens,    \* per token: none, fresh, used, or expired and its row gone
  sessions,  \* accounts somebody holds a token pair of
  kind, arg, asked, password,  \* what a request asks for, with the username of a new one
  who,       \* the account it found
  pc,        \* where its handler is
  goneAt,    \* the accounts that were deleted when a login or social sign-in came in
  takenBy,   \* the accounts that had the mail of a new account when it came in,
  namedBy,   \* and those that had the username it is registered with
  spent,     \* resets that came in with a token already marked as used
  blind      \* the columns of which its lookup failed, taken for "not found"

row == <<mail, name, hash, deleted, profile>>
request == <<kind, arg, asked, password>>
history == <<goneAt, takenBy, namedBy, spent>>
vars == <<row, backups, tokens, sessions, request, who, pc, history, blind>>

TypeOK ==
  /\ mail \in [Ids -> Mails \cup Ids \cup {None}]
  /\ name \in [Ids -> Names \cup Ids \cup {None}]
  /\ hash \in [Ids -> Passwords \cup {None}]
  /\ deleted \subseteq Ids /\ profile \subseteq Ids /\ backups \subseteq Ids
  /\ tokens \in [Ids -> {"none", "fresh", "used", "expired"}]
  /\ sessions \subseteq {a \in Ids : mail[a] # None}
  /\ kind \in [Requests -> Kinds \cup {None}]
  /\ arg \in [Requests -> Mails \cup Names \cup Ids \cup {None}]
  /\ asked \in [Requests -> Names \cup {None}]
  /\ password \in [Requests -> Passwords \cup {None}]
  /\ who \in [Requests -> Ids \cup {None}] /\ pc \in [Requests -> Labels]
  /\ goneAt \in [Requests -> SUBSET Ids] /\ takenBy \in [Requests -> SUBSET Ids]
  /\ namedBy \in [Requests -> SUBSET Ids]
  /\ spent \subseteq Requests /\ blind \in [Requests -> SUBSET Columns]

Init ==
  /\ \E m \in Mails : mail = [a \in Ids |-> IF a = First THEN m ELSE None]
  /\ \E n \in Names : name = [a \in Ids |-> IF a = First THEN n ELSE None]
  /\ \E p \in Passwords \cup {None} : hash = [a \in Ids |-> IF a = First THEN p ELSE None]
  /\ deleted = {} /\ profile = {First} /\ backups = {First} /\ sessions = {First}
  /\ tokens = [a \in Ids |-> IF a = First THEN "fresh" ELSE "none"]
  /\ kind = [r \in Requests |-> None] /\ arg = [r \in Requests |-> None]
  /\ asked = [r \in Requests |-> None]
  /\ password = [r \in Requests |-> None] /\ who = [r \in Requests |-> None]
  /\ pc = [r \in Requests |-> "idle"]
  /\ goneAt = [r \in Requests |-> {}] /\ takenBy = [r \in Requests |-> {}]
  /\ namedBy = [r \in Requests |-> {}]
  /\ spent = {} /\ blind = [r \in Requests |-> {}]

-----------------------------------------------------------------------------
Goto(r, label) == pc' = [pc EXCEPT ![r] = label]
Found(r, a) == who' = [who EXCEPT ![r] = a]
Holders(m) == {a \in Ids : mail[a] = m}
Named(n) == {a \in Ids : name[a] = n}
TokenOwner(t) == IF t = First THEN First ELSE who[t]

\* What each endpoint is called with: a mail, a token, or the id in the caller's
\* access token.  One may log in with a username, that of a deleted account as well.
Inputs(k) ==
  CASE k \in {"register", "social", "forgot"} -> Mails
    [] k = "login" -> Mails \cup Names \cup deleted
    [] k = "reset" -> {t \in Ids : tokens[t] # "none"}
    [] k \in {"delete", "update"} -> sessions

Entry(k) ==
  CASE k = "register" -> "lookName"
    [] k = "reset" -> "validate"
    [] k \in {"delete", "update"} -> "load"
    [] OTHER -> "look"

NeedsPassword(k) == k \in {"register", "login", "reset", "delete"}

Receive(r) ==
  /\ pc[r] = "idle"
  /\ \E k \in Kinds : \E x \in Inputs(k) :
       /\ kind' = [kind EXCEPT ![r] = k] /\ arg' = [arg EXCEPT ![r] = x]
       /\ \E p \in IF NeedsPassword(k) THEN Passwords ELSE {None} :
            password' = [password EXCEPT ![r] = p]
       /\ \E n \in IF k = "register" THEN Names ELSE {None} :
            /\ asked' = [asked EXCEPT ![r] = n]
            /\ namedBy' = [namedBy EXCEPT ![r] = IF k = "register" THEN Named(n) ELSE {}]
       /\ who' = [who EXCEPT ![r] = IF k \in {"delete", "update"} THEN x ELSE None]
       /\ goneAt' = [goneAt EXCEPT ![r] = IF k \in {"login", "social"} THEN deleted ELSE {}]
       /\ takenBy' = [takenBy EXCEPT ![r] = IF k \in Creating THEN Holders(x) ELSE {}]
       /\ spent' = IF k = "reset" /\ tokens[x] = "used" THEN spent \cup {r} ELSE spent
       /\ Goto(r, Entry(k))
  /\ UNCHANGED <<row, backups, tokens, sessions, blind>>

-----------------------------------------------------------------------------
(* Register, Login, the social sign-ins, ForgotPassword.                   *)

\* Mutant of Login: is_deleted is not looked at.
LoginAnyAccount(r, a) == IF a # None /\ hash[a] = password[r] THEN "grant" ELSE "failed"

\* Mutant of Login: it goes on without a user.
LoginUnfound(r, a) ==
  IF a = None \/ (a \notin deleted /\ hash[a] = password[r]) THEN "grant" ELSE "failed"

\* Mutant of RegisterName: what it has found is not looked at.
NameAnyway(a) == "look"

\* Where the handlers go with the account they have found, or None.
RegisterName(a) == IF a = None THEN "look" ELSE "failed"

\* Mutant of Register: what it has found is not looked at.
RegisterAnyway(a) == "insert"

Register(a) == IF a = None THEN "insert" ELSE "failed"
SocialSignIn(a) == IF a = None THEN "insert" ELSE "grant"
Login(r, a) ==
  IF a # None /\ a \notin deleted /\ hash[a] = password[r] THEN "grant" ELSE "failed"
ForgotPassword(a) == IF a = None THEN "done" ELSE "token"

AfterLook(r, a) ==
  CASE kind[r] = "register" -> Register(a)
    [] kind[r] = "social" -> SocialSignIn(a)
    [] kind[r] = "login" -> Login(r, a)
    [] kind[r] = "forgot" -> ForgotPassword(a)

\* GetUserByUsername of a registration: of several rows it returns one, and its error
\* is only logged, as if nobody had the name.
LookName(r) ==
  /\ pc[r] = "lookName"
  /\ \/ /\ \E a \in IF Named(asked[r]) = {} THEN {None} ELSE Named(asked[r]) :
             Goto(r, RegisterName(a))
        /\ UNCHANGED blind
     \/ /\ Failures
        /\ Goto(r, RegisterName(None))
        /\ blind' = [blind EXCEPT ![r] = @ \cup {"name"}]
  /\ UNCHANGED <<row, backups, tokens, sessions, request, who, history>>

\* A login goes by the username unless there is an @ in what it is given.
Sought(r) == IF arg[r] \in Names THEN Named(arg[r]) ELSE Holders(arg[r])

\* GetUserByEmail, or GetUserByUsername for a login.  The error is only logged by
\* Register and the social sign-ins, which go on as if nobody had the mail.
Look(r) ==
  /\ pc[r] = "look"
  /\ \/ /\ \E a \in IF Sought(r) = {} THEN {None} ELSE Sought(r) :
             Found(r, a) /\ Goto(r, AfterLook(r, a))
        /\ UNCHANGED blind
     \/ /\ Failures
        /\ Found(r, None) /\ Goto(r, AfterLook(r, None))
        /\ blind' = IF kind[r] \in Creating
                     THEN [blind EXCEPT ![r] = @ \cup {"mail"}] ELSE blind
  /\ UNCHANGED <<row, backups, tokens, sessions, request, history>>

\* The username of a new account: the one that was asked for, or for a social sign-in
\* one of the mail's local part and the second of the day, whoever else has it.
Usernames(r) == IF kind[r] = "register" THEN {asked[r]} ELSE Names

\* CreateUser, or the INSERT of GetOrCreateOAuthUser, and the tokens; after a call of
\* unknown outcome, or when the process ends there, the row alone.
CreateUser(r) ==
  /\ pc[r] = "insert"
  /\ mail' = [mail EXCEPT ![r] = arg[r]]
  /\ \E n \in Usernames(r) : name' = [name EXCEPT ![r] = n]
  /\ hash' = [hash EXCEPT ![r] = password[r]]
  /\ profile' = profile \cup {r}
  /\ \/ sessions' = sessions \cup {r} /\ Found(r, r) /\ Goto(r, "done")
     \/ Failures /\ Goto(r, "failed") /\ UNCHANGED <<sessions, who>>
  /\ UNCHANGED <<deleted, backups, tokens, request, history, blind>>

GenerateTokenPair(r) ==
  /\ pc[r] = "grant"
  /\ sessions' = sessions \cup {who[r]}
  /\ Goto(r, "done")
  /\ UNCHANGED <<row, backups, tokens, request, who, history, blind>>

CreateToken(r) ==
  /\ pc[r] = "token"
  /\ tokens' = [tokens EXCEPT ![r] = "fresh"]
  /\ Goto(r, "done")
  /\ UNCHANGED <<row, backups, sessions, request, who, history, blind>>

-----------------------------------------------------------------------------
(* ResetPassword.                                                          *)

\* Mutant of ValidateToken: "used" is not looked at.
ValidateUnused(r) ==
  /\ pc[r] = "validate"
  /\ Found(r, TokenOwner(arg[r]))
  /\ Goto(r, IF tokens[arg[r]] \in {"fresh", "used"} THEN "set" ELSE "failed")
  /\ UNCHANGED <<row, backups, tokens, sessions, request, history, blind>>

ValidateToken(r) ==
  /\ pc[r] = "validate"
  /\ Found(r, TokenOwner(arg[r]))
  /\ Goto(r, IF tokens[arg[r]] = "fresh" THEN "set" ELSE "failed")
  /\ UNCHANGED <<row, backups, tokens, sessions, request, history, blind>>

UpdatePassword(r) ==
  /\ pc[r] = "set"
  /\ hash' = [hash EXCEPT ![who[r]] = password[r]]
  /\ Goto(r, "mark")
  /\ UNCHANGED <<mail, name, deleted, profile, backups, tokens, sessions, request, who,
                 history, blind>>

\* An UPDATE: of a row that has expired in between it makes a new one, with no more
\* than the mark.  Its error is logged, and the request answered with success.
MarkUsed(r) ==
  /\ pc[r] = "mark"
  /\ \/ tokens' = [tokens EXCEPT ![arg[r]] = "used"]
     \/ Failures /\ UNCHANGED tokens
  /\ Goto(r, "done")
  /\ UNCHANGED <<row, backups, sessions, request, who, history, blind>>

\* One hour later.
Expire(t) ==
  /\ tokens[t] \in {"fresh", "used"}
  /\ tokens' = [tokens EXCEPT ![t] = "expired"]
  /\ UNCHANGED <<row, backups, sessions, request, who, pc, history, blind>>

-----------------------------------------------------------------------------
(* DeleteAccount, UpdateProfile, the upload of a key backup.               *)

\* GetUserByID, and what follows for each of the two.
DeleteAccount(r) ==
  /\ pc[r] = "load" /\ kind[r] = "delete"
  /\ Goto(r, IF hash[who[r]] # None /\ hash[who[r]] = password[r]
               THEN "erase" ELSE "failed")
  /\ UNCHANGED <<row, backups, tokens, sessions, request, who, history, blind>>

UpdateProfile(r) ==
  /\ pc[r] = "load" /\ kind[r] = "update"
  /\ Goto(r, "write")
  /\ arg' = [arg EXCEPT ![r] = mail[who[r]]]
  /\ UNCHANGED <<row, backups, tokens, sessions, kind, asked, password, who, history,
                 blind>>

\* SoftDeleteUser: one UPDATE of the row ...
SoftDeleteUser(r) ==
  /\ pc[r] = "erase"
  /\ mail' = [mail EXCEPT ![who[r]] = who[r]]
  /\ name' = [name EXCEPT ![who[r]] = who[r]]
  /\ hash' = [hash EXCEPT ![who[r]] = None]
  /\ deleted' = deleted \cup {who[r]}
  /\ profile' = profile \ {who[r]}
  /\ Goto(r, "backup")
  /\ UNCHANGED <<backups, tokens, sessions, request, who, history, blind>>

\* ... and the DELETE of the key backup.
DeleteKeyBackup(r) ==
  /\ pc[r] = "backup"
  /\ backups' = backups \ {who[r]}
  /\ Goto(r, "done")
  /\ UNCHANGED <<row, tokens, sessions, request, who, history, blind>>

\* Mutant of UpdateUser: the row that was read is written back whole.
UpdateWholeUser(r) ==
  /\ pc[r] = "write"
  /\ profile' = profile \cup {who[r]}
  /\ mail' = [mail EXCEPT ![who[r]] = arg[r]]
  /\ Goto(r, "done")
  /\ UNCHANGED <<name, hash, deleted, backups, tokens, sessions, request, who, history,
                 blind>>

\* The full name, biography, phone number and pictures; whether the account has been
\* deleted is not asked.
UpdateUser(r) ==
  /\ pc[r] = "write"
  /\ profile' = profile \cup {who[r]}
  /\ Goto(r, "done")
  /\ UNCHANGED <<mail, name, hash, deleted, backups, tokens, sessions, request, who,
                 history, blind>>

PutIdentityBackup(a) ==
  /\ a \in sessions \ backups
  /\ backups' = backups \cup {a}
  /\ UNCHANGED <<row, tokens, sessions, request, who, pc, history, blind>>

\* A call fails and the handler returns, or the process ends.
Fail(r) ==
  /\ Failures
  /\ pc[r] \notin {"idle", "lookName", "look", "done", "failed"}
  /\ Goto(r, "failed")
  /\ UNCHANGED <<row, backups, tokens, sessions, request, who, history, blind>>

Handle(r) ==
  \/ Receive(r) \/ LookName(r) \/ Look(r) \/ CreateUser(r)
  \/ GenerateTokenPair(r) \/ CreateToken(r)
  \/ ValidateToken(r) \/ UpdatePassword(r) \/ MarkUsed(r)
  \/ DeleteAccount(r) \/ SoftDeleteUser(r) \/ DeleteKeyBackup(r)
  \/ UpdateProfile(r) \/ UpdateUser(r)

Next ==
  \/ \E r \in Requests : Handle(r) \/ Fail(r)
  \/ \E a \in Ids : Expire(a) \/ PutIdentityBackup(a)

Spec == Init /\ [][Next]_vars

-----------------------------------------------------------------------------
(* Properties.                                                             *)

\* Nobody who comes after an account was deleted is let into it, although a reset
\* token that is still out gives the account a password again and a profile update
\* a name.
DeletedStaysOut ==
  \A r \in Requests :
    kind[r] \in {"login", "social"} /\ pc[r] = "done" => who[r] \notin goneAt[r]

\* password_reset_repo.go: "marks a token as used so it cannot be reused".  Who
\* comes with a token that has been marked changes no password, also when the token
\* expires meanwhile.
TokenUsedOnce == \A r \in spent : pc[r] \in {"validate", "failed"}

\* docs/api/authentication.md: 409 when the "username or email already exists".
\* An account does not get a mail that another had when its request came in, unless
\* that one has given it up meanwhile or the lookup has failed; nor does one that is
\* registered get such a username.  The username of a social sign-in is anybody's.
TakenOnce ==
  \A r \in Requests :
    mail[r] # None =>
      /\ "mail" \notin blind[r] => \A a \in takenBy[r] : mail[a] # mail[r]
      /\ kind[r] = "register" /\ "name" \notin blind[r]
           => \A a \in namedBy[r] : name[a] # name[r]

\* A deleted account never gets its mail or its username back, whatever is under way.
AnonymousForGood == \A a \in deleted : mail[a] = a /\ name[a] = a
=============================================================================
