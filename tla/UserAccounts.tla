---------------------------- MODULE UserAccounts ----------------------------
(***************************************************************************)
(* Registration, sessions and lockout of one user of the web application:  *)
(* the handlers of authController.js over a Mongoose document.  A call     *)
(* loads the document, awaits, and saves it; in between other calls load   *)
(* and save the same document.  What Mongoose does (external): save()      *)
(* writes the paths that were modified and nothing else; a save that       *)
(* replaces the array `tokens` also requires the version it was loaded     *)
(* with, increments it, and throws VersionError otherwise.  The index on   *)
(* the user name is taken to exist.  "Variant" definitions are buggy forms *)
(* of the definition that follows them and no part of the specification.   *)
(***************************************************************************)
EXTENDS Integers

CONSTANTS
  Callers,       \* requests that may be in progress together
  LockAfter,     \* failed attempts that lock an account: 5 in the code
  MaxIssued,     \* bound: access tokens ever issued
  MaxAttempts,   \* bound: failed logins ever answered
  Null

VARIABLES
  account,    \* the stored document, Null before the registration
  call,       \* the requests in progress, each with the document it loaded
  issued,     \* number of access tokens made so far
  handed,     \* access tokens answered to a client
  voided,     \* access tokens that a change or reset of the password removed
  attempts,   \* failed logins answered so far
  disturbed   \* whether a right password was given, or two logins overlapped

vars == <<account, call, issued, handed, voided, attempts, disturbed>>

\* The stored fields the handlers read back.  lock is "over" when lockUntil is
\* past; the booleans say that an unexpired token of the kind is stored (for the
\* verification of the address it is left open).
Documents == [tokens : SUBSET (1 .. MaxIssued), version : Nat, failures : Nat,
              lock : {"none", "running", "over"}, refresh : BOOLEAN,
              reset : BOOLEAN]

\* What a call keeps of the document; `token` is the one it will answer.
Steps == {"insert", "compare", "token", "refresh", "void", "link", "reset", "verify"}
InProgress == [step : Steps, op : {"login", "change", "other"}, token : 0 .. MaxIssued,
               tokens : SUBSET (1 .. MaxIssued), version : Nat, failures : Nat]
Idle == [step |-> "idle"]

AccountsAssumption ==
  /\ LockAfter \in Nat \ {0} /\ MaxIssued \in Nat /\ MaxAttempts \in Nat
  /\ Null \notin Documents

Found == account # Null
At(c, step) == call[c].step = step
Ends(c) == call' = [call EXCEPT ![c] = Idle]
Save(doc) == account' = doc

Loaded(op, step, doc, failures) ==
  [step |-> step, op |-> op, token |-> 0, tokens |-> doc.tokens,
   version |-> doc.version, failures |-> failures]
NothingRead == [tokens |-> {}, version |-> 0]

Comparing == \E c \in Callers : At(c, "compare")

(* Loading.  A call that finds no document is answered at once and is no
   step here. *)
Begin(c, loaded) ==
  /\ call[c] = Idle
  /\ call' = [call EXCEPT ![c] = loaded]
  /\ disturbed' = (disturbed \/ (loaded.step = "compare" /\ Comparing))
  /\ UNCHANGED <<account, issued, handed, voided, attempts>>

Register(c) == ~Found /\ Begin(c, Loaded("other", "insert", NothingRead, 0))

\* findByCredentials up to the comparison of the password.
FindByCredentials(c) ==
  /\ Found /\ account.lock # "running"
  /\ \E op \in {"login", "change"} :
       Begin(c, Loaded(op, "compare", account, account.failures))

RefreshToken(c) ==
  Found /\ account.refresh /\ Begin(c, Loaded("other", "token", account, 0))
ForgotPassword(c) == Found /\ Begin(c, Loaded("other", "link", NothingRead, 0))
ResetPassword(c) ==
  Found /\ account.reset /\ Begin(c, Loaded("other", "reset", account, 0))
VerifyEmail(c) == Found /\ Begin(c, Loaded("other", "verify", NothingRead, 0))

(* logout, logoutAll, getProfile, updateProfile, generateApiKey, deleteApiKey:
   authenticateToken leaves the decoded token in req.user, which has neither
   tokens nor the methods of a document, so the handler throws at once. *)
SessionHandler(c) == call[c] = Idle /\ handed # {} /\ UNCHANGED vars

\* Saving the replaced array.
\* Variant: the save is not checked against the version.
AnyVersion(c) == TRUE
VersionMatches(c) == call[c].version = account.version

\* Variant: one attempt too few.
OneTooFew(n) == n >= LockAfter - 1
LockReached(n) == n >= LockAfter

\* The rest of findByCredentials, either way.  The count saved is the one
\* loaded, plus one.
WrongPassword(c) ==
  /\ At(c, "compare") /\ attempts < MaxAttempts
  /\ attempts' = attempts + 1
  /\ LET n == call[c].failures + 1
     IN  Save([account EXCEPT !.failures = n,
                              !.lock = IF LockReached(n) THEN "running" ELSE @])
  /\ Ends(c)
  /\ UNCHANGED <<issued, handed, voided, disturbed>>

RightPassword(c) ==
  /\ At(c, "compare")
  /\ disturbed' = TRUE
  /\ Save(IF call[c].failures > 0
            THEN [account EXCEPT !.failures = 0, !.lock = "none"]
            ELSE account)
  /\ call' = [call EXCEPT ![c].step = IF call[c].op = "login" THEN "token" ELSE "void"]
  /\ UNCHANGED <<issued, handed, voided, attempts>>

\* The first save of a registration; a second document is refused by the index.
Insert(c) ==
  /\ At(c, "insert") /\ ~Found
  /\ Save([tokens |-> {}, version |-> 0, failures |-> 0, lock |-> "none",
           refresh |-> FALSE, reset |-> FALSE])
  /\ call' = [call EXCEPT ![c].step = "token"]
  /\ UNCHANGED <<issued, handed, voided, attempts, disturbed>>

GenerateAuthToken(c) ==
  /\ At(c, "token") /\ VersionMatches(c)
  /\ issued < MaxIssued /\ issued' = issued + 1
  /\ Save([account EXCEPT !.tokens = call[c].tokens \cup {issued'}, !.version = @ + 1])
  /\ call' = [call EXCEPT ![c] =
       [Loaded("other", "refresh", NothingRead, 0) EXCEPT !.token = issued']]
  /\ UNCHANGED <<handed, voided, attempts, disturbed>>

\* The access token is answered together with the refresh token.
GenerateRefreshToken(c) ==
  /\ At(c, "refresh")
  /\ Save([account EXCEPT !.refresh = TRUE])
  /\ handed' = handed \cup {call[c].token}
  /\ Ends(c)
  /\ UNCHANGED <<issued, voided, attempts, disturbed>>

\* Replaces the tokens of the loaded document by none: req.token is never set,
\* so the filter of a changed password keeps no token.  Mongoose sees no
\* modification when there were none.
VoidTokens(c, doc) ==
  /\ IF call[c].tokens = {}
       THEN Save(doc) /\ UNCHANGED voided
       ELSE /\ VersionMatches(c)
            /\ Save([doc EXCEPT !.tokens = {}, !.version = @ + 1])
            /\ voided' = voided \cup doc.tokens
  /\ Ends(c)
  /\ UNCHANGED <<issued, handed, attempts, disturbed>>

ChangePassword(c) == At(c, "void") /\ VoidTokens(c, account)
SaveReset(c) == At(c, "reset") /\ VoidTokens(c, [account EXCEPT !.reset = FALSE])

GeneratePasswordResetToken(c) ==
  /\ At(c, "link")
  /\ Save([account EXCEPT !.reset = TRUE])
  /\ Ends(c)
  /\ UNCHANGED <<issued, handed, voided, attempts, disturbed>>

\* The paths it writes are read by no other handler.
SaveVerified(c) ==
  /\ At(c, "verify")
  /\ Ends(c)
  /\ UNCHANGED <<account, issued, handed, voided, attempts, disturbed>>

\* A save that throws (VersionError, duplicate key, database): the call is
\* answered with an error.
Fail(c) ==
  /\ call[c] # Idle
  /\ Ends(c)
  /\ UNCHANGED <<account, issued, handed, voided, attempts, disturbed>>

\* Time passes a stored date.
Expire ==
  /\ Found
  /\ \/ account.lock = "running" /\ Save([account EXCEPT !.lock = "over"])
     \/ account.refresh /\ Save([account EXCEPT !.refresh = FALSE])
     \/ account.reset /\ Save([account EXCEPT !.reset = FALSE])
  /\ UNCHANGED <<call, issued, handed, voided, attempts, disturbed>>

Init ==
  /\ account = Null
  /\ call = [c \in Callers |-> Idle]
  /\ issued = 0 /\ handed = {} /\ voided = {}
  /\ attempts = 0 /\ disturbed = FALSE

Next ==
  \/ \E c \in Callers :
       \/ Register(c) \/ FindByCredentials(c) \/ RefreshToken(c) \/ ForgotPassword(c)
       \/ ResetPassword(c) \/ VerifyEmail(c) \/ SessionHandler(c)
       \/ WrongPassword(c) \/ RightPassword(c) \/ Insert(c)
       \/ GenerateAuthToken(c) \/ GenerateRefreshToken(c)
       \/ ChangePassword(c) \/ GeneratePasswordResetToken(c)
       \/ SaveReset(c) \/ SaveVerified(c) \/ Fail(c)
  \/ Expire

Spec == Init /\ [][Next]_vars

-----------------------------------------------------------------------------
\* Type invariant.
TypeOK ==
  /\ account \in Documents \cup {Null}
  /\ call \in [Callers -> InProgress \cup {Idle}]
  /\ handed \cup voided \subseteq 1 .. issued /\ issued <= MaxIssued
  /\ attempts \in 0 .. MaxAttempts /\ disturbed \in BOOLEAN

\* An access token that a client was given is on the account's list until a
\* change or reset of the password clears the list, whatever logins, refreshes
\* and resets overlap: no save of an older list drops it.
SessionsKept == Found => handed \subseteq account.tokens \cup voided

\* The account is never locked by fewer failed logins than the limit, whatever
\* overlaps; and as many failed logins lock it, unless a right password came in
\* between or two of them overlapped, when they may save the same count.
LockCountsFailures ==
  Found => /\ account.lock # "none" => attempts >= LockAfter
           /\ attempts >= LockAfter /\ ~disturbed => account.lock # "none"
=============================================================================
