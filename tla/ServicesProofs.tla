--------------------------- MODULE ServicesProofs ---------------------------
(***************************************************************************)
(* Proofs about the services around the ledger (Services), for any number  *)
(* of requests, messages, clients and devices and any limits.  Each part   *)
(* has an inductive invariant of its own; as a step of the services is a   *)
(* step of one part that leaves the others, their conjunction is inductive *)
(* too, and every property of Services but the policy's follows from it;   *)
(* that one is in AgentExecutionProofs.                                    *)
(***************************************************************************)
EXTENDS Services, FiniteSetTheorems, SequenceTheorems, TLAPS

-----------------------------------------------------------------------------
(* The accounts.  A request that loaded the document and still has its     *)
(* version also has its list of tokens, which is all that the versioned    *)
(* save checks.                                                            *)

\* The steps at which a call still relies on the list it loaded.
Reading == {"compare", "token", "void", "reset"}

\* What a call in progress knows of the document.
CallKnows(c) ==
  call[c] # Idle =>
    /\ call[c].step # "insert" => Found
    /\ call[c].step = "insert" => call[c].version = 0 /\ call[c].tokens = {}
    /\ call[c].step \in Reading =>
         /\ call[c].version <= account.version
         /\ call[c].version = account.version => call[c].tokens = account.tokens
    /\ call[c].step = "refresh" =>
         /\ call[c].token \in 1 .. issued
         /\ call[c].token \in account.tokens \cup voided

\* The inductive invariant behind SessionsKept.
SessionsInv ==
  /\ TypeOK
  /\ issued \in Nat
  /\ ~Found => handed = {} /\ voided = {} /\ issued = 0
  /\ Found => account.tokens \subseteq 1 .. issued
  /\ \A c \in Callers : CallKnows(c)
  /\ SessionsKept

\* What every step does to the list of tokens: it stays, or it changes together
\* with the version; and a token leaves it only as voided.
ListKept ==
  /\ account' = account \/ account' \in Documents
  /\ issued' \in Nat /\ issued <= issued'
  /\ voided \subseteq voided'
  /\ Found => /\ account'.version = account.version => account'.tokens = account.tokens
              /\ account.version <= account'.version
              /\ account.tokens \subseteq account'.tokens \cup voided'

\* Requests that do not act keep what they know.
LEMMA OthersKeepKnowing ==
  ASSUME AccountsAssumption, SessionsInv, ListKept, NEW c \in Callers,
         call'[c] = call[c]
  PROVE  CallKnows(c)'
<1> SUFFICES ASSUME call[c] # Idle PROVE CallKnows(c)'
  BY DEF CallKnows, Idle
<1>1. call[c] \in InProgress /\ CallKnows(c)
  BY DEF SessionsInv, TypeOK
<1>2. call[c].step # "insert" =>
        /\ Found /\ Found'
        /\ account \in Documents /\ account' \in Documents
  BY <1>1 DEF AccountsAssumption, CallKnows, Found, SessionsInv, TypeOK, ListKept
<1>3. ASSUME call[c].step \in Reading
      PROVE  /\ call[c].version <= account'.version
             /\ call[c].version = account'.version => call[c].tokens = account'.tokens
  <2>1. /\ account.version \in Nat /\ account'.version \in Nat /\ call[c].version \in Nat
        /\ Found
    BY <1>1, <1>2, <1>3 DEF Documents, InProgress, Reading
  <2>2. /\ call[c].version <= account.version /\ account.version <= account'.version
        /\ call[c].version = account.version => call[c].tokens = account.tokens
        /\ account'.version = account.version => account'.tokens = account.tokens
    BY <1>1, <1>3, <2>1 DEF CallKnows, ListKept
  <2>3. call[c].version = account'.version => account'.version = account.version
    BY <2>1, <2>2, SMT
  <2>4. call[c].version <= account'.version
    BY <2>1, <2>2, SMT
  <2>5. QED BY <2>2, <2>3, <2>4
<1>4. ASSUME call[c].step = "refresh"
      PROVE  /\ call[c].token \in 1 .. issued'
             /\ call[c].token \in account'.tokens \cup voided'
  <2>1. Found /\ call[c].token \in 1 .. issued /\ call[c].token \in account.tokens \cup voided
    BY <1>1, <1>2, <1>4 DEF CallKnows
  <2>2. QED BY <2>1 DEF ListKept, SessionsInv
<1>5. QED BY <1>1, <1>2, <1>3, <1>4 DEF CallKnows

\* A step, from what it does to the list and to the calls it changes.
LEMMA StepKeepsSessions ==
  ASSUME AccountsAssumption, SessionsInv, TypeOK', ListKept,
         \A d \in Callers : call'[d] = call[d] \/ CallKnows(d)',
         ~Found' => handed' = {} /\ voided' = {} /\ issued' = 0,
         Found' => account'.tokens \subseteq 1 .. issued',
         handed' = handed \/ (Found' /\ \E t \in account'.tokens \cup voided' :
                                           handed' = handed \cup {t})
  PROVE  SessionsInv'
<1>1. \A d \in Callers : CallKnows(d)'
  BY OthersKeepKnowing
<1>2. SessionsKept'
  <2> SUFFICES ASSUME Found' PROVE handed' \subseteq account'.tokens \cup voided'
    BY DEF SessionsKept
  <2>1. handed \subseteq account'.tokens \cup voided'
    <3>1. CASE Found
      BY <3>1 DEF SessionsInv, SessionsKept, ListKept
    <3>2. CASE ~Found
      BY <3>2 DEF SessionsInv
    <3>3. QED BY <3>1, <3>2
  <2>2. QED BY <2>1
<1>3. QED BY <1>1, <1>2 DEF SessionsInv, ListKept

LEMMA InitSessions == ASSUME AccountsAssumption PROVE Init => SessionsInv
<1> SUFFICES ASSUME Init PROVE SessionsInv
  OBVIOUS
<1>1. TypeOK
  <2>1. handed \cup voided \subseteq 1 .. issued /\ issued <= MaxIssued
    BY SMT DEF AccountsAssumption, Init
  <2>2. attempts \in 0 .. MaxAttempts
    BY SMT DEF AccountsAssumption, Init
  <2>3. QED BY <2>1, <2>2 DEF Init, TypeOK
<1>2. QED BY <1>1 DEF Init, SessionsInv, Found, CallKnows, SessionsKept

-----------------------------------------------------------------------------
(* The steps of SessionsInv                                                *)

\* A call begins or ends, and the document stays as it is.
LEMMA CallMoves ==
  ASSUME AccountsAssumption, SessionsInv, NEW c \in Callers,
         NEW loaded \in InProgress \cup {Idle},
         call' = [call EXCEPT ![c] = loaded],
         UNCHANGED <<account, issued, handed, voided>>,
         attempts' \in 0 .. MaxAttempts, disturbed' \in BOOLEAN,
         loaded # Idle =>
           /\ loaded.step # "refresh"
           /\ loaded.step # "insert" => Found
           /\ loaded.step = "insert" => loaded.version = 0 /\ loaded.tokens = {}
           /\ loaded.step \in Reading => /\ loaded.version = account.version
                                         /\ loaded.tokens = account.tokens
  PROVE  SessionsInv'
<1>1. /\ call'[c] = loaded /\ \A d \in Callers \ {c} : call'[d] = call[d]
      /\ call' \in [Callers -> InProgress \cup {Idle}]
  BY DEF SessionsInv, TypeOK
<1>2. TypeOK'
  BY <1>1 DEF SessionsInv, TypeOK
<1>3. ListKept
  <2>1. Found => account.version <= account.version
    BY DEF SessionsInv, TypeOK, Found, Documents
  <2>2. issued <= issued
    BY DEF SessionsInv
  <2>3. QED BY <2>1, <2>2 DEF ListKept, SessionsInv
<1>4. Found' = Found
  BY DEF Found
<1>5. CallKnows(c)'
  <2>1. Found => account.version <= account.version
    BY DEF SessionsInv, TypeOK, Found, Documents
  <2>2. loaded # Idle /\ loaded.step \in Reading => Found
    BY DEF Reading
  <2>3. QED BY <1>1, <1>4, <2>1, <2>2 DEF CallKnows
<1>6. QED BY <1>1, <1>2, <1>3, <1>4, <1>5, StepKeepsSessions DEF SessionsInv

\* The handlers that only load the document.
LEMMA LoadingKeeps ==
  ASSUME AccountsAssumption, SessionsInv, NEW c \in Callers,
         \/ Register(c) \/ FindByCredentials(c) \/ RefreshToken(c) \/ ForgotPassword(c)
         \/ ResetPassword(c) \/ VerifyEmail(c)
  PROVE  SessionsInv'
<1>1. PICK loaded \in InProgress :
        /\ Begin(c, loaded)
        /\ loaded.step # "refresh"
        /\ loaded.step # "insert" => Found
        /\ loaded.step = "insert" => loaded.version = 0 /\ loaded.tokens = {}
        /\ loaded.step \in Reading => /\ loaded.version = account.version
                                      /\ loaded.tokens = account.tokens
  <2>1. Found => account \in Documents
    BY DEF SessionsInv, TypeOK, Found
  <2>2. ASSUME NEW op \in {"login", "change", "other"}, NEW s \in Steps \ Reading
        PROVE  /\ Loaded(op, s, NothingRead, 0) \in InProgress
               /\ Loaded(op, s, NothingRead, 0).step = s
               /\ Loaded(op, s, NothingRead, 0).version = 0
               /\ Loaded(op, s, NothingRead, 0).tokens = {}
    BY DEF Loaded, NothingRead, InProgress, AccountsAssumption
  <2>3. ASSUME Found, NEW op \in {"login", "change", "other"}, NEW s \in Steps, NEW n \in Nat
        PROVE  /\ Loaded(op, s, account, n) \in InProgress
               /\ Loaded(op, s, account, n).step = s
               /\ Loaded(op, s, account, n).version = account.version
               /\ Loaded(op, s, account, n).tokens = account.tokens
    BY <2>1, <2>3 DEF Loaded, InProgress, AccountsAssumption, Documents
  <2>4. CASE Register(c)
    BY <2>2, <2>4 DEF Register, Steps, Reading
  <2>5. CASE FindByCredentials(c)
    BY <2>1, <2>3, <2>5 DEF FindByCredentials, Steps, Documents
  <2>6. CASE RefreshToken(c)
    BY <2>3, <2>6 DEF RefreshToken, Steps
  <2>7. CASE ForgotPassword(c)
    BY <2>2, <2>7 DEF ForgotPassword, Steps, Reading
  <2>8. CASE ResetPassword(c)
    BY <2>3, <2>8 DEF ResetPassword, Steps
  <2>9. CASE VerifyEmail(c)
    BY <2>2, <2>9 DEF VerifyEmail, Steps, Reading
  <2>10. QED BY <2>4, <2>5, <2>6, <2>7, <2>8, <2>9
<1>2. /\ call' = [call EXCEPT ![c] = loaded]
      /\ UNCHANGED <<account, issued, handed, voided, attempts>>
      /\ disturbed' \in BOOLEAN
  BY <1>1 DEF Begin
<1>3. attempts \in 0 .. MaxAttempts
  BY DEF SessionsInv, TypeOK
<1>4. QED BY <1>1, <1>2, <1>3, CallMoves

\* A save that leaves the list and its version alone.
LEMMA SaveMoves ==
  ASSUME AccountsAssumption, SessionsInv, Found, account' \in Documents,
         account'.tokens = account.tokens, account'.version = account.version,
         UNCHANGED <<issued, voided>>,
         attempts' \in 0 .. MaxAttempts, disturbed' \in BOOLEAN,
         call' \in [Callers -> InProgress \cup {Idle}],
         \A c \in Callers : call'[c] # call[c] /\ call'[c] # Idle =>
           /\ call[c] # Idle /\ call[c].step \in Reading /\ call'[c].step \in Reading
           /\ call'[c].version = call[c].version /\ call'[c].tokens = call[c].tokens,
         handed' = handed \/ \E c \in Callers : At(c, "refresh") /\ handed' = handed \cup {call[c].token}
  PROVE  SessionsInv'
<1>1. account \in Documents /\ account' # Null /\ Found'
  BY DEF AccountsAssumption, SessionsInv, TypeOK, Found
<1>2. \A c \in Callers : At(c, "refresh") =>
        call[c].token \in account'.tokens \cup voided' /\ call[c].token \in 1 .. issued
  BY DEF At, Idle, SessionsInv, CallKnows
<1>3. TypeOK'
  BY <1>2 DEF SessionsInv, TypeOK
<1>4. ListKept
  <2>1. account.version <= account'.version /\ issued <= issued'
    BY <1>1, SMT DEF SessionsInv, Documents
  <2>2. QED BY <2>1 DEF ListKept, SessionsInv
<1>5. ASSUME NEW c \in Callers, call'[c] # call[c]
      PROVE  CallKnows(c)'
  <2>1. CASE call'[c] = Idle
    BY <2>1 DEF CallKnows
  <2>2. CASE call'[c] # Idle
    BY <1>1, <1>5, <2>2 DEF CallKnows, SessionsInv, Reading
  <2>3. QED BY <2>1, <2>2
<1>6. handed' = handed \/ \E t \in account'.tokens \cup voided' : handed' = handed \cup {t}
  BY <1>2
<1>7. account'.tokens \subseteq 1 .. issued'
  BY DEF SessionsInv
<1>8. QED BY <1>1, <1>3, <1>4, <1>5, <1>6, <1>7, StepKeepsSessions

\* The handlers that save other fields only.
LEMMA SavingKeeps ==
  ASSUME AccountsAssumption, SessionsInv, NEW c \in Callers,
         \/ WrongPassword(c) \/ RightPassword(c) \/ GenerateRefreshToken(c)
         \/ GeneratePasswordResetToken(c)
  PROVE  SessionsInv'
<1>1. /\ At(c, "compare") \/ At(c, "refresh") \/ At(c, "link")
      /\ call[c] # Idle /\ call[c] \in InProgress
      /\ Found /\ account \in Documents
  <2>1. At(c, "compare") \/ At(c, "refresh") \/ At(c, "link")
    BY DEF WrongPassword, RightPassword, GenerateRefreshToken, GeneratePasswordResetToken
  <2>2. call[c] # Idle /\ call[c].step # "insert"
    BY <2>1 DEF At, Idle
  <2>3. QED BY <2>1, <2>2 DEF SessionsInv, TypeOK, CallKnows, Found
<1>2. /\ account' \in Documents
      /\ account'.tokens = account.tokens /\ account'.version = account.version
  <2>1. call[c].failures \in Nat /\ call[c].failures + 1 \in Nat
    BY <1>1 DEF InProgress
  <2>2. CASE WrongPassword(c)
    BY <1>1, <2>1, <2>2 DEF WrongPassword, Save, Documents
  <2>3. CASE RightPassword(c)
    BY <1>1, <2>3 DEF RightPassword, Save, Documents
  <2>4. CASE GenerateRefreshToken(c)
    BY <1>1, <2>4 DEF GenerateRefreshToken, Save, Documents
  <2>5. CASE GeneratePasswordResetToken(c)
    BY <1>1, <2>5 DEF GeneratePasswordResetToken, Save, Documents
  <2>6. QED BY <2>2, <2>3, <2>4, <2>5
<1>3. attempts' \in 0 .. MaxAttempts
  BY SMT
  DEF AccountsAssumption, SessionsInv, TypeOK, WrongPassword, RightPassword,
      GenerateRefreshToken, GeneratePasswordResetToken
<1>4. /\ UNCHANGED <<issued, voided>> /\ disturbed' \in BOOLEAN
      /\ handed' = handed \/ (At(c, "refresh") /\ handed' = handed \cup {call[c].token})
  BY DEF SessionsInv, TypeOK, WrongPassword, RightPassword, GenerateRefreshToken,
         GeneratePasswordResetToken
<1>5. \/ call' = [call EXCEPT ![c] = Idle]
      \/ /\ At(c, "compare")
         /\ \E s \in {"token", "void"} : call' = [call EXCEPT ![c].step = s]
  BY DEF WrongPassword, RightPassword, GenerateRefreshToken, GeneratePasswordResetToken, Ends
<1>6. /\ call' \in [Callers -> InProgress \cup {Idle}]
      /\ \A d \in Callers : call'[d] # call[d] /\ call'[d] # Idle =>
           /\ call[d] # Idle /\ call[d].step \in Reading /\ call'[d].step \in Reading
           /\ call'[d].version = call[d].version /\ call'[d].tokens = call[d].tokens
  <2>1. CASE call' = [call EXCEPT ![c] = Idle]
    BY <2>1 DEF SessionsInv, TypeOK
  <2>2. ASSUME At(c, "compare"), NEW s \in {"token", "void"},
               call' = [call EXCEPT ![c].step = s]
        PROVE  <1>6!:
    <3> DEFINE after == [call[c] EXCEPT !.step = s]
    <3>1. /\ after \in InProgress /\ after.step = s
          /\ after.version = call[c].version /\ after.tokens = call[c].tokens
      BY <1>1 DEF InProgress, Steps
    <3>2. call' = [call EXCEPT ![c] = after]
      BY <2>2
    <3> HIDE DEF after
    <3>3. QED BY <1>1, <2>2, <3>1, <3>2 DEF SessionsInv, TypeOK, At, Reading
  <2>3. QED BY <1>5, <2>1, <2>2
<1>7. QED BY <1>1, <1>2, <1>3, <1>4, <1>6, SaveMoves

LEMMA InsertKeeps ==
  ASSUME AccountsAssumption, SessionsInv, NEW c \in Callers, Insert(c)
  PROVE  SessionsInv'
<1> DEFINE doc == [tokens |-> {}, version |-> 0, failures |-> 0, lock |-> "none",
                   refresh |-> FALSE, reset |-> FALSE]
           after == [call[c] EXCEPT !.step = "token"]
<1>1. /\ call[c] # Idle /\ call[c] \in InProgress /\ call[c].step = "insert"
      /\ ~Found /\ account' = doc /\ call' = [call EXCEPT ![c] = after]
      /\ UNCHANGED <<issued, handed, voided, attempts, disturbed>>
      /\ handed = {} /\ voided = {} /\ issued = 0
  BY DEF Insert, At, Save, Idle, SessionsInv, TypeOK
<1>2. doc \in Documents /\ doc.tokens = {} /\ doc.version = 0
  BY DEF Documents, AccountsAssumption
<1>3. after \in InProgress /\ after.step = "token"
      /\ after.version = call[c].version /\ after.tokens = call[c].tokens
  BY <1>1 DEF InProgress, Steps
<1> HIDE DEF doc, after
<1>4. Found'
  BY <1>1, <1>2 DEF Found, AccountsAssumption
<1>5. call[c].version = 0 /\ call[c].tokens = {}
  BY <1>1 DEF SessionsInv, CallKnows
<1>6. TypeOK'
  BY <1>1, <1>2, <1>3 DEF SessionsInv, TypeOK
<1>7. ListKept
  BY <1>1, <1>2 DEF ListKept, SessionsInv
<1>8. /\ call'[c] = after
      /\ \A d \in Callers \ {c} : call'[d] = call[d]
  BY <1>1 DEF SessionsInv, TypeOK
<1>9. CallKnows(c)'
  BY <1>1, <1>2, <1>3, <1>4, <1>5, <1>8 DEF CallKnows
<1>10. QED BY <1>1, <1>2, <1>4, <1>6, <1>7, <1>8, <1>9, StepKeepsSessions

\* The versioned saves.  With the version, the list loaded is the list stored.
LEMMA IssueKeeps ==
  ASSUME AccountsAssumption, SessionsInv, NEW c \in Callers, GenerateAuthToken(c)
  PROVE  SessionsInv'
<1> PICK n : n = issued + 1
  OBVIOUS
<1> DEFINE doc == [account EXCEPT !.tokens = call[c].tokens \cup {n}, !.version = @ + 1]
           after == [Loaded("other", "refresh", NothingRead, 0) EXCEPT !.token = n]
<1>1. /\ call[c] # Idle /\ call[c] \in InProgress /\ call[c].step = "token"
      /\ Found /\ account \in Documents
      /\ call[c].tokens = account.tokens
      /\ n \in 1 .. MaxIssued /\ n \in Nat /\ issued \in Nat
  <2>1. call[c] # Idle /\ call[c].step = "token" /\ call[c] \in InProgress
    BY DEF GenerateAuthToken, At, Idle, SessionsInv, TypeOK
  <2>2. Found /\ account \in Documents /\ call[c].tokens = account.tokens
    BY <2>1 DEF GenerateAuthToken, VersionMatches, SessionsInv, TypeOK, CallKnows, Reading, Found
  <2>3. n \in 1 .. MaxIssued
    BY SMT DEF GenerateAuthToken, SessionsInv, AccountsAssumption
  <2>4. QED BY <2>1, <2>2, <2>3 DEF SessionsInv
<1>2. /\ issued' = n /\ account' = doc /\ call' = [call EXCEPT ![c] = after]
      /\ UNCHANGED <<handed, voided, attempts, disturbed>>
  BY DEF GenerateAuthToken, Save
<1>3. /\ doc \in Documents /\ doc.tokens = account.tokens \cup {n}
      /\ doc.version = account.version + 1 /\ account.version \in Nat
  <2>1. /\ account.version \in Nat /\ account.version + 1 \in Nat
        /\ account.tokens \cup {n} \in SUBSET (1 .. MaxIssued)
    BY <1>1 DEF Documents
  <2>2. doc = [account EXCEPT !.tokens = account.tokens \cup {n}, !.version = account.version + 1]
    BY <1>1
  <2> HIDE DEF doc
  <2>3. QED BY <1>1, <2>1, <2>2 DEF Documents
<1>4. after \in InProgress /\ after.step = "refresh" /\ after.token = n
  BY <1>1 DEF Loaded, NothingRead, InProgress, Steps, AccountsAssumption
<1> HIDE DEF doc, after
<1>5. Found'
  BY <1>2, <1>3 DEF Found, AccountsAssumption
<1>6. /\ call'[c] = after /\ call' \in [Callers -> InProgress \cup {Idle}]
      /\ \A d \in Callers \ {c} : call'[d] = call[d]
  BY <1>2, <1>4 DEF SessionsInv, TypeOK
<1>7. TypeOK'
  <2>1. handed' \cup voided' \subseteq 1 .. issued' /\ issued' <= MaxIssued
    BY <1>1, <1>2 DEF SessionsInv, TypeOK
  <2>2. QED BY <1>2, <1>3, <1>6, <2>1 DEF SessionsInv, TypeOK
<1>8. ListKept
  <2>1. /\ doc.version # account.version /\ account.version <= doc.version
        /\ issued <= n
    BY <1>1, <1>3, SMT
  <2>2. QED BY <1>1, <1>2, <1>3, <2>1 DEF ListKept
<1>9. CallKnows(c)'
  BY <1>1, <1>2, <1>3, <1>4, <1>5, <1>6 DEF CallKnows, Reading
<1>10. account'.tokens \subseteq 1 .. issued'
  <2>1. 1 .. issued \subseteq 1 .. n /\ n \in 1 .. n
    BY <1>1
  <2>2. QED BY <1>1, <1>2, <1>3, <2>1 DEF SessionsInv
<1>11. QED BY <1>2, <1>5, <1>6, <1>7, <1>8, <1>9, <1>10, StepKeepsSessions

LEMMA VoidKeeps ==
  ASSUME AccountsAssumption, SessionsInv, NEW c \in Callers,
         ChangePassword(c) \/ SaveReset(c)
  PROVE  SessionsInv'
<1>1. /\ call[c] # Idle /\ call[c] \in InProgress
      /\ Found /\ account \in Documents
      /\ call[c].version = account.version => call[c].tokens = account.tokens
  <2>1. call[c] # Idle /\ call[c].step \in {"void", "reset"} /\ call[c] \in InProgress
    BY DEF ChangePassword, SaveReset, At, Idle, SessionsInv, TypeOK
  <2>2. QED BY <2>1 DEF SessionsInv, TypeOK, CallKnows, Reading, Found
<1>2. PICK doc \in Documents : /\ VoidTokens(c, doc)
                               /\ doc.tokens = account.tokens /\ doc.version = account.version
  <2>1. CASE ChangePassword(c)
    BY <1>1, <2>1 DEF ChangePassword
  <2>2. CASE SaveReset(c)
    <3> DEFINE cleared == [account EXCEPT !.reset = FALSE]
    <3>1. /\ cleared \in Documents
          /\ cleared.tokens = account.tokens /\ cleared.version = account.version
      BY <1>1 DEF Documents
    <3>2. VoidTokens(c, cleared)
      BY <2>2 DEF SaveReset
    <3> HIDE DEF cleared
    <3>3. QED BY <3>1, <3>2
  <2>3. QED BY <2>1, <2>2
<1>3. /\ call' = [call EXCEPT ![c] = Idle]
      /\ UNCHANGED <<issued, handed, attempts, disturbed>>
  BY <1>2 DEF VoidTokens, Ends
<1>4. call'[c] = Idle /\ \A d \in Callers \ {c} : call'[d] = call[d]
  BY <1>3 DEF SessionsInv, TypeOK
<1>5. CASE call[c].tokens = {}
  <2>1. account' = doc /\ voided' = voided
    BY <1>2, <1>5 DEF VoidTokens, Save
  <2>2. call' \in [Callers -> InProgress \cup {Idle}]
    BY <1>3 DEF SessionsInv, TypeOK
  <2>3. attempts' \in 0 .. MaxAttempts /\ disturbed' \in BOOLEAN
    BY <1>3 DEF SessionsInv, TypeOK
  <2>4. \A d \in Callers : call'[d] # call[d] /\ call'[d] # Idle => FALSE
    BY <1>4
  <2>5. QED BY <1>1, <1>2, <1>3, <2>1, <2>2, <2>3, <2>4, SaveMoves
<1>6. CASE call[c].tokens # {}
  <2> DEFINE after == [doc EXCEPT !.tokens = {}, !.version = @ + 1]
  <2>1. /\ account' = after /\ voided' = voided \cup account.tokens
    BY <1>2, <1>6 DEF VoidTokens, Save
  <2>2. /\ after \in Documents /\ after.tokens = {} /\ after.version = account.version + 1
        /\ account.version \in Nat
    <3>1. doc.version \in Nat /\ doc.version + 1 \in Nat
      BY DEF Documents
    <3>2. /\ after \in Documents /\ after.tokens = {} /\ after.version = doc.version + 1
      BY <3>1 DEF Documents
    <3> HIDE DEF after
    <3>3. QED BY <1>2, <3>1, <3>2
  <2> HIDE DEF after
  <2>3. Found'
    BY <2>1, <2>2 DEF Found, AccountsAssumption
  <2>4. TypeOK'
    <3>1. call' \in [Callers -> InProgress \cup {Idle}]
      BY <1>3 DEF SessionsInv, TypeOK
    <3>2. handed' \cup voided' \subseteq 1 .. issued'
      BY <1>1, <1>3, <2>1 DEF SessionsInv, TypeOK
    <3>3. QED BY <1>3, <2>1, <2>2, <3>1, <3>2 DEF SessionsInv, TypeOK
  <2>5. ListKept
    <3>1. /\ after.version # account.version /\ account.version <= after.version
          /\ issued \in Nat /\ issued <= issued
      BY <2>2, SMT DEF SessionsInv
    <3>2. QED BY <1>3, <2>1, <2>2, <3>1 DEF ListKept
  <2>6. CallKnows(c)'
    BY <1>4 DEF CallKnows
  <2>7. QED BY <1>3, <1>4, <2>1, <2>2, <2>3, <2>4, <2>5, <2>6, StepKeepsSessions
<1>7. QED BY <1>5, <1>6

LEMMA ExpireKeeps ==
  ASSUME AccountsAssumption, SessionsInv, Expire PROVE SessionsInv'
<1>1. Found /\ account \in Documents
  BY DEF Expire, SessionsInv, TypeOK, Found
<1>2. /\ account' \in Documents
      /\ account'.tokens = account.tokens /\ account'.version = account.version
  BY <1>1 DEF Expire, Save, Documents
<1>3. UNCHANGED <<call, issued, handed, voided, attempts, disturbed>>
  BY DEF Expire
<1>4. /\ attempts' \in 0 .. MaxAttempts /\ disturbed' \in BOOLEAN
      /\ call' \in [Callers -> InProgress \cup {Idle}]
  BY <1>3 DEF SessionsInv, TypeOK
<1>5. QED BY <1>1, <1>2, <1>3, <1>4, SaveMoves

LEMMA UnchangedSessions ==
  ASSUME SessionsInv, UNCHANGED vars PROVE SessionsInv'
BY DEF vars, SessionsInv, TypeOK, CallKnows, SessionsKept, Found

LEMMA NextSessions ==
  ASSUME AccountsAssumption, SessionsInv, [Next]_vars PROVE SessionsInv'
<1>1. ASSUME NEW c \in Callers, SaveVerified(c) \/ Fail(c) PROVE SessionsInv'
  <2>1. /\ call' = [call EXCEPT ![c] = Idle]
        /\ UNCHANGED <<account, issued, handed, voided>>
        /\ attempts' \in 0 .. MaxAttempts /\ disturbed' \in BOOLEAN
    BY <1>1 DEF SaveVerified, Fail, Ends, SessionsInv, TypeOK
  <2>2. QED BY <2>1, CallMoves
<1>2. ASSUME NEW c \in Callers, SessionHandler(c) PROVE SessionsInv'
  BY <1>2, UnchangedSessions DEF SessionHandler
<1>3. QED
  BY <1>1, <1>2, LoadingKeeps, SavingKeeps, InsertKeeps, IssueKeeps, VoidKeeps,
     ExpireKeeps, UnchangedSessions
  DEF Next

-----------------------------------------------------------------------------
(* The lock                                                                *)

\* The inductive invariant behind LockCountsFailures: no count, stored or
\* loaded, exceeds the failed logins, and undisturbed they are equal.
LockInv ==
  /\ ~Found => attempts = 0
  /\ Found => /\ account.failures <= attempts
              /\ account.lock # "none" => attempts >= LockAfter
              /\ ~disturbed => /\ account.failures = attempts
                               /\ attempts >= LockAfter => account.lock # "none"
  /\ \A c \in Callers : At(c, "compare") =>
       /\ call[c].failures <= attempts
       /\ ~disturbed => call[c].failures = attempts
  /\ ~disturbed => \A c, d \in Callers : At(c, "compare") /\ At(d, "compare") => c = d

\* Steps that neither compare a password nor touch what the lock is made of.
LEMMA LockFrame ==
  ASSUME LockInv, UNCHANGED <<attempts, disturbed>>, Found' => Found, Found => Found',
         Found => /\ account'.failures = account.failures
                  /\ (account'.lock = "none") <=> (account.lock = "none"),
         \A c \in Callers : At(c, "compare")' =>
           At(c, "compare") /\ call'[c].failures = call[c].failures
  PROVE  LockInv'
<1>1. Found' = Found
  BY DEF Found
<1>2. /\ ~Found' => attempts' = 0
      /\ Found' => /\ account'.failures <= attempts'
                   /\ account'.lock # "none" => attempts' >= LockAfter
                   /\ ~disturbed' => /\ account'.failures = attempts'
                                     /\ attempts' >= LockAfter => account'.lock # "none"
  BY <1>1 DEF LockInv
<1>3. \A c \in Callers : At(c, "compare")' =>
        /\ call'[c].failures <= attempts'
        /\ ~disturbed' => call'[c].failures = attempts'
  BY DEF LockInv
<1>4. ~disturbed' => \A c, d \in Callers : At(c, "compare")' /\ At(d, "compare")' => c = d
  BY DEF LockInv
<1>5. QED BY <1>2, <1>3, <1>4 DEF LockInv

\* A call that begins with the comparison takes the stored count along.
LEMMA LoadingKeepsLock ==
  ASSUME AccountsAssumption, SessionsInv, LockInv, NEW c \in Callers,
         \/ Register(c) \/ FindByCredentials(c) \/ RefreshToken(c) \/ ForgotPassword(c)
         \/ ResetPassword(c) \/ VerifyEmail(c)
  PROVE  LockInv'
<1>1. UNCHANGED <<account, attempts>> /\ \A d \in Callers \ {c} : call'[d] = call[d]
  BY DEF SessionsInv, TypeOK, Begin, Register, FindByCredentials, RefreshToken,
         ForgotPassword, ResetPassword, VerifyEmail
<1>2. Found' = Found
  BY <1>1 DEF Found
<1>3. CASE ~FindByCredentials(c)
  <2>1. disturbed' = disturbed /\ ~At(c, "compare")'
    BY <1>3
    DEF SessionsInv, TypeOK, Begin, Loaded, Register, RefreshToken, ForgotPassword,
        ResetPassword, VerifyEmail, At
  <2>2. \A d \in Callers : At(d, "compare")' =>
          At(d, "compare") /\ call'[d].failures = call[d].failures
    BY <1>1, <2>1 DEF At
  <2>3. QED BY <1>1, <1>2, <2>1, <2>2, LockFrame
<1>4. CASE FindByCredentials(c)
  <2>1. /\ Found /\ call'[c].failures = account.failures
        /\ disturbed' = (disturbed \/ Comparing)
    BY <1>4 DEF FindByCredentials, Begin, Loaded, SessionsInv, TypeOK
  <2>2. \A d \in Callers \ {c} : At(d, "compare")' => At(d, "compare") /\ Comparing
    BY <1>1 DEF At, Comparing
  <2>3. ~disturbed' => ~disturbed /\ \A d \in Callers \ {c} : ~At(d, "compare")'
    BY <2>1, <2>2
  <2>4. \A d \in Callers : At(d, "compare")' =>
          /\ call'[d].failures <= attempts
          /\ ~disturbed' => call'[d].failures = attempts
    BY <1>1, <2>1, <2>2, <2>3 DEF LockInv
  <2>5. /\ account'.failures <= attempts
        /\ account'.lock # "none" => attempts >= LockAfter
        /\ ~disturbed' => /\ account'.failures = attempts
                          /\ attempts >= LockAfter => account'.lock # "none"
    BY <1>1, <2>1, <2>3 DEF LockInv
  <2>6. QED BY <1>1, <1>2, <2>1, <2>3, <2>4, <2>5 DEF LockInv
<1>5. QED BY <1>3, <1>4

\* A failed login adds one to the count it loaded.
LEMMA WrongKeepsLock ==
  ASSUME AccountsAssumption, SessionsInv, LockInv, NEW c \in Callers, WrongPassword(c)
  PROVE  LockInv'
<1> PICK n : n = call[c].failures + 1
  OBVIOUS
<1>1. /\ call[c] # Idle /\ call[c] \in InProgress
      /\ Found /\ account \in Documents
      /\ At(c, "compare")
  <2>1. call[c].step = "compare" /\ call[c] # Idle
    BY DEF WrongPassword, At, Idle
  <2>2. QED BY <2>1 DEF SessionsInv, TypeOK, CallKnows, Found, At
<1>2. /\ attempts' = attempts + 1 /\ disturbed' = disturbed
      /\ account' = [account EXCEPT !.failures = n,
                                    !.lock = IF LockReached(n) THEN "running" ELSE @]
      /\ call' = [call EXCEPT ![c] = Idle]
  BY DEF WrongPassword, Save, Ends
<1>3. /\ attempts \in Nat /\ call[c].failures \in Nat /\ LockAfter \in Nat
      /\ call[c].failures <= attempts
      /\ ~disturbed => call[c].failures = attempts
  BY <1>1 DEF SessionsInv, TypeOK, InProgress, LockInv, AccountsAssumption
<1>4. n <= attempts' /\ (~disturbed => n = attempts') /\ attempts <= attempts'
  BY <1>2, <1>3, SMT
<1>5. /\ account'.failures = n
      /\ account'.lock = IF LockReached(n) THEN "running" ELSE account.lock
  BY <1>1, <1>2 DEF Documents
<1>6. /\ account'.lock # "none" => attempts' >= LockAfter
      /\ ~disturbed /\ attempts' >= LockAfter => account'.lock # "none"
  <2>1. LockReached(n) <=> n >= LockAfter
    BY DEF LockReached
  <2>2. n \in Nat /\ attempts' \in Nat
    BY <1>2, <1>3
  <2>3. CASE n >= LockAfter
    <3>1. attempts' >= LockAfter
      BY <1>3, <1>4, <2>2, <2>3, SMT
    <3>2. account'.lock = "running"
      BY <1>5, <2>1, <2>3
    <3>3. QED BY <3>1, <3>2
  <2>4. CASE ~(n >= LockAfter)
    <3>1. account'.lock = account.lock
      BY <1>5, <2>1, <2>4
    <3>2. account.lock # "none" => attempts >= LockAfter
      BY <1>1 DEF LockInv
    <3>3. attempts >= LockAfter => attempts' >= LockAfter
      BY <1>3, <1>4, <2>2, SMT
    <3>4. ~disturbed => ~(attempts' >= LockAfter)
      BY <1>4, <2>4
    <3>5. QED BY <3>1, <3>2, <3>3, <3>4
  <2>5. QED BY <2>3, <2>4
<1>7. ~At(c, "compare")' /\ \A d \in Callers \ {c} : call'[d] = call[d]
  BY <1>2 DEF SessionsInv, TypeOK, At, Idle
<1>8. \A d \in Callers : At(d, "compare")' =>
        /\ call'[d].failures <= attempts'
        /\ ~disturbed' => FALSE
  <2> SUFFICES ASSUME NEW d \in Callers, At(d, "compare")'
               PROVE  /\ call'[d].failures <= attempts'
                      /\ ~disturbed' => FALSE
    OBVIOUS
  <2>1. d # c /\ call'[d] = call[d] /\ At(d, "compare") /\ call[d] # Idle
    BY <1>7 DEF At, Idle
  <2>2. call[d].failures \in Nat /\ call[d].failures <= attempts
    BY <2>1 DEF LockInv, SessionsInv, TypeOK, InProgress
  <2>3. call'[d].failures <= attempts'
    BY <1>2, <1>3, <2>1, <2>2, SMT
  <2>4. disturbed'
    BY <1>1, <1>2, <2>1 DEF LockInv
  <2>5. QED BY <2>3, <2>4
<1>9. Found'
  <2>1. n \in Nat
    BY <1>3
  <2>2. account' \in Documents
    BY <1>1, <1>2, <2>1 DEF Documents
  <2>3. QED BY <2>2 DEF Found, AccountsAssumption
<1>10. QED BY <1>2, <1>4, <1>5, <1>6, <1>8, <1>9 DEF LockInv

LEMMA RightKeepsLock ==
  ASSUME AccountsAssumption, SessionsInv, SessionsInv', LockInv, NEW c \in Callers,
         RightPassword(c)
  PROVE  LockInv'
<1>1. /\ call[c] # Idle /\ Found /\ account \in Documents /\ attempts \in Nat
      /\ At(c, "compare")
  <2>1. call[c].step = "compare" /\ call[c] # Idle
    BY DEF RightPassword, At, Idle
  <2>2. QED BY <2>1 DEF SessionsInv, TypeOK, CallKnows, Found, At, AccountsAssumption
<1>2. /\ disturbed' /\ attempts' = attempts
      /\ \/ account' = [account EXCEPT !.failures = 0, !.lock = "none"]
         \/ account' = account
      /\ \E s \in {"token", "void"} : call' = [call EXCEPT ![c].step = s]
  BY DEF RightPassword, Save
<1>3. account'.failures <= attempts' /\ (account'.lock # "none" => attempts' >= LockAfter)
  <2>1. \/ account'.failures = 0 /\ account'.lock = "none"
        \/ account' = account
    BY <1>1, <1>2 DEF Documents
  <2>2. QED BY <1>1, <1>2, <2>1 DEF LockInv
<1>4. \A d \in Callers : At(d, "compare")' => call'[d].failures <= attempts'
  <2>1. ~At(c, "compare")' /\ \A d \in Callers \ {c} : call'[d] = call[d]
    BY <1>1, <1>2 DEF SessionsInv, TypeOK, At, InProgress
  <2>2. QED BY <1>2, <2>1 DEF LockInv, At
<1>5. Found'
  <2>1. [account EXCEPT !.failures = 0, !.lock = "none"] \in Documents
    BY <1>1 DEF Documents
  <2>2. account' \in Documents
    BY <1>1, <1>2, <2>1
  <2>3. QED BY <2>2 DEF Found, AccountsAssumption
<1>6. QED BY <1>2, <1>3, <1>4, <1>5 DEF LockInv

LEMMA InsertKeepsLock ==
  ASSUME AccountsAssumption, SessionsInv, LockInv, NEW c \in Callers, Insert(c)
  PROVE  LockInv'
<1>1. /\ attempts = 0 /\ UNCHANGED <<attempts, disturbed>>
      /\ account'.failures = 0 /\ account'.lock = "none"
      /\ call' = [call EXCEPT ![c].step = "token"]
      /\ LockAfter \in Nat \ {0}
  BY DEF Insert, Save, LockInv, AccountsAssumption
<1>2. ~(attempts' >= LockAfter) /\ account'.failures <= attempts'
  BY <1>1, SMT
<1>3. \A d \in Callers : ~At(d, "compare")'
  <2>1. \A d \in Callers : ~At(d, "compare")
    BY DEF Insert, SessionsInv, CallKnows, At, Idle
  <2>2. ~At(c, "compare")' /\ \A d \in Callers \ {c} : call'[d] = call[d]
    <3>1. call[c] \in InProgress
      BY DEF Insert, At, Idle, SessionsInv, TypeOK
    <3>2. QED BY <1>1, <3>1 DEF SessionsInv, TypeOK, At, InProgress
  <2>3. QED BY <2>1, <2>2 DEF At
<1>4. QED BY <1>1, <1>2, <1>3 DEF LockInv

\* The saves of other fields, and the ends of calls.
LEMMA OthersKeepLock ==
  ASSUME AccountsAssumption, SessionsInv, SessionsInv', LockInv, NEW c \in Callers,
         \/ GenerateAuthToken(c) \/ GenerateRefreshToken(c) \/ ChangePassword(c)
         \/ GeneratePasswordResetToken(c) \/ SaveReset(c) \/ SaveVerified(c) \/ Fail(c)
  PROVE  LockInv'
<1>1. UNCHANGED <<attempts, disturbed>>
  BY DEF GenerateAuthToken, GenerateRefreshToken, ChangePassword, VoidTokens,
         GeneratePasswordResetToken, SaveReset, SaveVerified, Fail
<1>2. call[c] # Idle /\ (Found => account \in Documents)
  BY DEF GenerateAuthToken, GenerateRefreshToken, ChangePassword, SaveReset,
         GeneratePasswordResetToken, SaveVerified, Fail, At, Idle, SessionsInv, TypeOK, Found
<1>3. \/ call' = [call EXCEPT ![c] = Idle]
      \/ \E n \in Nat : call' = [call EXCEPT ![c] =
           [Loaded("other", "refresh", NothingRead, 0) EXCEPT !.token = n]]
  BY DEF SessionsInv, GenerateAuthToken, GenerateRefreshToken, ChangePassword, SaveReset,
         VoidTokens, GeneratePasswordResetToken, SaveVerified, Fail, Ends
<1>4. \A d \in Callers : At(d, "compare")' =>
        At(d, "compare") /\ call'[d].failures = call[d].failures
  <2>1. ~At(c, "compare")'
    BY <1>3 DEF At, Idle, Loaded, SessionsInv, TypeOK
  <2>2. \A d \in Callers \ {c} : call'[d] = call[d]
    BY <1>3 DEF SessionsInv, TypeOK
  <2>3. QED BY <2>1, <2>2 DEF At
<1>5. Found' = Found
  <2>1. CASE account' = account
    BY <2>1 DEF Found
  <2>2. CASE Found
    <3>1. account.version \in Nat /\ account.version + 1 \in Nat
      BY <1>2, <2>2 DEF Documents
    <3>2. ASSUME GenerateAuthToken(c) PROVE account' \in Documents
      <4>1. call[c].tokens \cup {issued'} \in SUBSET (1 .. MaxIssued)
        <5>1. call[c].tokens \in SUBSET (1 .. MaxIssued)
          BY <1>2 DEF SessionsInv, TypeOK, InProgress
        <5>2. issued' \in 1 .. MaxIssued
          BY <3>2, SMT DEF GenerateAuthToken, SessionsInv, AccountsAssumption
        <5>3. QED BY <5>1, <5>2
      <4>2. account' = [account EXCEPT !.tokens = call[c].tokens \cup {issued'},
                                       !.version = account.version + 1]
        BY <3>2 DEF GenerateAuthToken, Save
      <4>3. QED BY <1>2, <2>2, <3>1, <4>1, <4>2 DEF Documents
    <3>3. ASSUME ChangePassword(c) \/ SaveReset(c) PROVE account' \in Documents
      BY <1>2, <2>2, <3>1, <3>3 DEF ChangePassword, SaveReset, VoidTokens, Save, Documents
    <3>4. ASSUME GenerateRefreshToken(c) \/ GeneratePasswordResetToken(c)
          PROVE  account' \in Documents
      BY <1>2, <2>2, <3>4 DEF GenerateRefreshToken, GeneratePasswordResetToken, Save, Documents
    <3>5. account' = account \/ account' \in Documents
      BY <3>2, <3>3, <3>4 DEF SaveVerified, Fail
    <3>6. QED BY <2>2, <3>5 DEF Found, AccountsAssumption
  <2>3. ~Found => account' = account
    BY <1>2
    DEF GenerateAuthToken, GenerateRefreshToken, ChangePassword, SaveReset,
        GeneratePasswordResetToken, SaveVerified, Fail, At, SessionsInv, CallKnows
  <2>4. QED BY <2>1, <2>2, <2>3
<1>6. Found => account'.failures = account.failures /\ account'.lock = account.lock
  BY <1>2
  DEF GenerateAuthToken, GenerateRefreshToken, ChangePassword, SaveReset, VoidTokens,
      GeneratePasswordResetToken, SaveVerified, Fail, Save, Documents
<1>7. QED BY <1>1, <1>4, <1>5, <1>6, LockFrame

LEMMA ExpireKeepsLock ==
  ASSUME AccountsAssumption, SessionsInv, SessionsInv', LockInv, Expire PROVE LockInv'
<1>1. /\ Found /\ account \in Documents
      /\ UNCHANGED <<call, attempts, disturbed>>
  BY DEF Expire, SessionsInv, TypeOK, Found
<1>2. \/ account.lock = "running" /\ account' = [account EXCEPT !.lock = "over"]
      \/ account' = [account EXCEPT !.refresh = FALSE]
      \/ account' = [account EXCEPT !.reset = FALSE]
  BY DEF Expire, Save
<1>3. /\ account'.failures = account.failures
      /\ (account'.lock = "none") <=> (account.lock = "none")
      /\ account' \in Documents
  BY <1>1, <1>2 DEF Documents
<1>4. Found'
  BY <1>3 DEF Found, AccountsAssumption
<1>5. \A c \in Callers : At(c, "compare")' =>
        At(c, "compare") /\ call'[c].failures = call[c].failures
  BY <1>1 DEF At
<1>6. QED BY <1>1, <1>3, <1>4, <1>5, LockFrame

LEMMA UnchangedLock ==
  ASSUME LockInv, UNCHANGED vars PROVE LockInv'
BY DEF vars, LockInv, Found, At

LEMMA InitLock == Init => LockInv
BY DEF Init, LockInv, Found, At, Idle

LEMMA NextLock ==
  ASSUME AccountsAssumption
  PROVE  SessionsInv /\ LockInv /\ [Next]_vars => LockInv'
BY NextSessions, LoadingKeepsLock, WrongKeepsLock, RightKeepsLock, InsertKeepsLock,
   OthersKeepLock, ExpireKeepsLock, UnchangedLock
DEF Next, SessionHandler

-----------------------------------------------------------------------------
(* The queue.  Only which copies there are matters, not how many.          *)

\* Adding a copy and removing one.
LEMMA QueueBags ==
  ASSUME NEW B, NEW x
  PROVE  /\ DOMAIN Queue!BagAdd(B, x) = DOMAIN B \cup {x}
         /\ DOMAIN Queue!BagRemove(B, x) \subseteq DOMAIN B
         /\ DOMAIN B \ {x} \subseteq DOMAIN Queue!BagRemove(B, x)
  BY DEF Queue!BagAdd, Queue!BagRemove

\* The copies the broker held back.
Held == {t.copy : t \in Queue!Unacknowledged}

\* They are in the queue again when it is joined with them.
LEMMA HeldJoined ==
  ASSUME NEW B
  PROVE  DOMAIN Queue!Joined(B, Queue!Copied(Queue!Unacknowledged)) = DOMAIN B \cup Held
  BY DEF Queue!Joined, Queue!Copied, Held

\* What remains in the worker when its channel died is no longer the broker's.
LEMMA OrphansOwnNothing ==
  DOMAIN Queue!Orphans = {[t EXCEPT !.own = FALSE] : t \in DOMAIN tasks}
  BY DEF Queue!Orphans

\* A copy has been handled at least as often as its header counts, once more
\* while it waits to be published again.
CountsBacked ==
  /\ \A c \in DOMAIN queue : c.retries <= handled[c.id]
  /\ \A t \in DOMAIN tasks :
       /\ t.copy.retries <= handled[t.copy.id]
       /\ t.stage = "waiting" =>
            t.copy.retries < Queue!RetryCount /\ t.copy.retries < handled[t.copy.id]

QueueInv ==
  /\ Queue!TypeOK /\ CountsBacked
  /\ Queue!NoMessageLost /\ Queue!OnlyHopelessDeadLettered

LEMMA InitQueue == Queue!Init => QueueInv
<1> SUFFICES ASSUME Queue!Init PROVE QueueInv
  OBVIOUS
<1>1. DOMAIN queue = {} /\ DOMAIN tasks = {} /\ DOMAIN dead = {}
  BY DEF Queue!Init, Queue!NoCopies
<1>2. Queue!TypeOK
  BY <1>1, ServicesAssumption DEF Queue!Init, Queue!TypeOK, Queue!QueueAssumption,
     Queue!Links, Queue!RetryCount
<1>3. CountsBacked
  BY <1>1 DEF CountsBacked
<1>4. Queue!NoMessageLost /\ Queue!OnlyHopelessDeadLettered
  BY <1>1 DEF Queue!Init, Queue!NoMessageLost, Queue!OnlyHopelessDeadLettered
<1> QED
  BY <1>2, <1>3, <1>4 DEF QueueInv

\* A handler that ends counts, up to one more than the retries.
LEMMA HandledCounts ==
  ASSUME Queue!TypeOK, NEW m \in Messages, Queue!Handled(m)
  PROVE  /\ handled' \in [Messages -> 0 .. Queue!RetryCount + 1]
         /\ \A n \in Messages : handled[n] <= handled'[n] /\ (n # m => handled'[n] = handled[n])
         /\ handled'[m] > 0
         /\ \A i \in 0 .. Queue!RetryCount : i <= handled[m] => i < handled'[m]
  BY DEF Queue!TypeOK, Queue!Handled, Queue!RetryCount

\* What the steps of the queue do to the sets of copies is enough to keep the
\* invariant: copies that appear count no more than their message was handled, and
\* the copies of a message that was not handled stay at the broker or held back.
LEMMA CopiesMove ==
  ASSUME QueueInv,
         link' \in Queue!Links, published \subseteq published', published' \subseteq Messages,
         lost' \subseteq Messages, faults' \in 0 .. MaxFaults,
         handled' \in [Messages -> 0 .. Queue!RetryCount + 1],
         \A m \in Messages : handled[m] <= handled'[m],
         DOMAIN dead' \subseteq Queue!Copies, DOMAIN queue' \subseteq Queue!Copies,
         DOMAIN tasks' \subseteq Queue!Tasks,
         CountsBacked', Queue!OnlyHopelessDeadLettered',
         \A m \in published' : handled'[m] = 0 =>
           \E c \in DOMAIN queue' \cup Held' : c.id = m
  PROVE  QueueInv'
<1>1. Queue!TypeOK'
  BY DEF Queue!TypeOK
<1>2. Queue!NoMessageLost'
  BY <1>1 DEF Queue!NoMessageLost, Held, Queue!TypeOK
<1> QED
  BY <1>1, <1>2 DEF QueueInv

\* What the invariant says of the copies at the broker or held back, and of what is
\* left in the worker when its channel dies.
LEMMA QueueFacts ==
  ASSUME QueueInv
  PROVE  /\ DOMAIN queue \cup Held \subseteq Queue!Copies
         /\ \A c \in DOMAIN queue \cup Held : c.retries <= handled[c.id]
         /\ \A m \in published : handled[m] = 0 => \E c \in DOMAIN queue \cup Held : c.id = m
         /\ DOMAIN Queue!Orphans \subseteq Queue!Tasks
         /\ \A t \in DOMAIN Queue!Orphans :
              /\ ~t.own
              /\ t.copy.retries <= handled[t.copy.id]
              /\ t.stage = "waiting" =>
                   t.copy.retries < Queue!RetryCount /\ t.copy.retries < handled[t.copy.id]
<1>1. /\ DOMAIN queue \subseteq Queue!Copies /\ DOMAIN tasks \subseteq Queue!Tasks
      /\ handled \in [Messages -> 0 .. Queue!RetryCount + 1] /\ published \subseteq Messages
  BY DEF QueueInv, Queue!TypeOK
<1>2. Held \subseteq Queue!Copies
  BY <1>1 DEF Held, Queue!Unacknowledged, Queue!Tasks
<1>3. \A c \in DOMAIN queue \cup Held : c.retries <= handled[c.id]
  BY DEF QueueInv, CountsBacked, Held, Queue!Unacknowledged
<1>4. \A m \in published : handled[m] = 0 => \E c \in DOMAIN queue \cup Held : c.id = m
  BY DEF QueueInv, Queue!NoMessageLost, Held
<1>5. ASSUME NEW t \in DOMAIN tasks, NEW o, o = [t EXCEPT !.own = FALSE]
      PROVE  /\ o \in Queue!Tasks /\ ~o.own
             /\ o.copy.retries <= handled[o.copy.id]
             /\ o.stage = "waiting" =>
                  o.copy.retries < Queue!RetryCount /\ o.copy.retries < handled[o.copy.id]
  <2>1. t \in Queue!Tasks
    BY <1>1
  <2>2. o.copy = t.copy /\ o.stage = t.stage /\ o.own = FALSE /\ o \in Queue!Tasks
    BY <2>1, <1>5 DEF Queue!Tasks
  <2> QED
    BY <2>2 DEF QueueInv, CountsBacked
<1> QED
  BY <1>1, <1>2, <1>3, <1>4, <1>5, OrphansOwnNothing

\* A task that ends takes at most its own copy from those held back.
LEMMA HeldLess ==
  ASSUME NEW t, DOMAIN tasks \ {t} \subseteq DOMAIN tasks'
  PROVE  Held \subseteq Held' \cup {t.copy}
  BY DEF Held, Queue!Unacknowledged

\* The channel dies with the worker: its copies are in the queue again.
LEMMA CrashKeeps ==
  ASSUME QueueInv, link' = "down", DOMAIN tasks' = {},
         NEW C, DOMAIN queue' = DOMAIN queue \cup Held \cup C,
         \A c \in C : c \in Queue!Copies /\ c.retries <= handled'[c.id],
         UNCHANGED <<dead, published, lost>>, faults' \in 0 .. MaxFaults,
         handled' \in [Messages -> 0 .. Queue!RetryCount + 1],
         \A n \in Messages : handled[n] <= handled'[n]
  PROVE  QueueInv'
<1>1. /\ published \subseteq Messages /\ lost \subseteq Messages
      /\ handled \in [Messages -> 0 .. Queue!RetryCount + 1]
      /\ DOMAIN dead \subseteq Queue!Copies
  BY DEF QueueInv, Queue!TypeOK
<1>2. CountsBacked'
  <2>1. \A c \in DOMAIN queue' : c.retries <= handled'[c.id]
    BY <1>1, QueueFacts DEF Queue!Copies, Queue!RetryCount
  <2> QED
    BY <2>1 DEF CountsBacked
<1>3. Queue!OnlyHopelessDeadLettered'
  BY <1>1 DEF QueueInv, Queue!OnlyHopelessDeadLettered, Queue!Copies, Queue!RetryCount
<1>4. \A n \in published' : handled'[n] = 0 => \E c \in DOMAIN queue' \cup Held' : c.id = n
  BY <1>1, QueueFacts DEF Queue!RetryCount
<1>5. DOMAIN queue' \subseteq Queue!Copies
  BY QueueFacts
<1> QED
  BY <1>1, <1>2, <1>3, <1>4, <1>5, CopiesMove DEF Queue!Links

LEMMA QueueCrash ==
  ASSUME QueueInv, Queue!Crash, UNCHANGED <<dead, published, lost>>,
         faults' \in 0 .. MaxFaults,
         handled' \in [Messages -> 0 .. Queue!RetryCount + 1],
         \A n \in Messages : handled[n] <= handled'[n]
  PROVE  QueueInv'
<1>1. /\ link' = "down" /\ DOMAIN tasks' = {}
      /\ DOMAIN queue' = DOMAIN queue \cup Held \cup {}
  BY HeldJoined DEF Queue!Crash, Queue!Requeued, Queue!NoCopies
<1> QED
  BY <1>1, CrashKeeps

\* The copies stay, the counts go on: what the messages are owed stays true.
LEMMA CopiesStay ==
  ASSUME QueueInv,
         handled' \in [Messages -> 0 .. Queue!RetryCount + 1],
         \A n \in Messages : handled[n] <= handled'[n]
  PROVE  /\ \A c \in DOMAIN queue : c.retries <= handled'[c.id]
         /\ \A t \in DOMAIN tasks :
              /\ t.copy.retries <= handled'[t.copy.id]
              /\ t.stage = "waiting" =>
                   t.copy.retries < Queue!RetryCount /\ t.copy.retries < handled'[t.copy.id]
         /\ \A c \in DOMAIN dead : c.id \in Malformed /\ handled'[c.id] > Queue!RetryCount
         /\ \A m \in published : handled'[m] = 0 => \E c \in DOMAIN queue \cup Held : c.id = m
<1>1. /\ DOMAIN queue \subseteq Queue!Copies /\ DOMAIN tasks \subseteq Queue!Tasks
      /\ handled \in [Messages -> 0 .. Queue!RetryCount + 1] /\ published \subseteq Messages
      /\ DOMAIN dead \subseteq Queue!Copies
  BY DEF QueueInv, Queue!TypeOK
<1>2. \A c \in DOMAIN queue : c.retries <= handled'[c.id]
  BY <1>1 DEF QueueInv, CountsBacked, Queue!Copies, Queue!RetryCount
<1>3. ASSUME NEW t \in DOMAIN tasks
      PROVE  /\ t.copy.retries <= handled'[t.copy.id]
             /\ t.stage = "waiting" =>
                  t.copy.retries < Queue!RetryCount /\ t.copy.retries < handled'[t.copy.id]
  <2>1. t.copy \in Queue!Copies
    BY <1>1 DEF Queue!Tasks
  <2>2. /\ t.copy.retries \in Int /\ handled[t.copy.id] \in Int /\ handled'[t.copy.id] \in Int
        /\ handled[t.copy.id] <= handled'[t.copy.id]
    BY <2>1, <1>1 DEF Queue!Copies, Queue!RetryCount
  <2> QED
    BY <2>2 DEF QueueInv, CountsBacked
<1>4. \A c \in DOMAIN dead : c.id \in Malformed /\ handled'[c.id] > Queue!RetryCount
  BY <1>1 DEF QueueInv, Queue!OnlyHopelessDeadLettered, Queue!Copies, Queue!RetryCount
<1>5. \A m \in published : handled'[m] = 0 => \E c \in DOMAIN queue \cup Held : c.id = m
  BY <1>1, QueueFacts DEF Queue!RetryCount
<1> QED
  BY <1>2, <1>3, <1>4, <1>5

LEMMA QueueStart == QueueInv /\ Queue!Start => QueueInv'
<1> SUFFICES ASSUME QueueInv, Queue!Start PROVE QueueInv'
  OBVIOUS
<1>1. /\ link' \in Queue!Links
      /\ UNCHANGED <<queue, tasks, dead, published, handled, lost, faults>>
  BY DEF Queue!Start, Queue!Links
<1> QED
  BY <1>1 DEF QueueInv, CountsBacked, Queue!TypeOK, Queue!NoMessageLost,
     Queue!OnlyHopelessDeadLettered, Queue!Unacknowledged

LEMMA QueueReconnect == QueueInv /\ Queue!Reconnect => QueueInv'
<1> SUFFICES ASSUME QueueInv, Queue!Reconnect PROVE QueueInv'
  OBVIOUS
<1>1. /\ link' \in Queue!Links
      /\ UNCHANGED <<queue, tasks, dead, published, handled, lost, faults>>
  BY DEF Queue!Reconnect, Queue!Links
<1> QED
  BY <1>1 DEF QueueInv, CountsBacked, Queue!TypeOK, Queue!NoMessageLost,
     Queue!OnlyHopelessDeadLettered, Queue!Unacknowledged

LEMMA QueuePublish ==
  ASSUME QueueInv, NEW m \in Messages, Queue!Publish(m)
  PROVE  QueueInv'
<1> DEFINE copy == [id |-> m, retries |-> 0]
<1>1. /\ published' = published \cup {m} /\ DOMAIN queue' = DOMAIN queue \cup {copy}
      /\ UNCHANGED <<tasks, link, dead, handled, lost, faults>>
  BY QueueBags DEF Queue!Publish
<1>2. copy \in Queue!Copies /\ copy.id = m /\ copy.retries = 0
  BY DEF Queue!Copies, Queue!RetryCount
<1> HIDE DEF copy
<1>3. Queue!TypeOK
  BY DEF QueueInv
<1>4. handled[m] \in 0 .. Queue!RetryCount + 1
  BY <1>3 DEF Queue!TypeOK
<1>5. CountsBacked'
  BY <1>1, <1>2, <1>4 DEF QueueInv, CountsBacked, Queue!RetryCount
<1>6. Queue!OnlyHopelessDeadLettered'
  BY <1>1 DEF QueueInv, Queue!OnlyHopelessDeadLettered
<1>7. Held' = Held
  BY <1>1 DEF Held, Queue!Unacknowledged
<1>8. \A n \in published' : handled'[n] = 0 => \E c \in DOMAIN queue' \cup Held' : c.id = n
  BY <1>1, <1>2, <1>7, QueueFacts
<1>9. /\ handled' \in [Messages -> 0 .. Queue!RetryCount + 1]
      /\ \A n \in Messages : handled[n] <= handled'[n]
  BY <1>1, <1>3 DEF Queue!TypeOK, Queue!RetryCount
<1> QED
  BY <1>1, <1>2, <1>3, <1>5, <1>6, <1>8, <1>9, CopiesMove DEF Queue!TypeOK

LEMMA QueueDeliver ==
  ASSUME QueueInv, NEW c \in Queue!Copies, Queue!Deliver(c)
  PROVE  QueueInv'
<1> DEFINE task == [copy |-> c, stage |-> "handling", own |-> TRUE]
<1>1. /\ c \in DOMAIN queue
      /\ DOMAIN queue' \subseteq DOMAIN queue /\ DOMAIN queue \ {c} \subseteq DOMAIN queue'
      /\ DOMAIN tasks' = DOMAIN tasks \cup {task}
      /\ UNCHANGED <<link, dead, published, handled, lost, faults>>
  BY QueueBags DEF Queue!Deliver
<1>2. task \in Queue!Tasks /\ task.copy = c /\ task.stage = "handling" /\ task.own
  BY DEF Queue!Tasks
<1> HIDE DEF task
<1>3. Queue!TypeOK
  BY DEF QueueInv
<1>5. CountsBacked'
  BY <1>1, <1>2 DEF QueueInv, CountsBacked, Queue!RetryCount
<1>6. Queue!OnlyHopelessDeadLettered'
  BY <1>1 DEF QueueInv, Queue!OnlyHopelessDeadLettered
<1>7. Held \cup {c} \subseteq Held'
  BY <1>1, <1>2 DEF Held, Queue!Unacknowledged
<1>8. \A n \in published' : handled'[n] = 0 => \E d \in DOMAIN queue' \cup Held' : d.id = n
  BY <1>1, <1>7, QueueFacts
<1>9. /\ handled' \in [Messages -> 0 .. Queue!RetryCount + 1]
      /\ \A n \in Messages : handled[n] <= handled'[n]
  BY <1>1, <1>3 DEF Queue!TypeOK, Queue!RetryCount
<1> QED
  BY <1>1, <1>2, <1>3, <1>5, <1>6, <1>8, <1>9, CopiesMove DEF Queue!TypeOK

\* A task that ends without an own task of its message left: its message was handled.
LEMMA HandledOnce ==
  ASSUME QueueInv, NEW t \in DOMAIN tasks, t.copy.id \in Messages,
         handled' \in [Messages -> 0 .. Queue!RetryCount + 1],
         \A n \in Messages : handled[n] <= handled'[n],
         handled'[t.copy.id] > 0,
         DOMAIN tasks \ {t} \subseteq DOMAIN tasks',
         DOMAIN queue \subseteq DOMAIN queue', published' = published
  PROVE  \A n \in published' : handled'[n] = 0 => \E c \in DOMAIN queue' \cup Held' : c.id = n
<1> SUFFICES ASSUME NEW n \in published, handled'[n] = 0
             PROVE  \E c \in DOMAIN queue' \cup Held' : c.id = n
  OBVIOUS
<1>1. PICK c \in DOMAIN queue \cup Held : c.id = n
  BY CopiesStay
<1>2. c # t.copy
  BY <1>1
<1> QED
  BY <1>1, <1>2, HeldLess

LEMMA QueueAcknowledge ==
  ASSUME QueueInv, NEW t \in DOMAIN tasks, Queue!Acknowledge(t)
  PROVE  QueueInv'
<1>1. Queue!TypeOK /\ t \in Queue!Tasks /\ t.copy \in Queue!Copies /\ t.copy.id \in Messages
  BY DEF QueueInv, Queue!TypeOK, Queue!Tasks, Queue!Copies
<1>2. Queue!Handled(t.copy.id)
  BY DEF Queue!Acknowledge
<1>3. /\ handled' \in [Messages -> 0 .. Queue!RetryCount + 1]
      /\ \A n \in Messages : handled[n] <= handled'[n]
      /\ handled'[t.copy.id] > 0
  BY <1>1, <1>2, HandledCounts, Zenon DEF Queue!TypeOK
<1>4. UNCHANGED <<dead, published, lost, faults>>
  BY DEF Queue!Acknowledge
<1>5. CASE Queue!Crash
  BY <1>1, <1>3, <1>4, <1>5, QueueCrash DEF Queue!TypeOK
<1>6. CASE tasks' = Queue!BagRemove(tasks, t) /\ UNCHANGED <<queue, link>>
  <2>1. DOMAIN tasks' \subseteq DOMAIN tasks /\ DOMAIN tasks \ {t} \subseteq DOMAIN tasks'
    BY <1>6, QueueBags
  <2>2. CountsBacked'
    BY <1>3, <1>6, <2>1, CopiesStay DEF CountsBacked
  <2>3. Queue!OnlyHopelessDeadLettered'
    BY <1>3, <1>4, CopiesStay DEF Queue!OnlyHopelessDeadLettered
  <2>4. \A n \in published' : handled'[n] = 0 => \E c \in DOMAIN queue' \cup Held' : c.id = n
    BY <1>1, <1>3, <1>4, <1>6, <2>1, HandledOnce
  <2> QED
    BY <1>1, <1>3, <1>4, <1>6, <2>1, <2>2, <2>3, <2>4, CopiesMove DEF Queue!TypeOK
<1> QED
  BY <1>5, <1>6 DEF Queue!Acknowledge

LEMMA QueueCaught ==
  ASSUME QueueInv, NEW t \in DOMAIN tasks, Queue!Caught(t)
  PROVE  QueueInv'
<1>1. Queue!TypeOK /\ t \in Queue!Tasks /\ t.copy \in Queue!Copies /\ t.copy.id \in Messages
  BY DEF QueueInv, Queue!TypeOK, Queue!Tasks, Queue!Copies
<1>2. Queue!Handled(t.copy.id)
  BY DEF Queue!Caught
<1>3. /\ handled' \in [Messages -> 0 .. Queue!RetryCount + 1]
      /\ \A n \in Messages : handled[n] <= handled'[n]
      /\ handled'[t.copy.id] > 0
      /\ \A i \in 0 .. Queue!RetryCount : i <= handled[t.copy.id] => i < handled'[t.copy.id]
  BY <1>1, <1>2, HandledCounts, Zenon DEF Queue!TypeOK
<1>4. UNCHANGED <<published, lost, faults>>
  BY DEF Queue!Caught
<1>5. t.copy.retries \in 0 .. Queue!RetryCount /\ t.copy.retries < handled'[t.copy.id]
  BY <1>1, <1>3 DEF Queue!Copies, QueueInv, CountsBacked
<1>6. CASE Queue!Crash /\ UNCHANGED dead
  BY <1>1, <1>3, <1>4, <1>6, QueueCrash DEF Queue!TypeOK
<1>7. CASE /\ t.copy.retries < Queue!RetryCount
           /\ tasks' = Queue!BagAdd(Queue!BagRemove(tasks, t), [t EXCEPT !.stage = "waiting"])
           /\ UNCHANGED <<queue, link, dead>>
  <2> DEFINE waiting == [t EXCEPT !.stage = "waiting"]
  <2>1. waiting \in Queue!Tasks /\ waiting.copy = t.copy
    BY <1>1 DEF Queue!Tasks
  <2> DEFINE rest == Queue!BagRemove(tasks, t)
  <2>7. DOMAIN rest \subseteq DOMAIN tasks /\ DOMAIN tasks \ {t} \subseteq DOMAIN rest
    BY QueueBags
  <2>8. tasks' = Queue!BagAdd(rest, waiting)
    BY <1>7
  <2> HIDE DEF waiting, rest
  <2>9. DOMAIN tasks' = DOMAIN rest \cup {waiting}
    BY <2>8, QueueBags
  <2>2. /\ DOMAIN tasks' \subseteq DOMAIN tasks \cup {waiting}
        /\ DOMAIN tasks \ {t} \subseteq DOMAIN tasks'
    BY <2>7, <2>9
  <2>3. CountsBacked'
    <3>1. \A c \in DOMAIN queue' : c.retries <= handled'[c.id]
      BY <1>3, <1>7, CopiesStay
    <3>2. t.copy.retries <= handled'[t.copy.id]
      BY <1>1, <1>3, CopiesStay
    <3>3. ASSUME NEW u \in DOMAIN tasks'
          PROVE  /\ u.copy.retries <= handled'[u.copy.id]
                 /\ u.stage = "waiting" =>
                      u.copy.retries < Queue!RetryCount /\ u.copy.retries < handled'[u.copy.id]
      <4>1. CASE u = waiting
        BY <1>5, <1>7, <2>1, <3>2, <4>1
      <4>2. CASE u \in DOMAIN tasks
        BY <1>3, <4>2, CopiesStay
      <4> QED
        BY <2>2, <4>1, <4>2
    <3> QED
      BY <3>1, <3>3 DEF CountsBacked
  <2>4. Queue!OnlyHopelessDeadLettered'
    BY <1>3, <1>7, CopiesStay DEF Queue!OnlyHopelessDeadLettered
  <2>5. \A n \in published' : handled'[n] = 0 => \E c \in DOMAIN queue' \cup Held' : c.id = n
    BY <1>1, <1>3, <1>4, <1>7, <2>2, HandledOnce
  <2>6. DOMAIN tasks' \subseteq Queue!Tasks
    BY <1>1, <2>1, <2>2 DEF Queue!TypeOK
  <2> QED
    BY <1>1, <1>3, <1>4, <1>7, <2>3, <2>4, <2>5, <2>6, CopiesMove DEF Queue!TypeOK
<1>8. CASE /\ ~(t.copy.retries < Queue!RetryCount) /\ Queue!CanWrite
           /\ tasks' = Queue!BagRemove(tasks, t) /\ dead' = Queue!BagAdd(dead, t.copy)
           /\ UNCHANGED <<queue, link>>
  <2>1. /\ DOMAIN tasks' \subseteq DOMAIN tasks /\ DOMAIN tasks \ {t} \subseteq DOMAIN tasks'
        /\ DOMAIN dead' = DOMAIN dead \cup {t.copy}
    BY <1>8, QueueBags
  <2>2. CountsBacked'
    BY <1>3, <1>8, <2>1, CopiesStay DEF CountsBacked
  <2>3. t.copy.id \in Malformed
    BY <1>8 DEF Queue!Caught
  <2>4. handled'[t.copy.id] > Queue!RetryCount
    BY <1>1, <1>3, <1>5, <1>8 DEF Queue!RetryCount
  <2>5. Queue!OnlyHopelessDeadLettered'
    BY <1>3, <2>1, <2>3, <2>4, CopiesStay DEF Queue!OnlyHopelessDeadLettered
  <2>6. \A n \in published' : handled'[n] = 0 => \E c \in DOMAIN queue' \cup Held' : c.id = n
    BY <1>1, <1>3, <1>4, <1>8, <2>1, HandledOnce
  <2> QED
    BY <1>1, <1>3, <1>4, <1>8, <2>1, <2>2, <2>5, <2>6, CopiesMove DEF Queue!TypeOK
<1> QED
  BY <1>6, <1>7, <1>8 DEF Queue!Caught

LEMMA QueueRetry ==
  ASSUME QueueInv, NEW t \in DOMAIN tasks, Queue!Retry(t)
  PROVE  QueueInv'
<1> DEFINE copy == Queue!NextCount(t.copy)
<1>1. Queue!TypeOK /\ t \in Queue!Tasks /\ t.copy \in Queue!Copies /\ t.copy.id \in Messages
  BY DEF QueueInv, Queue!TypeOK, Queue!Tasks, Queue!Copies
<1>2. UNCHANGED <<dead, published, handled, lost, faults>> /\ t.stage = "waiting"
  BY DEF Queue!Retry
<1>3. /\ handled' \in [Messages -> 0 .. Queue!RetryCount + 1]
      /\ \A n \in Messages : handled[n] <= handled'[n]
  BY <1>1, <1>2 DEF Queue!TypeOK, Queue!RetryCount
<1>4. t.copy.retries < Queue!RetryCount /\ t.copy.retries < handled[t.copy.id]
  BY <1>2 DEF QueueInv, CountsBacked
<1>5. copy \in Queue!Copies /\ copy.id = t.copy.id /\ copy.retries = t.copy.retries + 1
  BY <1>1, <1>4 DEF Queue!NextCount, Queue!Copies, Queue!RetryCount
<1>6. handled'[t.copy.id] > 0 /\ copy.retries <= handled'[copy.id]
  BY <1>1, <1>2, <1>4, <1>5 DEF Queue!TypeOK, Queue!Copies, Queue!RetryCount
<1>7. CASE /\ queue' = Queue!BagAdd(queue, copy)
           /\ tasks' = Queue!BagRemove(tasks, t) /\ UNCHANGED link
  <2>1. /\ DOMAIN tasks' \subseteq DOMAIN tasks /\ DOMAIN tasks \ {t} \subseteq DOMAIN tasks'
        /\ DOMAIN queue' = DOMAIN queue \cup {copy}
    BY <1>7, QueueBags
  <2> HIDE DEF copy
  <2>2. CountsBacked'
    BY <1>3, <1>6, <2>1, CopiesStay DEF CountsBacked
  <2>3. Queue!OnlyHopelessDeadLettered'
    BY <1>2, <1>3, CopiesStay DEF Queue!OnlyHopelessDeadLettered
  <2>4. \A n \in published' : handled'[n] = 0 => \E c \in DOMAIN queue' \cup Held' : c.id = n
    BY <1>1, <1>2, <1>3, <1>6, <2>1, HandledOnce
  <2> QED
    BY <1>1, <1>2, <1>3, <1>5, <1>7, <2>1, <2>2, <2>3, <2>4, CopiesMove DEF Queue!TypeOK
<1>8. CASE /\ link' = "down" /\ tasks' = Queue!NoCopies
           /\ queue' = Queue!Joined(
                 IF Queue!CanWrite THEN Queue!BagAdd(queue, copy) ELSE queue,
                 Queue!Copied(Queue!Unacknowledged))
  <2> DEFINE more == IF Queue!CanWrite THEN {copy} ELSE {}
  <2>1. DOMAIN (IF Queue!CanWrite THEN Queue!BagAdd(queue, copy) ELSE queue)
          = DOMAIN queue \cup more
    BY QueueBags
  <2>2. DOMAIN queue' = DOMAIN queue \cup Held \cup more
    BY <1>8, <2>1, HeldJoined
  <2>3. DOMAIN tasks' = {}
    BY <1>8 DEF Queue!NoCopies
  <2>4. \A c \in more : c \in Queue!Copies /\ c.retries <= handled'[c.id]
    BY <1>5, <1>6
  <2> HIDE DEF more, copy
  <2> QED
    BY <1>1, <1>2, <1>3, <1>8, <2>2, <2>3, <2>4, CrashKeeps DEF Queue!TypeOK
<1> QED
  BY <1>7, <1>8 DEF Queue!Retry

LEMMA QueueDisconnect == QueueInv /\ Queue!Disconnect => QueueInv'
<1> SUFFICES ASSUME QueueInv, Queue!Disconnect PROVE QueueInv'
  OBVIOUS
<1>1. /\ UNCHANGED <<dead, published, handled, lost>> /\ link' = "closed"
      /\ tasks' = Queue!Orphans /\ faults' \in 0 .. MaxFaults
  BY ServicesAssumption DEF Queue!Disconnect, Queue!Fault, QueueInv, Queue!TypeOK,
     Queue!QueueAssumption
<1>2. Queue!TypeOK
  BY DEF QueueInv
<1> DEFINE retried == {Queue!NextCount(t.copy) : t \in {u \in DOMAIN tasks : u.stage = "waiting"}}
           back == Queue!Joined(queue, Queue!Copied(Queue!Unacknowledged))
<1>3. \A c \in retried : c \in Queue!Copies /\ c.retries <= handled[c.id]
  <2> SUFFICES ASSUME NEW t \in DOMAIN tasks, t.stage = "waiting"
               PROVE  /\ Queue!NextCount(t.copy) \in Queue!Copies
                      /\ Queue!NextCount(t.copy).retries <= handled[Queue!NextCount(t.copy).id]
    OBVIOUS
  <2>1. t.copy \in Queue!Copies
    BY <1>2 DEF Queue!TypeOK, Queue!Tasks
  <2>2. t.copy.retries < Queue!RetryCount /\ t.copy.retries < handled[t.copy.id]
    BY DEF QueueInv, CountsBacked
  <2> QED
    BY <1>2, <2>1, <2>2 DEF Queue!NextCount, Queue!Copies, Queue!RetryCount, Queue!TypeOK
<1>11. DOMAIN back = DOMAIN queue \cup Held
  BY HeldJoined
<1>12. queue' = back \/ \E c \in retried : queue' = Queue!BagAdd(back, c)
  BY DEF Queue!Disconnect, Queue!Requeued, Queue!Unacknowledged
<1> HIDE DEF back, retried
<1>13. /\ DOMAIN queue' \subseteq DOMAIN queue \cup Held \cup retried
       /\ DOMAIN queue \cup Held \subseteq DOMAIN queue'
  <2>1. ASSUME NEW c \in retried, queue' = Queue!BagAdd(back, c)
        PROVE  DOMAIN queue' = DOMAIN queue \cup Held \cup {c}
    <3>1. DOMAIN Queue!BagAdd(back, c) = DOMAIN back \cup {c}
      BY QueueBags
    <3> QED
      BY <3>1, <1>11, <2>1
  <2> QED
    BY <1>11, <1>12, <2>1
<1>4. CountsBacked'
  <2>1. \A c \in DOMAIN queue' : c.retries <= handled'[c.id]
    BY <1>1, <1>3, <1>13, QueueFacts
  <2> QED
    BY <1>1, <2>1, QueueFacts DEF CountsBacked
<1>5. Queue!OnlyHopelessDeadLettered'
  BY <1>1 DEF QueueInv, Queue!OnlyHopelessDeadLettered
<1>6. \A n \in published' : handled'[n] = 0 => \E c \in DOMAIN queue' \cup Held' : c.id = n
  BY <1>1, <1>13, QueueFacts
<1>7. /\ handled' \in [Messages -> 0 .. Queue!RetryCount + 1]
      /\ \A n \in Messages : handled[n] <= handled'[n]
  BY <1>1, <1>2 DEF Queue!TypeOK, Queue!RetryCount
<1>8. DOMAIN tasks' \subseteq Queue!Tasks /\ DOMAIN queue' \subseteq Queue!Copies
  BY <1>1, <1>3, <1>13, QueueFacts
<1> QED
  BY <1>1, <1>2, <1>4, <1>5, <1>6, <1>7, <1>8, CopiesMove DEF Queue!TypeOK, Queue!Links

LEMMA QueueBrokerRestart == QueueInv /\ Queue!BrokerRestart => QueueInv'
<1> SUFFICES ASSUME QueueInv, Queue!BrokerRestart PROVE QueueInv'
  OBVIOUS
<1>2. Queue!TypeOK
  BY DEF QueueInv
<1>1. /\ UNCHANGED <<published, handled>> /\ link' \in Queue!Links
      /\ tasks' = Queue!Orphans /\ faults' \in 0 .. MaxFaults
  BY <1>2, ServicesAssumption DEF Queue!BrokerRestart, Queue!Fault, Queue!TypeOK,
     Queue!QueueAssumption, Queue!Links
<1> DEFINE all == Queue!Joined(queue, Queue!Copied(Queue!Unacknowledged))
           kept == {c \in DOMAIN all : c.retries = 0}
           keptDead == {c \in DOMAIN dead : c.retries = 0}
<1>3. DOMAIN all = DOMAIN queue \cup Held
  BY HeldJoined
<1>4. /\ DOMAIN queue' = kept /\ DOMAIN dead' = keptDead
      /\ lost' = lost \cup {c.id : c \in (DOMAIN all \ kept) \cup (DOMAIN dead \ keptDead)}
  BY DEF Queue!BrokerRestart
<1> HIDE DEF all
<1>5. kept \subseteq DOMAIN queue \cup Held /\ lost' \subseteq Messages
  BY <1>2, <1>3, <1>4, QueueFacts DEF Queue!TypeOK, Queue!Copies
<1>6. \A n \in published' : handled'[n] = 0 => \E c \in DOMAIN queue' \cup Held' : c.id = n
  <2> SUFFICES ASSUME NEW n \in published, handled[n] = 0
               PROVE  \E c \in DOMAIN queue' : c.id = n
    BY <1>1
  <2>1. PICK c \in DOMAIN queue \cup Held : c.id = n
    BY QueueFacts
  <2>2. c.retries <= 0 /\ c.retries \in 0 .. Queue!RetryCount
    BY <2>1, QueueFacts DEF Queue!Copies
  <2>3. c.retries = 0
    BY <2>2 DEF Queue!RetryCount
  <2> QED
    BY <1>3, <1>4, <2>1, <2>3
<1>7. CountsBacked'
  BY <1>1, <1>4, <1>5, QueueFacts DEF CountsBacked
<1>8. Queue!OnlyHopelessDeadLettered'
  BY <1>1, <1>4 DEF QueueInv, Queue!OnlyHopelessDeadLettered
<1>9. /\ handled' \in [Messages -> 0 .. Queue!RetryCount + 1]
      /\ \A n \in Messages : handled[n] <= handled'[n]
  BY <1>1, <1>2 DEF Queue!TypeOK, Queue!RetryCount
<1>10. DOMAIN tasks' \subseteq Queue!Tasks /\ DOMAIN queue' \subseteq Queue!Copies
  BY <1>1, <1>4, <1>5, QueueFacts
<1>11. DOMAIN dead' \subseteq Queue!Copies
  BY <1>2, <1>4 DEF Queue!TypeOK
<1> QED
  BY <1>1, <1>2, <1>5, <1>6, <1>7, <1>8, <1>9, <1>10, <1>11, CopiesMove DEF Queue!TypeOK

LEMMA QueueWorkerCrash == QueueInv /\ Queue!WorkerCrash => QueueInv'
<1> SUFFICES ASSUME QueueInv, Queue!WorkerCrash PROVE QueueInv'
  OBVIOUS
<1>1. /\ UNCHANGED <<dead, published, handled, lost>> /\ Queue!Crash
      /\ faults' \in 0 .. MaxFaults
  BY ServicesAssumption DEF Queue!WorkerCrash, Queue!Fault, QueueInv, Queue!TypeOK,
     Queue!QueueAssumption
<1>2. /\ handled' \in [Messages -> 0 .. Queue!RetryCount + 1]
      /\ \A n \in Messages : handled[n] <= handled'[n]
  BY <1>1 DEF QueueInv, Queue!TypeOK, Queue!RetryCount
<1> QED
  BY <1>1, <1>2, QueueCrash

\* Every step of the queue keeps its invariant.
LEMMA NextQueue == QueueInv /\ [Queue!Next]_queueVars => QueueInv'
<1> SUFFICES ASSUME QueueInv, [Queue!Next]_queueVars PROVE QueueInv'
  OBVIOUS
<1>1. CASE Queue!Next
  BY <1>1, QueueStart, QueueReconnect, QueuePublish, QueueDeliver, QueueAcknowledge,
     QueueCaught, QueueRetry, QueueDisconnect, QueueBrokerRestart, QueueWorkerCrash
  DEF Queue!Next, Queue!Work
<1>2. CASE UNCHANGED queueVars
  BY <1>2 DEF queueVars, QueueInv, CountsBacked, Queue!TypeOK, Queue!NoMessageLost,
     Queue!OnlyHopelessDeadLettered, Queue!Unacknowledged
<1> QED
  BY <1>1, <1>2

-----------------------------------------------------------------------------
(* The notifications: the history is the newest ones, newest first, what   *)
(* an open client was sent ends where the history begins, and a client     *)
(* that a throwing one comes before is recorded as behind.                 *)

\* The history is as long as it may be, and its ids go down from the newest by one.
HistoryIsNewest ==
  /\ Len(history) = IF Notifications!Newest < MaxHistory THEN Notifications!Newest ELSE MaxHistory
  /\ \A i \in 1 .. Len(history) : history[i].id = Notifications!Newest - i + 1

\* The client has received every notification up to the newest, from MaxHistory ago at
\* least.
UpToDate(c) ==
  /\ \A i \in 1 .. Len(received[c]) :
       received[c][i].id = Notifications!Newest - Len(received[c]) + i
  /\ Len(received[c]) >= Len(history)

NotificationsInv ==
  /\ Notifications!TypeOK /\ HistoryIsNewest
  /\ Notifications!Behind(clients) \subseteq behind
  /\ \A c \in DOMAIN clients \ narrowed : clients[c].channels = Channels
  /\ \A c \in DOMAIN clients \ (narrowed \cup behind) :
       clients[c].socket = "open" => UpToDate(c)

LEMMA NotificationsConstants ==
  MaxHistory \in Nat /\ MaxHistory >= 1 /\ MaxSent \in Nat /\ Notifications!None \notin Channels
BY ServicesAssumption DEF Notifications!ChannelsAssumption

LEMMA NewestNumber ==
  ASSUME history \in Seq(Notifications!Notifications)
  PROVE  /\ Notifications!Newest \in 0 .. MaxSent
         /\ history = << >> => Notifications!Newest = 0
         /\ history # << >> => Notifications!Newest = history[1].id
<1>1. CASE history = << >>
  BY <1>1, NotificationsConstants DEF Notifications!Newest
<1>2. CASE history # << >>
  <2>1. Head(history) = history[1] /\ history[1] \in Notifications!Notifications
    BY <1>2
  <2>2. history[1].id \in 1 .. MaxSent
    BY <2>1 DEF Notifications!Notifications
  <2> QED
    BY <1>2, <2>1, <2>2, NotificationsConstants DEF Notifications!Newest
<1> QED
  BY <1>1, <1>2

LEMMA InitNotifications == Notifications!Init => NotificationsInv
<1> SUFFICES ASSUME Notifications!Init PROVE NotificationsInv
  OBVIOUS
<1>1. /\ history = << >> /\ clients = [c \in {} |-> 0] /\ narrowed = {} /\ behind = {}
      /\ received = [c \in Clients |-> << >>]
  BY DEF Notifications!Init
<1>2. DOMAIN clients = {} /\ history \in Seq(Notifications!Notifications) /\ Len(history) = 0
  BY <1>1
<1>3. Notifications!TypeOK
  BY <1>1, <1>2, NotificationsConstants DEF Notifications!TypeOK
<1>4. HistoryIsNewest
  BY <1>1, <1>2, NewestNumber, NotificationsConstants DEF HistoryIsNewest
<1>5. Notifications!Behind(clients) = {}
  BY <1>2 DEF Notifications!Behind
<1> QED
  BY <1>2, <1>3, <1>4, <1>5 DEF NotificationsInv

\* The steps that send nothing to the clients already there.
LEMMA HistoryStays ==
  ASSUME NotificationsInv, history' = history
  PROVE  /\ Notifications!Newest' = Notifications!Newest /\ HistoryIsNewest'
         /\ \A c : received'[c] = received[c] => UpToDate(c)' = UpToDate(c)
<1>1. Notifications!Newest' = Notifications!Newest
  BY DEF Notifications!Newest
<1>2. HistoryIsNewest'
  BY <1>1 DEF NotificationsInv, HistoryIsNewest
<1>3. ASSUME NEW c, received'[c] = received[c]
      PROVE  UpToDate(c)' = UpToDate(c)
  BY <1>1, <1>3 DEF UpToDate
<1> QED
  BY <1>1, <1>2, <1>3

LEMMA NotificationsConnect ==
  ASSUME NotificationsInv, NEW c \in Clients, Notifications!Connect(c)
  PROVE  NotificationsInv'
<1>1. /\ history' = history /\ narrowed' = narrowed
      /\ clients' = [d \in DOMAIN clients \cup {c} |->
           IF d = c THEN [socket |-> "open", array |-> TRUE, channels |-> Channels]
           ELSE clients[d]]
      /\ behind' = behind \cup Notifications!Behind(clients')
      /\ received' = [received EXCEPT ![c] = Notifications!Reverse(history)]
  BY DEF Notifications!Connect, Notifications!SendHistory
<1>11. c \notin DOMAIN clients
  <2>1. c \in Nat
    BY ServicesAssumption DEF Notifications!ChannelsAssumption
  <2> QED
    BY <2>1 DEF Notifications!Connect
<1> DEFINE back == Notifications!Reverse(history)
<1>2. /\ DOMAIN clients \subseteq Clients /\ narrowed \subseteq Clients /\ behind \subseteq Clients
      /\ history \in Seq(Notifications!Notifications) /\ Len(history) <= MaxHistory
      /\ received \in [Clients -> Seq(Notifications!Notifications)]
      /\ \A d \in DOMAIN clients :
           clients[d] \in [socket : {"open", "closing"}, array : BOOLEAN,
                           channels : SUBSET Channels]
  BY DEF NotificationsInv, Notifications!TypeOK
<1>3. back = [i \in 1 .. Len(history) |-> history[Len(history) - i + 1]] /\ Len(history) \in Nat
  BY <1>2 DEF Notifications!Reverse
<1>4. back \in Seq(Notifications!Notifications) /\ Len(back) = Len(history)
  <2>1. \A i \in 1 .. Len(history) : history[Len(history) - i + 1] \in Notifications!Notifications
    BY <1>2, <1>3
  <2> QED
    BY <1>3, <2>1
<1>5. /\ DOMAIN clients' = DOMAIN clients \cup {c}
      /\ clients'[c] = [socket |-> "open", array |-> TRUE, channels |-> Channels]
      /\ \A d \in DOMAIN clients : clients'[d] = clients[d]
  BY <1>1, <1>11
<1>6. /\ received' \in [Clients -> Seq(Notifications!Notifications)] /\ received'[c] = back
      /\ \A d \in DOMAIN clients : received'[d] = received[d]
  BY <1>1, <1>2, <1>4, <1>11
<1>7. Notifications!TypeOK'
  <2>1. behind' \subseteq Clients
    BY <1>1, <1>2, <1>5 DEF Notifications!Behind
  <2>2. \A d \in DOMAIN clients' :
          clients'[d] \in [socket : {"open", "closing"}, array : BOOLEAN,
                          channels : SUBSET Channels]
    <3>1. clients'[c] \in [socket : {"open", "closing"}, array : BOOLEAN,
                           channels : SUBSET Channels]
      BY <1>5
    <3>2. ASSUME NEW d \in DOMAIN clients
          PROVE  clients'[d] \in [socket : {"open", "closing"}, array : BOOLEAN,
                                 channels : SUBSET Channels]
      BY <1>2, <1>5
    <3> QED
      BY <1>5, <3>1, <3>2
  <2>3. /\ DOMAIN clients' \subseteq Clients /\ narrowed' \subseteq Clients
        /\ history' \in Seq(Notifications!Notifications) /\ Len(history') <= MaxHistory
    BY <1>1, <1>2, <1>5
  <2> QED
    BY <1>6, <2>1, <2>2, <2>3 DEF Notifications!TypeOK
<1>8. Notifications!Newest' = Notifications!Newest /\ HistoryIsNewest'
  BY <1>1, HistoryStays
<1>9. UpToDate(c)'
  <2>1. Notifications!Newest \in Nat
    BY <1>2, NewestNumber, NotificationsConstants
  <2>2. ASSUME NEW i \in 1 .. Len(back)
        PROVE  back[i].id = Notifications!Newest - Len(back) + i
    <3>1. back[i] = history[Len(history) - i + 1] /\ Len(history) - i + 1 \in 1 .. Len(history)
      BY <1>3, <1>4
    <3>2. history[Len(history) - i + 1].id = Notifications!Newest - (Len(history) - i + 1) + 1
      BY <3>1 DEF NotificationsInv, HistoryIsNewest
    <3> QED
      BY <1>3, <1>4, <2>1, <3>1, <3>2
  <2> HIDE DEF back
  <2>3. Len(received'[c]) >= Len(history')
    BY <1>1, <1>3, <1>4, <1>6
  <2> QED
    BY <1>6, <1>8, <2>2, <2>3 DEF UpToDate
<1>12. \A d \in DOMAIN clients' \ narrowed' : clients'[d].channels = Channels
  BY <1>1, <1>5 DEF NotificationsInv
<1>10. ASSUME NEW d \in DOMAIN clients' \ (narrowed' \cup behind'), clients'[d].socket = "open"
       PROVE  UpToDate(d)'
  <2>1. CASE d = c
    BY <1>9, <2>1
  <2>2. CASE d # c
    <3>1. d \in DOMAIN clients \ (narrowed \cup behind)
      BY <1>1, <1>5, <2>2
    <3>2. UpToDate(d)' = UpToDate(d)
      BY <1>1, <1>6, <3>1, HistoryStays
    <3> QED
      BY <1>5, <1>10, <3>1, <3>2 DEF NotificationsInv
  <2> QED
    BY <2>1, <2>2
<1>13. Notifications!Behind(clients') \subseteq behind'
  BY <1>1
<1> QED
  BY <1>7, <1>8, <1>10, <1>12, <1>13 DEF NotificationsInv

LEMMA NotificationsSubscribe ==
  ASSUME NotificationsInv, NEW c \in Clients, NEW channels \in SUBSET Channels,
         Notifications!Subscribe(c, channels)
  PROVE  NotificationsInv'
<1>1. /\ c \in DOMAIN clients /\ history' = history /\ received' = received
      /\ clients' = [clients EXCEPT ![c].array = TRUE, ![c].channels = channels]
      /\ narrowed' = IF channels = Channels THEN narrowed ELSE narrowed \cup {c}
      /\ behind' = behind
  BY DEF Notifications!Subscribe
<1>2. /\ DOMAIN clients \subseteq Clients /\ narrowed \subseteq Clients /\ behind \subseteq Clients
      /\ \A d \in DOMAIN clients :
           clients[d] \in [socket : {"open", "closing"}, array : BOOLEAN,
                          channels : SUBSET Channels]
  BY DEF NotificationsInv, Notifications!TypeOK
<1>3. /\ DOMAIN clients' = DOMAIN clients
      /\ clients'[c] = [clients[c] EXCEPT !.array = TRUE, !.channels = channels]
      /\ \A d \in DOMAIN clients : d # c => clients'[d] = clients[d]
  BY <1>1
<1>4. /\ clients'[c] \in [socket : {"open", "closing"}, array : BOOLEAN,
                         channels : SUBSET Channels]
      /\ clients'[c].array = TRUE /\ clients'[c].channels = channels
      /\ clients'[c].socket = clients[c].socket
  BY <1>1, <1>2, <1>3
<1>5. Notifications!Behind(clients') \subseteq behind'
  <2>1. Notifications!Behind(clients') \subseteq Notifications!Behind(clients)
    BY <1>1, <1>3, <1>4 DEF Notifications!Behind
  <2> QED
    BY <1>1, <2>1 DEF NotificationsInv
<1>6. Notifications!TypeOK'
  <2>1. narrowed' \subseteq Clients /\ behind' \subseteq Clients
    BY <1>1, <1>2, <1>3 DEF Notifications!Behind
  <2>2. \A d \in DOMAIN clients' :
          clients'[d] \in [socket : {"open", "closing"}, array : BOOLEAN,
                          channels : SUBSET Channels]
    BY <1>2, <1>3, <1>4
  <2> QED
    BY <1>1, <1>2, <1>3, <2>1, <2>2 DEF NotificationsInv, Notifications!TypeOK
<1>7. HistoryIsNewest'
  BY <1>1, HistoryStays
<1>8. ASSUME NEW d \in DOMAIN clients' \ narrowed'
      PROVE  clients'[d].channels = Channels
  <2>1. d \in DOMAIN clients \ narrowed /\ (d = c => channels = Channels)
    BY <1>1, <1>3
  <2> QED
    BY <1>3, <1>4, <2>1 DEF NotificationsInv
<1>9. ASSUME NEW d \in DOMAIN clients' \ (narrowed' \cup behind'), clients'[d].socket = "open"
      PROVE  UpToDate(d)'
  <2>1. d \in DOMAIN clients \ (narrowed \cup behind) /\ clients[d].socket = "open"
    BY <1>1, <1>3, <1>4, <1>9
  <2>2. UpToDate(d)' = UpToDate(d)
    BY <1>1, HistoryStays
  <2> QED
    BY <2>1, <2>2 DEF NotificationsInv
<1> QED
  BY <1>5, <1>6, <1>7, <1>8, <1>9 DEF NotificationsInv

LEMMA NotificationsMalformed ==
  ASSUME NotificationsInv, NEW c \in Clients, Notifications!SubscribeMalformed(c)
  PROVE  NotificationsInv'
<1>1. /\ c \in DOMAIN clients /\ history' = history /\ received' = received
      /\ clients' = [clients EXCEPT ![c].array = FALSE, ![c].channels = {}]
      /\ narrowed' = narrowed \cup {c}
      /\ behind' = behind \cup Notifications!Behind(clients')
  BY DEF Notifications!SubscribeMalformed
<1>2. /\ DOMAIN clients \subseteq Clients /\ narrowed \subseteq Clients /\ behind \subseteq Clients
      /\ \A d \in DOMAIN clients :
           clients[d] \in [socket : {"open", "closing"}, array : BOOLEAN,
                          channels : SUBSET Channels]
  BY DEF NotificationsInv, Notifications!TypeOK
<1>3. /\ DOMAIN clients' = DOMAIN clients
      /\ clients'[c] = [clients[c] EXCEPT !.array = FALSE, !.channels = {}]
      /\ \A d \in DOMAIN clients : d # c => clients'[d] = clients[d]
  BY <1>1
<1>4. /\ clients'[c] \in [socket : {"open", "closing"}, array : BOOLEAN,
                         channels : SUBSET Channels]
      /\ clients'[c].array = FALSE /\ clients'[c].channels = {}
      /\ clients'[c].socket = clients[c].socket
  BY <1>1, <1>2, <1>3
<1>5. Notifications!Behind(clients') \subseteq behind'
  BY <1>1
<1>6. Notifications!TypeOK'
  <2>1. narrowed' \subseteq Clients /\ behind' \subseteq Clients
    BY <1>1, <1>2, <1>3 DEF Notifications!Behind
  <2>2. \A d \in DOMAIN clients' :
          clients'[d] \in [socket : {"open", "closing"}, array : BOOLEAN,
                          channels : SUBSET Channels]
    BY <1>2, <1>3, <1>4
  <2> QED
    BY <1>1, <1>2, <1>3, <2>1, <2>2 DEF NotificationsInv, Notifications!TypeOK
<1>7. HistoryIsNewest'
  BY <1>1, HistoryStays
<1>8. ASSUME NEW d \in DOMAIN clients' \ narrowed'
      PROVE  clients'[d].channels = Channels
  <2>1. d \in DOMAIN clients \ narrowed /\ d # c
    BY <1>1, <1>3
  <2> QED
    BY <1>3, <1>4, <2>1 DEF NotificationsInv
<1>9. ASSUME NEW d \in DOMAIN clients' \ (narrowed' \cup behind'), clients'[d].socket = "open"
      PROVE  UpToDate(d)'
  <2>1. d \in DOMAIN clients \ (narrowed \cup behind) /\ clients[d].socket = "open"
    BY <1>1, <1>3, <1>4, <1>9
  <2>2. UpToDate(d)' = UpToDate(d)
    BY <1>1, HistoryStays
  <2> QED
    BY <2>1, <2>2 DEF NotificationsInv
<1> QED
  BY <1>5, <1>6, <1>7, <1>8, <1>9 DEF NotificationsInv

LEMMA NotificationsClosing ==
  ASSUME NotificationsInv, NEW c \in Clients, Notifications!Closing(c)
  PROVE  NotificationsInv'
<1>1. /\ c \in DOMAIN clients /\ history' = history /\ received' = received
      /\ narrowed' = narrowed /\ behind' = behind
      /\ clients' = [clients EXCEPT ![c].socket = "closing"]
  BY DEF Notifications!Closing
<1>2. \A d \in DOMAIN clients :
        clients[d] \in [socket : {"open", "closing"}, array : BOOLEAN,
                        channels : SUBSET Channels]
  BY DEF NotificationsInv, Notifications!TypeOK
<1>3. /\ DOMAIN clients' = DOMAIN clients
      /\ clients'[c] = [clients[c] EXCEPT !.socket = "closing"]
      /\ \A d \in DOMAIN clients : d # c => clients'[d] = clients[d]
  BY <1>1
<1>4. /\ clients'[c] \in [socket : {"open", "closing"}, array : BOOLEAN,
                          channels : SUBSET Channels]
      /\ clients'[c].channels = clients[c].channels /\ clients'[c].socket = "closing"
  BY <1>1, <1>2, <1>3
<1>5. Notifications!TypeOK'
  <2>1. \A d \in DOMAIN clients' :
          clients'[d] \in [socket : {"open", "closing"}, array : BOOLEAN,
                           channels : SUBSET Channels]
    BY <1>2, <1>3, <1>4
  <2> QED
    BY <1>1, <1>3, <2>1 DEF NotificationsInv, Notifications!TypeOK
<1>6. HistoryIsNewest'
  BY <1>1, HistoryStays
<1>7. \A d \in DOMAIN clients' \ narrowed' : clients'[d].channels = Channels
  BY <1>1, <1>3, <1>4 DEF NotificationsInv
<1>8. ASSUME NEW d \in DOMAIN clients' \ (narrowed' \cup behind'), clients'[d].socket = "open"
      PROVE  UpToDate(d)'
  <2>1. d \in DOMAIN clients \ (narrowed \cup behind) /\ clients[d].socket = "open"
    BY <1>1, <1>3, <1>4, <1>8
  <2>2. UpToDate(d)' = UpToDate(d)
    BY <1>1, HistoryStays
  <2> QED
    BY <2>1, <2>2 DEF NotificationsInv
<1>9. Notifications!Behind(clients') \subseteq behind'
  <2>1. Notifications!Behind(clients') \subseteq Notifications!Behind(clients)
    BY <1>3, <1>4 DEF Notifications!Behind
  <2> QED
    BY <1>1, <2>1 DEF NotificationsInv
<1> QED
  BY <1>5, <1>6, <1>7, <1>8, <1>9 DEF NotificationsInv

LEMMA NotificationsClosed ==
  ASSUME NotificationsInv, NEW c \in Clients, Notifications!Closed(c)
  PROVE  NotificationsInv'
<1>1. /\ history' = history /\ received' = received /\ narrowed' = narrowed /\ behind' = behind
      /\ clients' = [d \in DOMAIN clients \ {c} |-> clients[d]]
  BY DEF Notifications!Closed
<1>2. DOMAIN clients' \subseteq DOMAIN clients /\ \A d \in DOMAIN clients' : clients'[d] = clients[d]
  BY <1>1
<1>3. Notifications!TypeOK'
  BY <1>1, <1>2 DEF NotificationsInv, Notifications!TypeOK
<1>4. HistoryIsNewest'
  BY <1>1, HistoryStays
<1>5. \A d \in DOMAIN clients' \ narrowed' : clients'[d].channels = Channels
  BY <1>1, <1>2 DEF NotificationsInv
<1>6. ASSUME NEW d \in DOMAIN clients' \ (narrowed' \cup behind'), clients'[d].socket = "open"
      PROVE  UpToDate(d)'
  <2>1. UpToDate(d)' = UpToDate(d)
    BY <1>1, HistoryStays
  <2> QED
    BY <1>1, <1>2, <1>6, <2>1 DEF NotificationsInv
<1>7. Notifications!Behind(clients') \subseteq behind'
  <2>1. Notifications!Behind(clients') \subseteq Notifications!Behind(clients)
    BY <1>2 DEF Notifications!Behind
  <2> QED
    BY <1>1, <2>1 DEF NotificationsInv
<1> QED
  BY <1>3, <1>4, <1>5, <1>6, <1>7 DEF NotificationsInv

\* The history after a notification n: n, and what there was but its oldest when full.
LEMMA HistoryGrows ==
  ASSUME NotificationsInv, NEW n \in Notifications!Notifications, n.id = Notifications!Newest + 1,
         history' = Notifications!AddToHistory(n)
  PROVE  /\ history' \in Seq(Notifications!Notifications) /\ Len(history') <= MaxHistory
         /\ Notifications!Newest' = Notifications!Newest + 1
         /\ HistoryIsNewest' /\ Len(history') <= Len(history) + 1
<1> DEFINE longer == <<n>> \o history
           newest == Notifications!Newest
<1>1. history \in Seq(Notifications!Notifications) /\ Len(history) <= MaxHistory
  BY DEF NotificationsInv, Notifications!TypeOK
<1>2. newest \in Nat
  BY <1>1, NewestNumber, NotificationsConstants
<1>3. /\ longer \in Seq(Notifications!Notifications) /\ Len(longer) = Len(history) + 1
      /\ longer[1] = n /\ \A i \in 2 .. Len(longer) : longer[i] = history[i - 1]
  BY <1>1
<1>4. history' = IF Len(longer) > MaxHistory THEN SubSeq(longer, 1, MaxHistory) ELSE longer
  BY DEF Notifications!AddToHistory, Notifications!Cut
<1> HIDE DEF longer, newest
<1>5. /\ history' \in Seq(Notifications!Notifications)
      /\ Len(history') = IF Len(longer) > MaxHistory THEN MaxHistory ELSE Len(longer)
      /\ \A i \in 1 .. Len(history') : history'[i] = longer[i]
  <2>1. CASE Len(longer) > MaxHistory
    BY <1>3, <1>4, <2>1, NotificationsConstants
  <2>2. CASE ~(Len(longer) > MaxHistory)
    BY <1>3, <1>4, <2>2, NotificationsConstants
  <2> QED
    BY <2>1, <2>2
<1>6. Len(history) \in Nat /\ Len(longer) = Len(history) + 1
  BY <1>1, <1>3
<1>7. 1 \in 1 .. Len(history') /\ history'[1] = n
  BY <1>3, <1>5, <1>6, NotificationsConstants
<1>8. Notifications!Newest' = newest + 1
  <2>1. history' # << >>
    BY <1>5, <1>6, NotificationsConstants
  <2>2. Head(history') = history'[1]
    BY <1>5, <2>1
  <2> QED
    BY <1>7, <2>1, <2>2 DEF Notifications!Newest, newest
<1>9. /\ Len(history) = IF newest < MaxHistory THEN newest ELSE MaxHistory
      /\ \A i \in 1 .. Len(history) : history[i].id = newest - i + 1
  BY DEF NotificationsInv, HistoryIsNewest, newest
<1>10. Len(history') = IF newest + 1 < MaxHistory THEN newest + 1 ELSE MaxHistory
  BY <1>2, <1>5, <1>6, <1>9, NotificationsConstants
<1>11. ASSUME NEW i \in 1 .. Len(history')
       PROVE  history'[i].id = Notifications!Newest' - i + 1
  <2>1. CASE i = 1
    BY <1>2, <1>7, <1>8, <2>1 DEF newest
  <2>2. CASE i # 1
    <3>1. i \in 2 .. Len(longer) /\ i - 1 \in 1 .. Len(history) /\ i \in Nat
      BY <1>5, <1>6, <2>2, NotificationsConstants
    <3>2. history'[i] = history[i - 1]
      BY <1>3, <1>5, <3>1
    <3>3. history[i - 1].id = newest - (i - 1) + 1
      BY <1>9, <3>1
    <3> QED
      BY <1>2, <1>8, <3>1, <3>2, <3>3
  <2> QED
    BY <2>1, <2>2
<1>12. Len(history') = IF Notifications!Newest' < MaxHistory THEN Notifications!Newest'
                                                             ELSE MaxHistory
  BY <1>8, <1>10
<1>13. HistoryIsNewest'
  BY <1>11, <1>12 DEF HistoryIsNewest
<1> QED
  BY <1>5, <1>6, <1>8, <1>13, NotificationsConstants DEF newest

LEMMA NotificationsNotify ==
  ASSUME NotificationsInv, NEW channel \in Channels \cup {Notifications!None},
         Notifications!Notify(channel)
  PROVE  NotificationsInv'
<1> DEFINE n == [id |-> Notifications!Newest + 1, channel |-> channel]
           newest == Notifications!Newest
<1>1. /\ newest < MaxSent /\ clients' = clients /\ narrowed' = narrowed /\ behind' = behind
      /\ history' = Notifications!AddToHistory(n)
      /\ received' = [c \in Clients |->
           IF Notifications!Reached(c, n) THEN Append(received[c], n) ELSE received[c]]
  BY DEF Notifications!Notify, Notifications!Broadcast
<1>2. /\ history \in Seq(Notifications!Notifications)
      /\ received \in [Clients -> Seq(Notifications!Notifications)]
      /\ DOMAIN clients \subseteq Clients
  BY DEF NotificationsInv, Notifications!TypeOK
<1>3. newest \in Nat
  BY <1>2, NewestNumber, NotificationsConstants
<1>4. n \in Notifications!Notifications /\ n.id = newest + 1 /\ n.channel = channel
  BY <1>1, <1>3, NotificationsConstants DEF Notifications!Notifications
<1> HIDE DEF n, newest
<1>5. /\ history' \in Seq(Notifications!Notifications) /\ Len(history') <= MaxHistory
      /\ Notifications!Newest' = newest + 1 /\ HistoryIsNewest' /\ Len(history') <= Len(history) + 1
  BY <1>1, <1>4, HistoryGrows DEF newest
<1>6. received' \in [Clients -> Seq(Notifications!Notifications)]
  <2>1. ASSUME NEW c \in Clients
        PROVE  Append(received[c], n) \in Seq(Notifications!Notifications)
               /\ received[c] \in Seq(Notifications!Notifications)
    BY <1>2, <1>4
  <2> QED
    BY <1>1, <2>1
<1>7. Notifications!TypeOK'
  BY <1>1, <1>5, <1>6 DEF NotificationsInv, Notifications!TypeOK
<1>8. ASSUME NEW c \in DOMAIN clients \ (narrowed \cup behind), clients[c].socket = "open"
      PROVE  UpToDate(c)'
  <2>1. c \in Clients /\ clients[c].channels = Channels /\ UpToDate(c)
    BY <1>2, <1>8 DEF NotificationsInv
  <2>8. c \notin Notifications!Behind(clients)
    BY <1>8 DEF NotificationsInv
  <2>9. ~\E d \in DOMAIN clients : d < c /\ Notifications!Throws(d, n)
    BY <1>8, <2>8 DEF Notifications!Behind, Notifications!Throws
  <2>2. Notifications!Reached(c, n)
    BY <1>4, <1>8, <2>1, <2>9 DEF Notifications!Reached
  <2> DEFINE r == received[c]
  <2>3. /\ r \in Seq(Notifications!Notifications) /\ Len(r) >= Len(history)
        /\ \A i \in 1 .. Len(r) : r[i].id = newest - Len(r) + i
    BY <1>2, <2>1 DEF UpToDate, newest
  <2>4. received'[c] = Append(r, n)
    BY <1>1, <2>1, <2>2
  <2> HIDE DEF r
  <2>5. Len(received'[c]) = Len(r) + 1 /\ Len(r) \in Nat
    BY <1>4, <2>3, <2>4
  <2>6. ASSUME NEW i \in 1 .. Len(received'[c])
        PROVE  received'[c][i].id = Notifications!Newest' - Len(received'[c]) + i
    <3>1. CASE i = Len(r) + 1
      BY <1>3, <1>4, <1>5, <2>3, <2>4, <2>5, <3>1
    <3>2. CASE i # Len(r) + 1
      <4>1. i \in 1 .. Len(r)
        BY <2>5, <3>2
      <4>2. received'[c][i] = r[i] /\ r[i].id = newest - Len(r) + i
        BY <1>4, <2>3, <2>4, <4>1
      <4> QED
        BY <1>3, <1>5, <2>5, <4>1, <4>2
    <3> QED
      BY <3>1, <3>2
  <2>7. Len(received'[c]) >= Len(history')
    <3>1. Len(history) \in Nat /\ Len(history') \in Nat
      BY <1>2, <1>5
    <3> QED
      BY <1>5, <2>3, <2>5, <3>1
  <2> QED
    BY <2>6, <2>7 DEF UpToDate
<1>9. Notifications!Behind(clients') \subseteq behind'
  BY <1>1 DEF NotificationsInv
<1> QED
  BY <1>1, <1>5, <1>7, <1>8, <1>9 DEF NotificationsInv

LEMMA NextNotifications ==
  NotificationsInv /\ [Notifications!Next]_notificationsVars => NotificationsInv'
<1> SUFFICES ASSUME NotificationsInv, [Notifications!Next]_notificationsVars
             PROVE  NotificationsInv'
  OBVIOUS
<1>1. ASSUME NEW c \in Clients, Notifications!Connect(c)
      PROVE  NotificationsInv'
  BY <1>1, NotificationsConnect
<1>2. ASSUME NEW c \in Clients, Notifications!Closing(c)
      PROVE  NotificationsInv'
  BY <1>2, NotificationsClosing
<1>3. ASSUME NEW c \in Clients, Notifications!Closed(c)
      PROVE  NotificationsInv'
  BY <1>3, NotificationsClosed
<1>4. ASSUME NEW c \in Clients, NEW channels \in SUBSET Channels,
             Notifications!Subscribe(c, channels)
      PROVE  NotificationsInv'
  BY <1>4, NotificationsSubscribe
<1>5. ASSUME NEW channel \in Channels \cup {Notifications!None}, Notifications!Notify(channel)
      PROVE  NotificationsInv'
  BY <1>5, NotificationsNotify
<1>6. CASE UNCHANGED notificationsVars
  <2>1. /\ clients' = clients /\ history' = history
        /\ received' = received /\ narrowed' = narrowed /\ behind' = behind
    BY <1>6 DEF notificationsVars
  <2>2. HistoryIsNewest' /\ \A c : UpToDate(c)' = UpToDate(c)
    BY <2>1, HistoryStays
  <2>3. Notifications!TypeOK'
    BY <2>1 DEF NotificationsInv, Notifications!TypeOK
  <2>4. Notifications!Behind(clients') \subseteq behind'
    BY <2>1 DEF NotificationsInv
  <2> QED
    BY <2>1, <2>2, <2>3, <2>4 DEF NotificationsInv
<1>7. ASSUME NEW c \in Clients, Notifications!SubscribeMalformed(c)
      PROVE  NotificationsInv'
  BY <1>7, NotificationsMalformed
<1> QED
  BY <1>1, <1>2, <1>3, <1>4, <1>5, <1>6, <1>7 DEF Notifications!Next

LEMMA NothingMissed == NotificationsInv => ClientsMissNothing
<1> SUFFICES ASSUME NotificationsInv,
                    NEW c \in DOMAIN clients \ (narrowed \cup behind), clients[c].socket = "open"
             PROVE  /\ \A i \in 1 .. Len(received[c]) :
                         received[c][i].id = Notifications!Newest - Len(received[c]) + i
                    /\ Len(received[c]) >= IF Notifications!Newest < MaxHistory
                                           THEN Notifications!Newest ELSE MaxHistory
  BY DEF ClientsMissNothing, Notifications!ClientsMissNothing, Notifications!UpToDate
<1> QED
  BY DEF NotificationsInv, HistoryIsNewest, UpToDate

-----------------------------------------------------------------------------
(* The analytics cache.  Batch metrics always set lastUpdate when they are *)
(* stored, and no other store moves it while they are there.               *)

BatchDated ==
  /\ lastUpdate = Analytics!Never => cache["batch"] = Analytics!Never
  /\ cache["batch"] # Analytics!Never => lastUpdate - cache["batch"] <= ReadTime

AnalyticsInv ==
  /\ Analytics!TypeOK /\ BatchDated
  /\ \A t \in DOMAIN calls : t.since <= clock /\ clock - t.since <= ReadTime

LEMMA AnalyticsConstants ==
  CacheTimes # {} /\ CacheTimes \subseteq Nat /\ ReadTime \in Nat /\ MaxClock \in Nat
  BY ServicesAssumption DEF Analytics!TimesAssumption

LEMMA CallBags ==
  ASSUME NEW B, NEW t
  PROVE  /\ DOMAIN Analytics!BagAdd(B, t) = DOMAIN B \cup {t}
         /\ DOMAIN Analytics!BagRemove(B, t) \subseteq DOMAIN B
  BY DEF Analytics!BagAdd, Analytics!BagRemove

LEMMA AnalyticsNumbers ==
  ASSUME AnalyticsInv
  PROVE  /\ clock \in 0 .. MaxClock /\ clock \in Analytics!Times /\ clock \in Nat
         /\ clock # Analytics!Never /\ Analytics!Times \subseteq Nat /\ Analytics!Never = -1
         /\ cache \in [Analytics!Metrics -> Analytics!Times \cup {Analytics!Never}]
         /\ lastUpdate \in Analytics!Times \cup {Analytics!Never}
         /\ cacheTTL \in CacheTimes /\ DOMAIN calls \subseteq Analytics!Calls
         /\ "batch" \in Analytics!Metrics /\ "product" \in Analytics!Metrics
         /\ "sustainability" \in Analytics!Metrics
         /\ Analytics!Sources \subseteq Analytics!Metrics
  BY AnalyticsConstants DEF AnalyticsInv, Analytics!TypeOK, Analytics!Times, Analytics!Never,
     Analytics!Metrics, Analytics!Sources

LEMMA InitAnalytics == Analytics!Init => AnalyticsInv
<1> SUFFICES ASSUME Analytics!Init PROVE AnalyticsInv
  OBVIOUS
<1>1. /\ cache = [m \in Analytics!Metrics |-> Analytics!Never] /\ lastUpdate = Analytics!Never
      /\ cacheTTL \in CacheTimes /\ DOMAIN calls = {} /\ clock = 0
  BY DEF Analytics!Init, Analytics!NoCalls
<1>2. "batch" \in Analytics!Metrics
  BY DEF Analytics!Metrics, Analytics!Sources
<1>3. Analytics!TypeOK
  BY <1>1, AnalyticsConstants DEF Analytics!TypeOK, Analytics!Times
<1> QED
  BY <1>1, <1>2, <1>3 DEF AnalyticsInv, BatchDated

\* What a step may do to the batch metrics and the calls.
LEMMA AnalyticsMove ==
  ASSUME AnalyticsInv, clock' = clock, cacheTTL' \in CacheTimes,
         cache' \in [Analytics!Metrics -> Analytics!Times \cup {Analytics!Never}],
         lastUpdate' \in Analytics!Times \cup {Analytics!Never},
         \A t \in DOMAIN calls' :
           t \in DOMAIN calls \/ (t \in Analytics!Calls /\ t.since = clock),
         \/ /\ cache'["batch"] = cache["batch"]
            /\ \/ lastUpdate' = lastUpdate
               \/ lastUpdate = Analytics!Never /\ lastUpdate' = clock
         \/ cache'["batch"] = Analytics!Never
         \/ lastUpdate' = clock /\ clock - cache'["batch"] <= ReadTime
  PROVE  AnalyticsInv'
<1>1. Analytics!TypeOK'
  BY AnalyticsNumbers DEF Analytics!TypeOK
<1>2. BatchDated'
  BY AnalyticsNumbers, AnalyticsConstants DEF AnalyticsInv, BatchDated
<1>3. \A t \in DOMAIN calls' : t.since <= clock' /\ clock' - t.since <= ReadTime
  BY AnalyticsNumbers, AnalyticsConstants DEF AnalyticsInv
<1> QED
  BY <1>1, <1>2, <1>3 DEF AnalyticsInv

\* Storing another metric than the batch metrics leaves them dated.
LEMMA AnalyticsStore ==
  ASSUME AnalyticsInv, NEW metric \in Analytics!Metrics, NEW at \in Analytics!Times,
         Analytics!Store(metric, at)
  PROVE  /\ cache' \in [Analytics!Metrics -> Analytics!Times \cup {Analytics!Never}]
         /\ lastUpdate' \in Analytics!Times \cup {Analytics!Never}
         /\ metric = "batch" => cache'["batch"] = at /\ lastUpdate' = clock
         /\ metric # "batch" =>
              /\ cache'["batch"] = cache["batch"]
              /\ \/ lastUpdate' = lastUpdate
                 \/ lastUpdate = Analytics!Never /\ lastUpdate' = clock
  BY AnalyticsNumbers DEF Analytics!Store, Analytics!Updated

LEMMA AnalyticsGet ==
  ASSUME AnalyticsInv, NEW metric \in Analytics!Metrics, Analytics!Get(metric)
  PROVE  AnalyticsInv'
<1>1. UNCHANGED <<cacheTTL, clock>>
  BY DEF Analytics!Get
<1>2. ASSUME NEW source \in Analytics!Sources, NEW oldest \in Analytics!Times,
             calls' = Analytics!BagAdd(calls, Analytics!Reading(metric, source, oldest)),
             UNCHANGED <<cache, lastUpdate>>
      PROVE  AnalyticsInv'
  <2> DEFINE t == Analytics!Reading(metric, source, oldest)
  <2>1. t \in Analytics!Calls /\ t.since = clock
    BY AnalyticsNumbers DEF Analytics!Reading, Analytics!Calls
  <2>2. DOMAIN calls' = DOMAIN calls \cup {t}
    BY <1>2, CallBags
  <2> HIDE DEF t
  <2> QED
    BY <1>1, <1>2, <2>1, <2>2, AnalyticsNumbers, AnalyticsMove
<1>3. CASE metric \in Analytics!Sources
  BY <1>2, <1>3, AnalyticsNumbers DEF Analytics!Get
<1>4. CASE metric \notin Analytics!Sources /\ ~Analytics!Served("batch")
  BY <1>2, <1>4, AnalyticsNumbers DEF Analytics!Get, Analytics!Sources
<1>5. CASE /\ metric \notin Analytics!Sources
           /\ Analytics!Served("batch") /\ ~Analytics!Served("product")
  <2>1. cache["batch"] \in Analytics!Times
    BY <1>5, AnalyticsNumbers DEF Analytics!Served
  <2> QED
    BY <1>2, <1>5, <2>1 DEF Analytics!Get, Analytics!Sources
<1>6. CASE /\ metric \notin Analytics!Sources
           /\ Analytics!Served("batch") /\ Analytics!Served("product")
  <2> DEFINE at == Analytics!Younger(cache["batch"], cache["product"])
  <2>1. at \in Analytics!Times
    BY <1>6, AnalyticsNumbers DEF Analytics!Served, Analytics!Younger
  <2>2. Analytics!Store(metric, at) /\ UNCHANGED calls
    BY <1>6 DEF Analytics!Get
  <2>3. metric # "batch"
    BY <1>6 DEF Analytics!Sources
  <2> HIDE DEF at
  <2> QED
    BY <1>1, <2>1, <2>2, <2>3, AnalyticsStore, AnalyticsNumbers, AnalyticsMove
<1> QED
  BY <1>3, <1>4, <1>5, <1>6

\* Reads that end: what is known of the call.
LEMMA CallKnown ==
  ASSUME AnalyticsInv, NEW t \in DOMAIN calls
  PROVE  /\ t.metric \in Analytics!Metrics /\ t.reading \in Analytics!Sources
         /\ t.since \in Analytics!Times /\ t.oldest \in Analytics!Times
         /\ t.since <= clock /\ clock - t.since <= ReadTime
  BY AnalyticsNumbers DEF AnalyticsInv, Analytics!Calls

LEMMA AnalyticsRead ==
  ASSUME AnalyticsInv, NEW t \in DOMAIN calls, Analytics!Read(t)
  PROVE  AnalyticsInv'
<1>1. /\ Analytics!Store(t.metric, t.since) /\ DOMAIN calls' \subseteq DOMAIN calls
      /\ UNCHANGED <<cacheTTL, clock>>
  BY CallBags DEF Analytics!Read
<1> QED
  BY <1>1, CallKnown, AnalyticsStore, AnalyticsNumbers, AnalyticsMove

LEMMA AnalyticsReadBatchFirst ==
  ASSUME AnalyticsInv, NEW t \in DOMAIN calls, Analytics!ReadBatchFirst(t)
  PROVE  AnalyticsInv'
<1>1. lastUpdate' = clock /\ UNCHANGED <<cacheTTL, clock>> /\ t.metric = "sustainability"
  BY DEF Analytics!ReadBatchFirst
<1>2. CASE /\ cache["product"] # Analytics!Never
           /\ cache' = [cache EXCEPT !["batch"] = t.since,
                !["sustainability"] = Analytics!Younger(t.since, cache["product"])]
           /\ calls' = Analytics!BagRemove(calls, t)
  <2>1. Analytics!Younger(t.since, cache["product"]) \in Analytics!Times
    BY <1>2, CallKnown, AnalyticsNumbers DEF Analytics!Younger
  <2>2. /\ cache' \in [Analytics!Metrics -> Analytics!Times \cup {Analytics!Never}]
        /\ cache'["batch"] = t.since
    BY <1>2, <2>1, CallKnown, AnalyticsNumbers
  <2>3. DOMAIN calls' \subseteq DOMAIN calls
    BY <1>2, CallBags
  <2> QED
    BY <1>1, <2>2, <2>3, CallKnown, AnalyticsNumbers, AnalyticsMove
<1>3. CASE /\ cache' = [cache EXCEPT !["batch"] = t.since]
           /\ calls' = Analytics!BagAdd(Analytics!BagRemove(calls, t),
                          Analytics!Reading(t.metric, "product", t.since))
  <2> DEFINE u == Analytics!Reading(t.metric, "product", t.since)
             rest == Analytics!BagRemove(calls, t)
  <2>1. u \in Analytics!Calls /\ u.since = clock
    BY CallKnown, AnalyticsNumbers DEF Analytics!Reading, Analytics!Calls, Analytics!Sources
  <2>2. DOMAIN rest \subseteq DOMAIN calls
    BY CallBags
  <2>3. calls' = Analytics!BagAdd(rest, u)
    BY <1>3
  <2> HIDE DEF u, rest
  <2>4. DOMAIN calls' = DOMAIN rest \cup {u}
    BY <2>3, CallBags
  <2>5. /\ cache' \in [Analytics!Metrics -> Analytics!Times \cup {Analytics!Never}]
        /\ cache'["batch"] = t.since
    BY <1>3, CallKnown, AnalyticsNumbers
  <2> QED
    BY <1>1, <2>1, <2>2, <2>4, <2>5, CallKnown, AnalyticsNumbers, AnalyticsMove
<1> QED
  BY <1>2, <1>3 DEF Analytics!ReadBatchFirst

LEMMA AnalyticsReadProductThen ==
  ASSUME AnalyticsInv, NEW t \in DOMAIN calls, Analytics!ReadProductThen(t)
  PROVE  AnalyticsInv'
<1>1. /\ cache' = [cache EXCEPT !["product"] = t.since, !["sustainability"] = t.oldest]
      /\ lastUpdate' = Analytics!Updated("product") /\ UNCHANGED <<cacheTTL, clock>>
      /\ DOMAIN calls' \subseteq DOMAIN calls
  BY CallBags DEF Analytics!ReadProductThen
<1>2. /\ cache' \in [Analytics!Metrics -> Analytics!Times \cup {Analytics!Never}]
      /\ cache'["batch"] = cache["batch"]
  BY <1>1, CallKnown, AnalyticsNumbers
<1>3. \/ lastUpdate' = lastUpdate
      \/ lastUpdate = Analytics!Never /\ lastUpdate' = clock
  BY <1>1 DEF Analytics!Updated
<1> QED
  BY <1>1, <1>2, <1>3, AnalyticsNumbers, AnalyticsMove

LEMMA AnalyticsOthers ==
  ASSUME AnalyticsInv,
         \/ \E t \in DOMAIN calls : Analytics!Fails(t)
         \/ \E ttl \in CacheTimes : Analytics!SetCacheTTL(ttl)
         \/ Analytics!ClearCache
  PROVE  AnalyticsInv'
<1>1. CASE \E t \in DOMAIN calls : Analytics!Fails(t)
  <2>1. UNCHANGED <<cache, lastUpdate, cacheTTL, clock>> /\ DOMAIN calls' \subseteq DOMAIN calls
    BY <1>1, CallBags DEF Analytics!Fails
  <2> QED
    BY <2>1, AnalyticsNumbers, AnalyticsMove
<1>2. CASE \E ttl \in CacheTimes : Analytics!SetCacheTTL(ttl)
  <2>1. UNCHANGED <<cache, lastUpdate, calls, clock>> /\ cacheTTL' \in CacheTimes
    BY <1>2 DEF Analytics!SetCacheTTL
  <2> QED
    BY <2>1, AnalyticsNumbers, AnalyticsMove
<1>3. CASE Analytics!ClearCache
  <2>1. /\ cache' = [m \in Analytics!Metrics |-> Analytics!Never]
        /\ lastUpdate' = Analytics!Never /\ UNCHANGED <<cacheTTL, calls, clock>>
    BY <1>3 DEF Analytics!ClearCache
  <2> QED
    BY <2>1, AnalyticsNumbers, AnalyticsMove
<1> QED
  BY <1>1, <1>2, <1>3

LEMMA AnalyticsTick == AnalyticsInv /\ Analytics!Tick => AnalyticsInv'
<1> SUFFICES ASSUME AnalyticsInv, Analytics!Tick PROVE AnalyticsInv'
  OBVIOUS
<1>1. /\ clock < MaxClock /\ clock' = clock + 1
      /\ \A t \in DOMAIN calls : clock - t.since < ReadTime
      /\ UNCHANGED <<cache, lastUpdate, cacheTTL, calls>>
  BY DEF Analytics!Tick
<1>2. \A t \in DOMAIN calls' : t.since <= clock' /\ clock' - t.since <= ReadTime
  <2> SUFFICES ASSUME NEW t \in DOMAIN calls'
               PROVE  t.since <= clock' /\ clock' - t.since <= ReadTime
    OBVIOUS
  <2>1. t \in DOMAIN calls
    BY <1>1
  <2> QED
    BY <1>1, <2>1, CallKnown, AnalyticsNumbers, AnalyticsConstants
<1>3. Analytics!TypeOK'
  BY <1>1, AnalyticsNumbers, AnalyticsConstants DEF Analytics!TypeOK, Analytics!Times
<1> QED
  BY <1>1, <1>2, <1>3 DEF AnalyticsInv, BatchDated

LEMMA NextAnalytics == AnalyticsInv /\ [Analytics!Next]_analyticsVars => AnalyticsInv'
<1> SUFFICES ASSUME AnalyticsInv, [Analytics!Next]_analyticsVars PROVE AnalyticsInv'
  OBVIOUS
<1>1. CASE \E metric \in Analytics!Metrics : Analytics!Get(metric)
  BY <1>1, AnalyticsGet
<1>2. CASE \E t \in DOMAIN calls : Analytics!Read(t) \/ Analytics!ReadBatchFirst(t)
             \/ Analytics!ReadProductThen(t) \/ Analytics!Fails(t)
  BY <1>2, AnalyticsRead, AnalyticsReadBatchFirst, AnalyticsReadProductThen, AnalyticsOthers
<1>3. CASE (\E ttl \in CacheTimes : Analytics!SetCacheTTL(ttl)) \/ Analytics!ClearCache
  BY <1>3, AnalyticsOthers
<1>4. CASE Analytics!Tick
  BY <1>4, AnalyticsTick
<1>5. CASE UNCHANGED analyticsVars
  BY <1>5 DEF analyticsVars, AnalyticsInv, BatchDated, Analytics!TypeOK
<1> QED
  BY <1>1, <1>2, <1>3, <1>4, <1>5 DEF Analytics!Next, Analytics!GetBatchMetrics,
     Analytics!GetProductMetrics, Analytics!GetTokenizationMetrics,
     Analytics!GetSustainabilityMetrics, Analytics!GetDashboardData,
     Analytics!GenerateSustainabilityReport, Analytics!AnalyzeCircularEconomy,
     Analytics!Combined, Analytics!Metrics, Analytics!Sources

\* Dated batch metrics that are served are fresh enough.
LEMMA BatchIsFresh == AnalyticsInv => Analytics!BatchFresh
<1> SUFFICES ASSUME AnalyticsInv, Analytics!Served("batch")
             PROVE  clock - cache["batch"] < cacheTTL + ReadTime
  BY DEF Analytics!BatchFresh, Analytics!FreshEnough
<1>1. /\ cache["batch"] # Analytics!Never /\ lastUpdate # Analytics!Never
      /\ clock - lastUpdate < cacheTTL
  BY DEF Analytics!Served
<1>2. lastUpdate - cache["batch"] <= ReadTime
  BY <1>1 DEF AnalyticsInv, BatchDated
<1>3. /\ cache["batch"] \in Int /\ lastUpdate \in Int /\ cacheTTL \in Int /\ clock \in Int
      /\ ReadTime \in Int
  <2>1. cache["batch"] \in Analytics!Times /\ lastUpdate \in Analytics!Times
    BY <1>1, AnalyticsNumbers
  <2>2. cacheTTL \in Nat /\ clock \in Nat
    BY AnalyticsNumbers, AnalyticsConstants
  <2> QED
    BY <2>1, <2>2, AnalyticsNumbers, AnalyticsConstants
<1> QED
  BY <1>1, <1>2, <1>3

-----------------------------------------------------------------------------
(* The response cache.  A response that waits to be stored is no older     *)
(* than the slowest store, and an entry is dropped in time.                *)

ResponsesInv ==
  /\ Responses!TypeOK /\ DOMAIN cached = CachedRequests
  /\ \A r \in CachedRequests :
       cached[r].step = "set" => /\ cached[r].at <= seconds
                                 /\ seconds - cached[r].at <= SlowStore
  /\ entry # Null =>
       /\ entry.at <= seconds /\ seconds < entry.expires
       /\ entry.expires <= entry.at + SlowStore + ResponseTTL
  /\ Responses!StaleOnlyForTTL

LEMMA ResponsesConstants ==
  ResponseTTL \in Nat \ {0} /\ SlowStore \in Nat /\ MaxSeconds \in Nat
  BY ServicesAssumption DEF Responses!TimesAssumption

LEMMA InitResponses == Responses!Init => ResponsesInv
<1> SUFFICES ASSUME Responses!Init PROVE ResponsesInv
  OBVIOUS
<1>1. /\ entry = Null /\ cached = [r \in CachedRequests |-> Responses!Idle]
      /\ answered = [r \in CachedRequests |-> Null] /\ seconds = 0
  BY DEF Responses!Init
<1>2. Responses!Idle.step = "idle"
  BY DEF Responses!Idle
<1>3. Responses!TypeOK
  BY <1>1, ResponsesConstants DEF Responses!TypeOK, Responses!Times
<1> QED
  BY <1>1, <1>2, <1>3 DEF ResponsesInv, Responses!StaleOnlyForTTL

\* A request goes on: what it is at next, and that the others stay.
LEMMA RequestGoes ==
  ASSUME ResponsesInv, NEW r \in CachedRequests, NEW step, NEW at,
         Responses!Goes(r, step, at)
  PROVE  /\ DOMAIN cached' = CachedRequests
         /\ cached'[r] = [step |-> step, at |-> at]
         /\ \A q \in CachedRequests \ {r} : cached'[q] = cached[q]
  BY DEF ResponsesInv, Responses!Goes

LEMMA RequestEnds ==
  ASSUME ResponsesInv, NEW r \in CachedRequests,
         cached' = [cached EXCEPT ![r] = Responses!Idle]
  PROVE  /\ DOMAIN cached' = CachedRequests
         /\ cached'[r] = Responses!Idle
         /\ \A q \in CachedRequests \ {r} : cached'[q] = cached[q]
  BY DEF ResponsesInv

\* Answering a request with data of an age that is not too old, and the entry and
\* the request as they are allowed to be, keeps the invariant.
LEMMA ResponsesMove ==
  ASSUME ResponsesInv, seconds' = seconds, NEW r \in CachedRequests,
         DOMAIN cached' = CachedRequests,
         \A q \in CachedRequests \ {r} : cached'[q] = cached[q],
         \/ cached'[r] = Responses!Idle
         \/ /\ cached'[r] \in [step : {"handler", "set", "del", "cleared"}, at : Responses!Times]
            /\ cached'[r].step = "set" =>
                 cached'[r].at <= seconds /\ seconds - cached'[r].at <= SlowStore,
         \/ entry' = entry
         \/ entry' = Null
         \/ /\ entry' \in [at : Responses!Times, expires : 0 .. MaxSeconds + ResponseTTL]
            /\ entry'.at <= seconds /\ seconds < entry'.expires
            /\ entry'.expires <= entry'.at + SlowStore + ResponseTTL,
         \/ answered' = answered
         \/ \E a \in [at : Responses!Times, age : Responses!Times] :
              answered' = [answered EXCEPT ![r] = a] /\ a.age < ResponseTTL + SlowStore
  PROVE  ResponsesInv'
<1>1. Responses!Idle.step = "idle"
  BY DEF Responses!Idle
<1>2. answered' \in [CachedRequests -> [at : Responses!Times, age : Responses!Times] \cup {Null}]
  BY DEF ResponsesInv, Responses!TypeOK
<1>3. Responses!StaleOnlyForTTL'
  BY DEF ResponsesInv, Responses!TypeOK, Responses!StaleOnlyForTTL
<1>4. \A q \in CachedRequests :
        cached'[q] = Responses!Idle \/ cached'[q] \in
          [step : {"handler", "set", "del", "cleared"}, at : Responses!Times]
  BY DEF ResponsesInv, Responses!TypeOK
<1>5. \A q \in CachedRequests :
        cached'[q].step = "set" => /\ cached'[q].at <= seconds
                                   /\ seconds - cached'[q].at <= SlowStore
  BY <1>1 DEF ResponsesInv
<1>6. Responses!TypeOK'
  BY <1>2, <1>4 DEF ResponsesInv, Responses!TypeOK
<1>7. entry' # Null =>
       /\ entry'.at <= seconds /\ seconds < entry'.expires
       /\ entry'.expires <= entry'.at + SlowStore + ResponseTTL
  BY DEF ResponsesInv
<1> QED
  BY <1>3, <1>5, <1>6, <1>7 DEF ResponsesInv

LEMMA ResponsesGet ==
  ASSUME ResponsesInv, NEW r \in CachedRequests, Responses!Get(r)
  PROVE  ResponsesInv'
<1>1. seconds \in Responses!Times /\ entry' = entry /\ seconds' = seconds
  BY DEF ResponsesInv, Responses!TypeOK, Responses!Get
<1>2. CASE entry # Null /\ UNCHANGED cached
           /\ answered' = [answered EXCEPT ![r] = [at |-> entry.at, age |-> seconds - entry.at]]
  <2> DEFINE a == [at |-> entry.at, age |-> seconds - entry.at]
  <2>1. /\ entry.at \in Responses!Times /\ entry.at <= seconds /\ seconds < entry.expires
        /\ entry.expires <= entry.at + SlowStore + ResponseTTL
        /\ entry.expires \in Int
    BY <1>2, ResponsesConstants DEF ResponsesInv, Responses!TypeOK
  <2>2. seconds - entry.at \in Responses!Times /\ seconds - entry.at < ResponseTTL + SlowStore
    BY <1>1, <2>1, ResponsesConstants DEF Responses!Times
  <2>3. /\ a \in [at : Responses!Times, age : Responses!Times]
        /\ a.age < ResponseTTL + SlowStore
        /\ answered' = [answered EXCEPT ![r] = a]
    BY <1>2, <2>1, <2>2
  <2>4. DOMAIN cached = CachedRequests /\ Responses!TypeOK
    BY DEF ResponsesInv
  <2>5. \/ cached'[r] = Responses!Idle
        \/ /\ cached'[r] \in [step : {"handler", "set", "del", "cleared"}, at : Responses!Times]
           /\ cached'[r].step = "set" =>
                cached'[r].at <= seconds /\ seconds - cached'[r].at <= SlowStore
    BY <1>2 DEF ResponsesInv, Responses!TypeOK
  <2> HIDE DEF a
  <2> QED
    BY <1>1, <1>2, <2>3, <2>4, <2>5, ResponsesMove
<1>3. CASE Responses!Goes(r, "handler", seconds) /\ UNCHANGED answered
  <2>1. /\ DOMAIN cached' = CachedRequests
        /\ cached'[r] = [step |-> "handler", at |-> seconds]
        /\ \A q \in CachedRequests \ {r} : cached'[q] = cached[q]
    BY <1>3, RequestGoes
  <2> QED
    BY <1>1, <1>3, <2>1, ResponsesMove
<1> QED
  BY <1>2, <1>3 DEF Responses!Get

LEMMA ResponsesHandle ==
  ASSUME ResponsesInv, NEW r \in CachedRequests, Responses!Handle(r)
  PROVE  ResponsesInv'
<1>1. /\ seconds \in Responses!Times /\ UNCHANGED <<entry, answered, seconds>>
      /\ Responses!Goes(r, "set", seconds)
  BY DEF ResponsesInv, Responses!TypeOK, Responses!Handle
<1>2. /\ DOMAIN cached' = CachedRequests
      /\ cached'[r] = [step |-> "set", at |-> seconds]
      /\ \A q \in CachedRequests \ {r} : cached'[q] = cached[q]
  BY <1>1, RequestGoes
<1>3. seconds <= seconds /\ seconds - seconds <= SlowStore
  BY <1>1, ResponsesConstants DEF Responses!Times
<1> QED
  BY <1>1, <1>2, <1>3, ResponsesMove

LEMMA ResponsesSet ==
  ASSUME ResponsesInv, NEW r \in CachedRequests, Responses!Set(r)
  PROVE  ResponsesInv'
<1> DEFINE read == cached[r].at
           a == [at |-> read, age |-> seconds - read]
<1>1. /\ seconds \in Responses!Times /\ seconds' = seconds
      /\ cached[r].step = "set" /\ entry' \in {entry, Responses!Stored(read)}
      /\ answered' = [answered EXCEPT ![r] = a]
      /\ cached' = [cached EXCEPT ![r] = Responses!Idle]
  BY DEF ResponsesInv, Responses!TypeOK, Responses!Set, Responses!At
<1>2. /\ DOMAIN cached' = CachedRequests
      /\ cached'[r] = Responses!Idle
      /\ \A q \in CachedRequests \ {r} : cached'[q] = cached[q]
  BY <1>1, RequestEnds
<1>3. read \in Responses!Times /\ read <= seconds /\ seconds - read <= SlowStore
  BY <1>1 DEF ResponsesInv, Responses!TypeOK, Responses!Idle
<1> HIDE DEF read
<1>4. /\ seconds - read \in Responses!Times
      /\ seconds - read < ResponseTTL + SlowStore
      /\ seconds + ResponseTTL \in 0 .. MaxSeconds + ResponseTTL
      /\ seconds < seconds + ResponseTTL
      /\ seconds + ResponseTTL <= read + SlowStore + ResponseTTL
  BY <1>1, <1>3, ResponsesConstants DEF Responses!Times
<1>5. a \in [at : Responses!Times, age : Responses!Times] /\ a.age < ResponseTTL + SlowStore
  BY <1>3, <1>4
<1>6. \/ entry' = entry
      \/ /\ entry' \in [at : Responses!Times, expires : 0 .. MaxSeconds + ResponseTTL]
         /\ entry'.at <= seconds /\ seconds < entry'.expires
         /\ entry'.expires <= entry'.at + SlowStore + ResponseTTL
  BY <1>1, <1>3, <1>4 DEF Responses!Stored
<1> HIDE DEF a
<1> QED
  BY <1>1, <1>2, <1>5, <1>6, ResponsesMove

LEMMA ResponsesClear ==
  ASSUME ResponsesInv, NEW r \in CachedRequests, Responses!Clear(r)
  PROVE  ResponsesInv'
<1> DEFINE step == IF entry = Null THEN "cleared" ELSE "del"
<1>1. /\ seconds \in Responses!Times /\ UNCHANGED <<entry, answered, seconds>>
      /\ Responses!Goes(r, step, seconds)
  BY DEF ResponsesInv, Responses!TypeOK, Responses!Clear
<1>2. step \in {"del", "cleared"}
  OBVIOUS
<1> HIDE DEF step
<1>3. /\ DOMAIN cached' = CachedRequests
      /\ cached'[r] = [step |-> step, at |-> seconds]
      /\ \A q \in CachedRequests \ {r} : cached'[q] = cached[q]
  BY <1>1, RequestGoes
<1> QED
  BY <1>1, <1>2, <1>3, ResponsesMove

LEMMA ResponsesDelete ==
  ASSUME ResponsesInv, NEW r \in CachedRequests, Responses!Delete(r)
  PROVE  ResponsesInv'
<1>1. seconds \in Responses!Times /\ UNCHANGED <<answered, seconds>> /\ entry' \in {entry, Null}
  BY DEF ResponsesInv, Responses!TypeOK, Responses!Delete
<1>2. CASE Responses!Goes(r, "cleared", seconds)
  <2>1. /\ DOMAIN cached' = CachedRequests
        /\ cached'[r] = [step |-> "cleared", at |-> seconds]
        /\ \A q \in CachedRequests \ {r} : cached'[q] = cached[q]
    BY <1>2, RequestGoes
  <2> QED
    BY <1>1, <2>1, ResponsesMove
<1>3. CASE cached' = [cached EXCEPT ![r] = Responses!Idle]
  <2>1. /\ DOMAIN cached' = CachedRequests
        /\ cached'[r] = Responses!Idle
        /\ \A q \in CachedRequests \ {r} : cached'[q] = cached[q]
    BY <1>3, RequestEnds
  <2>2. entry' = entry \/ entry' = Null
    BY <1>1
  <2> QED
    BY <1>1, <2>1, <2>2, ResponsesMove
<1> QED
  BY <1>2, <1>3 DEF Responses!Delete

LEMMA ResponsesTick == ResponsesInv /\ Responses!Tick => ResponsesInv'
<1> SUFFICES ASSUME ResponsesInv, Responses!Tick PROVE ResponsesInv'
  OBVIOUS
<1>1. /\ seconds < MaxSeconds /\ seconds' = seconds + 1 /\ UNCHANGED <<cached, answered>>
      /\ \A r \in CachedRequests : cached[r].step = "set" => seconds - cached[r].at < SlowStore
      /\ entry' = IF entry # Null /\ entry.expires <= seconds' THEN Null ELSE entry
  BY DEF Responses!Tick, Responses!At
<1>2. seconds \in 0 .. MaxSeconds /\ Responses!TypeOK
  BY DEF ResponsesInv, Responses!TypeOK, Responses!Times
<1>3. \A r \in CachedRequests :
        cached'[r].step = "set" => /\ cached'[r].at <= seconds'
                                   /\ seconds' - cached'[r].at <= SlowStore
  <2> SUFFICES ASSUME NEW r \in CachedRequests, cached'[r].step = "set"
               PROVE  cached'[r].at <= seconds' /\ seconds' - cached'[r].at <= SlowStore
    OBVIOUS
  <2>1. cached[r] # Responses!Idle /\ cached[r].step = "set"
    BY <1>1 DEF Responses!Idle
  <2>2. cached[r].at \in Responses!Times
    BY <1>2, <2>1 DEF Responses!TypeOK
  <2>3. cached[r].at <= seconds /\ seconds - cached[r].at < SlowStore
    BY <1>1, <2>1 DEF ResponsesInv
  <2> QED
    BY <1>1, <1>2, <2>3, <2>1, <2>2, ResponsesConstants DEF Responses!Times
<1>4. entry' # Null =>
       /\ entry'.at <= seconds' /\ seconds' < entry'.expires
       /\ entry'.expires <= entry'.at + SlowStore + ResponseTTL
  <2> SUFFICES ASSUME entry' # Null
               PROVE  /\ entry.at <= seconds + 1 /\ seconds + 1 < entry.expires
                      /\ entry.expires <= entry.at + SlowStore + ResponseTTL
    BY <1>1
  <2>1. entry # Null /\ entry' = entry /\ ~(entry.expires <= seconds + 1)
    BY <1>1
  <2>2. entry.at \in Responses!Times /\ entry.expires \in Int
    BY <1>2, <2>1, ResponsesConstants DEF Responses!TypeOK
  <2> QED
    BY <1>2, <2>1, <2>2, ResponsesConstants DEF Responses!Times, ResponsesInv
<1>5. Responses!TypeOK'
  BY <1>1, <1>2, ResponsesConstants DEF Responses!TypeOK, Responses!Times
<1> QED
  BY <1>1, <1>3, <1>4, <1>5 DEF ResponsesInv, Responses!StaleOnlyForTTL

LEMMA NextResponses == ResponsesInv /\ [Responses!Next]_responsesVars => ResponsesInv'
<1> SUFFICES ASSUME ResponsesInv, [Responses!Next]_responsesVars PROVE ResponsesInv'
  OBVIOUS
<1>1. CASE Responses!Next
  BY <1>1, ResponsesGet, ResponsesHandle, ResponsesSet, ResponsesClear, ResponsesDelete,
     ResponsesTick DEF Responses!Next
<1>2. CASE UNCHANGED responsesVars
  BY <1>2 DEF responsesVars, ResponsesInv, Responses!TypeOK, Responses!StaleOnlyForTTL
<1> QED
  BY <1>1, <1>2

-----------------------------------------------------------------------------
(* The REST router.  What each request may be, with the fate of its        *)
(* transaction; what a chaincode transaction does to the ledger plays no   *)
(* part.                                                                   *)

\* A request with its call, and one that is answered for good.
Request(s, c, d, a, f) == [step |-> s, call |-> c, read |-> d, answer |-> a, fate |-> f]
Whole(q) == q = Request(q.step, q.call, q.read, q.answer, q.fate)
Short(q) == q = [step |-> "done", answer |-> q.answer, fate |-> q.fate]

\* A call that writes has the keys its transaction is applied to.
CallOK(c) ==
  /\ c \in Gateway!Calls
  /\ c.name \notin Gateway!Queries => c.key \in Keys
  /\ c.name \in {"requestTokenization", "createFinishedProduct"} => c.batch \in Keys

RequestOK(q) ==
  \/ q = Gateway!Idle
  \/ /\ Whole(q) /\ CallOK(q.call) /\ q.answer \in Gateway!Answers
     /\ \/ q.step = "evaluate" /\ q.fate = "query"
        \/ q.step = "endorse" /\ q.fate = "none"
        \/ q.step = "commit" /\ q.fate \in {"ordered", "committed", "invalid"}
        \/ q.step = "done" /\ q.fate = "ordered" /\ q.answer = "unavailable"
  \/ /\ Short(q) /\ q.fate \in Gateway!Fates \ {"ordered"} /\ q.answer \in Gateway!Answers
     /\ q.answer = "success" => q.fate \in {"query", "committed"}
     /\ q.answer = "clientError" => q.fate \in {"query", "none"}

GatewayInv ==
  /\ DOMAIN request = RestRequests /\ open \subseteq RestRequests
  /\ \A r \in RestRequests : RequestOK(request[r])
  /\ Gateway!GatewaysReleased

\* What an EXCEPT makes of a whole request.
LEMMA FateChanged ==
  ASSUME NEW q, Whole(q), NEW fate
  PROVE  [q EXCEPT !.fate = fate] = Request(q.step, q.call, q.read, q.answer, fate)
<1> DEFINE s == q.step
           c == q.call
           d == q.read
           a == q.answer
           f == q.fate
<1>1. q = Request(s, c, d, a, f)
  BY DEF Whole
<1> HIDE DEF s, c, d, a, f
<1>2. [q EXCEPT !.fate = fate] = Request(s, c, d, a, fate)
  BY <1>1, SMT DEF Request
<1> QED
  BY <1>2 DEF s, c, d, a

LEMMA AnswerChanged ==
  ASSUME NEW q, Whole(q), NEW step, NEW answer
  PROVE  [q EXCEPT !.step = step, !.answer = answer] =
           Request(step, q.call, q.read, answer, q.fate)
<1> DEFINE s == q.step
           c == q.call
           d == q.read
           a == q.answer
           f == q.fate
<1>1. q = Request(s, c, d, a, f)
  BY DEF Whole
<1> HIDE DEF s, c, d, a, f
<1> DEFINE q1 == [q EXCEPT !.step = step]
<1>2. q1 = Request(step, c, d, a, f)
  BY <1>1, SMT DEF Request
<1>3. [q EXCEPT !.step = step, !.answer = answer] = [q1 EXCEPT !.answer = answer]
  OBVIOUS
<1> HIDE DEF q1
<1>4. [q1 EXCEPT !.answer = answer] = Request(step, c, d, answer, f)
  BY <1>2, SMT DEF Request
<1> QED
  BY <1>3, <1>4 DEF c, d, f

LEMMA OrderedChanged ==
  ASSUME NEW q, Whole(q), NEW step, NEW fate, NEW read
  PROVE  [q EXCEPT !.step = step, !.fate = fate, !.read = read] =
           Request(step, q.call, read, q.answer, fate)
<1> DEFINE s == q.step
           c == q.call
           d == q.read
           a == q.answer
           f == q.fate
<1>1. q = Request(s, c, d, a, f)
  BY DEF Whole
<1> HIDE DEF s, c, d, a, f
<1> DEFINE q1 == [q EXCEPT !.step = step]
           q2 == [q1 EXCEPT !.fate = fate]
<1>2. q1 = Request(step, c, d, a, f)
  BY <1>1, SMT DEF Request
<1>3. [q EXCEPT !.step = step, !.fate = fate, !.read = read] = [q2 EXCEPT !.read = read]
  OBVIOUS
<1> HIDE DEF q1
<1>4. q2 = Request(step, c, d, a, fate)
  BY <1>2, SMT DEF Request
<1> HIDE DEF q2
<1>5. [q2 EXCEPT !.read = read] = Request(step, c, read, a, fate)
  BY <1>4, SMT DEF Request
<1> QED
  BY <1>3, <1>5 DEF c, a

\* One request changes: it stays as a request may be, and if it is no longer in
\* progress its gateway is closed.
LEMMA GatewayMove ==
  ASSUME GatewayInv, NEW r \in RestRequests, NEW q, RequestOK(q),
         request' = [request EXCEPT ![r] = q],
         \/ open' = open \ {r}
         \/ open' \subseteq open \cup {r} /\ q.step \in {"evaluate", "endorse", "commit"}
         \/ open' = open /\ r \notin open
  PROVE  GatewayInv'
<1>1. /\ DOMAIN request' = RestRequests /\ request'[r] = q
      /\ \A p \in RestRequests \ {r} : request'[p] = request[p]
  BY DEF GatewayInv
<1>2. open' \subseteq RestRequests /\ \A p \in RestRequests : RequestOK(request'[p])
  BY <1>1 DEF GatewayInv
<1>3. Gateway!GatewaysReleased'
  BY <1>1 DEF GatewayInv, Gateway!GatewaysReleased
<1> QED
  BY <1>1, <1>2, <1>3 DEF GatewayInv

LEMMA GatewayInit == Gateway!Init => GatewayInv
  BY DEF Gateway!Init, GatewayInv, RequestOK, Gateway!GatewaysReleased

LEMMA GatewayBegin ==
  ASSUME GatewayInv, NEW r \in RestRequests, NEW route, CallOK(route), Gateway!Begin(r, route)
  PROVE  GatewayInv'
<1> DEFINE query == route.name \in Gateway!Queries
           begun == [step |-> IF query THEN "evaluate" ELSE "endorse", call |-> route,
                     read |-> <<>>, answer |-> "none", fate |-> IF query THEN "query" ELSE "none"]
           failed == [step |-> "done", answer |-> Gateway!Failure(route),
                      fate |-> IF query THEN "query" ELSE "none"]
<1>1. /\ request[r].step \in {"idle", "done"}
      /\ \/ request' = [request EXCEPT ![r] = begun] /\ open' = open \cup {r}
         \/ request' = [request EXCEPT ![r] = failed] /\ UNCHANGED open
  BY DEF Gateway!Begin, Gateway!Free, Gateway!At
<1>2. r \notin open
  BY <1>1 DEF GatewayInv, Gateway!GatewaysReleased
<1>3. RequestOK(begun) /\ begun.step \in {"evaluate", "endorse"}
  BY DEF RequestOK, Whole, Request, Gateway!Answers
<1>4. RequestOK(failed)
  BY DEF RequestOK, Short, Gateway!Answers, Gateway!Fates, Gateway!Failure, Gateway!Queries
<1> HIDE DEF begun, failed
<1> QED
  BY <1>1, <1>2, <1>3, <1>4, GatewayMove

LEMMA Fields ==
  ASSUME NEW s, NEW c, NEW d, NEW a, NEW f
  PROVE  LET q == Request(s, c, d, a, f)
         IN  q.step = s /\ q.call = c /\ q.read = d /\ q.answer = a /\ q.fate = f /\ Whole(q)
  BY DEF Request, Whole

\* A request in progress that is answered: truthfully, if the answer is.
LEMMA GatewayAnswer ==
  ASSUME GatewayInv, NEW r \in RestRequests, NEW answer \in Gateway!Answers, Gateway!Answer(r, answer),
         request[r].step \in {"evaluate", "endorse", "commit"},
         answer = "success" => request[r].fate \in {"query", "committed"},
         answer = "clientError" => request[r].fate \in {"query", "none"},
         request[r].fate = "ordered" => answer = "unavailable"
  PROVE  GatewayInv'
<1> DEFINE q == request[r]
<1>1. Whole(q) /\ CallOK(q.call) /\ q.fate \in Gateway!Fates
  BY DEF GatewayInv, RequestOK, Gateway!Idle, Short, Gateway!Fates
<1>2. CASE q.fate = "ordered"
  <2> DEFINE p == Request("done", q.call, q.read, answer, q.fate)
  <2>1. [q EXCEPT !.step = "done", !.answer = answer] = p
    BY <1>1, AnswerChanged
  <2>2. request' = [request EXCEPT ![r] = p] /\ open' = open \ {r}
    BY <1>2, <2>1 DEF Gateway!Answer, Gateway!Done
  <2>3. RequestOK(p)
    BY <1>1, <1>2, Fields DEF RequestOK
  <2> HIDE DEF p
  <2> QED
    BY <2>2, <2>3, GatewayMove
<1>3. CASE q.fate # "ordered"
  <2> DEFINE p == [step |-> "done", answer |-> answer, fate |-> q.fate]
  <2>1. request' = [request EXCEPT ![r] = p] /\ open' = open \ {r}
    BY <1>3 DEF Gateway!Answer, Gateway!Done
  <2>2. RequestOK(p)
    BY <1>1, <1>3 DEF RequestOK, Short
  <2> HIDE DEF p
  <2> QED
    BY <2>1, <2>2, GatewayMove
<1> QED
  BY <1>2, <1>3

LEMMA GatewayEvaluate ==
  ASSUME GatewayInv, NEW r \in RestRequests, Gateway!Evaluate(r)
  PROVE  GatewayInv'
<1>1. request[r].step = "evaluate" /\ \E answer \in Gateway!Answers : Gateway!Answer(r, answer)
  BY DEF Gateway!Evaluate, Gateway!At, Gateway!Answers, Gateway!Failure
<1>2. request[r].fate = "query"
  BY <1>1 DEF GatewayInv, RequestOK, Gateway!Idle, Short
<1> QED
  BY <1>1, <1>2, GatewayAnswer

LEMMA GatewayEndorse ==
  ASSUME GatewayInv, NEW r \in RestRequests, Gateway!Endorse(r)
  PROVE  GatewayInv'
<1> DEFINE q == request[r]
           ordered == Request("commit", q.call, Gateway!Read(q.call), q.answer, "ordered")
<1>1. /\ q.step = "endorse"
      /\ \/ /\ request' = [request EXCEPT ![r].step = "commit", ![r].fate = "ordered",
                                           ![r].read = Gateway!Read(q.call)]
            /\ UNCHANGED open
         \/ \E answer \in {"clientError", "unavailable"} : Gateway!Answer(r, answer)
  BY DEF Gateway!Endorse, Gateway!At, Gateway!Refusal
<1>2. q.fate = "none" /\ Whole(q) /\ CallOK(q.call) /\ q.answer \in Gateway!Answers
  BY <1>1 DEF GatewayInv, RequestOK, Gateway!Idle, Short
<1>3. CASE /\ request' = [request EXCEPT ![r].step = "commit", ![r].fate = "ordered",
                                         ![r].read = Gateway!Read(q.call)]
           /\ UNCHANGED open
  <2>1. [q EXCEPT !.step = "commit", !.fate = "ordered", !.read = Gateway!Read(q.call)] = ordered
    BY <1>2, OrderedChanged
  <2>2. request' = [request EXCEPT ![r] = ordered]
    BY <1>3, <2>1 DEF GatewayInv
  <2>3. RequestOK(ordered) /\ ordered.step = "commit"
    BY <1>2, Fields DEF RequestOK
  <2>4. open' \subseteq open \cup {r}
    BY <1>3
  <2> HIDE DEF ordered
  <2> QED
    BY <2>2, <2>3, <2>4, GatewayMove
<1>4. CASE \E answer \in {"clientError", "unavailable"} : Gateway!Answer(r, answer)
  BY <1>1, <1>2, <1>4, GatewayAnswer DEF Gateway!Answers
<1> QED
  BY <1>1, <1>3, <1>4

LEMMA GatewayCommit ==
  ASSUME GatewayInv, NEW r \in RestRequests, Gateway!Commit(r)
  PROVE  GatewayInv'
<1> DEFINE q == request[r]
<1>1. q.step # "idle" /\ q.fate = "ordered" /\ UNCHANGED open
  BY DEF Gateway!Commit, Gateway!At
<1>2. PICK fate \in {"committed", "invalid"} : Gateway!Decide(r, fate)
  BY DEF Gateway!Commit
<1>3. /\ Whole(q) /\ RequestOK(q) /\ CallOK(q.call) /\ q.answer \in Gateway!Answers
      /\ q.step = "commit" \/ (q.step = "done" /\ q.answer = "unavailable")
  BY <1>1 DEF GatewayInv, RequestOK, Gateway!Idle, Short
<1>4. [q EXCEPT !.fate = fate] = Request(q.step, q.call, q.read, q.answer, fate)
  BY <1>3, FateChanged
<1>5. CASE q.step = "done"
  <2> DEFINE p == [step |-> "done", answer |-> q.answer, fate |-> fate]
  <2>1. Gateway!Done([q EXCEPT !.fate = fate], q.answer) = p
    BY <1>2, <1>4, Fields DEF Gateway!Done
  <2>2. request' = [request EXCEPT ![r] = p]
    BY <1>2, <1>5, <2>1 DEF Gateway!Decide, Gateway!At
  <2>3. RequestOK(p)
    BY <1>3, <1>5 DEF RequestOK, Short, Gateway!Fates
  <2>4. r \notin open
    BY <1>5 DEF GatewayInv, Gateway!GatewaysReleased
  <2> HIDE DEF p
  <2> QED
    BY <1>1, <2>2, <2>3, <2>4, GatewayMove
<1>6. CASE q.step = "commit"
  <2> DEFINE p == Request(q.step, q.call, q.read, q.answer, fate)
  <2>1. request' = [request EXCEPT ![r] = p]
    BY <1>2, <1>4, <1>6 DEF Gateway!Decide, Gateway!At
  <2>2. RequestOK(p) /\ p.step = "commit"
    BY <1>2, <1>3, <1>6, Fields DEF RequestOK
  <2>3. open' \subseteq open \cup {r}
    BY <1>1
  <2> HIDE DEF p
  <2> QED
    BY <2>1, <2>2, <2>3, GatewayMove
<1> QED
  BY <1>3, <1>5, <1>6

LEMMA GatewayAwait ==
  ASSUME GatewayInv, NEW r \in RestRequests, Gateway!Await(r)
  PROVE  GatewayInv'
<1>1. /\ request[r].step = "commit"
      /\ \/ request[r].fate = "committed" /\ Gateway!Answer(r, "success")
         \/ Gateway!Answer(r, "unavailable")
  BY DEF Gateway!Await, Gateway!At, Gateway!Succeeded
<1> QED
  BY <1>1, GatewayAnswer DEF Gateway!Answers

LEMMA ListingOK == CallOK(Gateway!Call("list", Null))
BY DEF CallOK, Gateway!Call, Gateway!Calls, Gateway!Names, Gateway!Queries

\* Each route of the router for a key begins some call.
LEMMA RoutesBegin ==
  ASSUME NEW r, NEW k \in Keys,
         \/ Gateway!FrontEnd(r, k) \/ Gateway!GetBatch(r, k) \/ Gateway!CreateBatch(r, k)
         \/ Gateway!StoreBatch(r, k) \/ Gateway!VerifyBatch(r, k)
         \/ Gateway!FinishedProduct(r, k) \/ Gateway!Tokenize(r, k) \/ Gateway!Approve(r, k)
  PROVE  \E route : CallOK(route) /\ Gateway!Begin(r, route)
<1>1. ASSUME NEW name \in Gateway!Names \ {"requestTokenization", "createFinishedProduct"}
      PROVE  CallOK(Gateway!Call(name, k))
  BY DEF CallOK, Gateway!Call, Gateway!Calls
<1>2. CallOK(Gateway!Call("list", Null))
  BY ListingOK
<1>3. ASSUME NEW name \in Gateway!Names, NEW b \in Keys
      PROVE  CallOK([Gateway!Call(name, k) EXCEPT !.batch = b])
  BY DEF CallOK, Gateway!Call, Gateway!Calls
<1> QED
  BY <1>1, <1>2, <1>3
  DEF Gateway!FrontEnd, Gateway!GetBatch, Gateway!CreateBatch,
     Gateway!StoreBatch, Gateway!VerifyBatch, Gateway!FinishedProduct,
     Gateway!Tokenize, Gateway!Approve, Gateway!BeginWrite, Gateway!GetProduct,
     Gateway!Verify, Gateway!ProductOperation, Gateway!MintNFT, Gateway!Names,
     Gateway!Queries, Gateway!Operations

LEMMA NextGateway == GatewayInv /\ [Gateway!Next]_gatewayVars => GatewayInv'
<1> SUFFICES ASSUME GatewayInv, [Gateway!Next]_gatewayVars PROVE GatewayInv'
  OBVIOUS
<1>1. ASSUME NEW r \in RestRequests, NEW k \in Keys,
             \/ Gateway!FrontEnd(r, k) \/ Gateway!GetBatch(r, k) \/ Gateway!CreateBatch(r, k)
             \/ Gateway!StoreBatch(r, k) \/ Gateway!VerifyBatch(r, k)
             \/ Gateway!FinishedProduct(r, k) \/ Gateway!Tokenize(r, k)
             \/ Gateway!Approve(r, k)
      PROVE  GatewayInv'
  BY <1>1, RoutesBegin, GatewayBegin
<1>2. ASSUME NEW r \in RestRequests, Gateway!ListBatches(r) \/ Gateway!ListProducts(r)
      PROVE  GatewayInv'
  BY <1>2, ListingOK, GatewayBegin DEF Gateway!ListBatches, Gateway!ListProducts
<1>3. CASE Gateway!Others
  BY <1>3 DEF Gateway!Others, GatewayInv, Gateway!GatewaysReleased
<1>4. CASE UNCHANGED gatewayVars
  BY <1>4 DEF gatewayVars, GatewayInv, Gateway!GatewaysReleased
<1>5. CASE Gateway!Next
  BY <1>1, <1>2, <1>3, <1>5, GatewayEvaluate, GatewayEndorse, GatewayCommit, GatewayAwait
  DEF Gateway!Next
<1> QED
  BY <1>4, <1>5

LEMMA AnswersAreTruthful == GatewayInv => Gateway!AnswersTruthful
<1> SUFFICES ASSUME GatewayInv, NEW r \in RestRequests,
                    request[r].step = "done", request[r].fate # "query"
             PROVE  /\ request[r].answer = "success" => request[r].fate = "committed"
                    /\ request[r].answer = "clientError" => request[r].fate = "none"
  BY DEF Gateway!AnswersTruthful, Gateway!At
<1>1. RequestOK(request[r]) /\ request[r] # Gateway!Idle
  BY DEF GatewayInv, Gateway!Idle
<1> QED
  BY <1>1 DEF RequestOK

LEMMA GatewayTyped == GatewayInv /\ Gateway!SC!TypeOK => Gateway!TypeOK
<1> SUFFICES ASSUME GatewayInv, NEW r \in RestRequests, request[r].step # "idle"
             PROVE  /\ request[r].step \in {"evaluate", "endorse", "commit", "done"}
                    /\ request[r].answer \in Gateway!Answers /\ request[r].fate \in Gateway!Fates
                    /\ request[r].step = "done" \/ request[r].call \in Gateway!Calls
  BY DEF GatewayInv, Gateway!TypeOK, Gateway!At
<1>1. RequestOK(request[r]) /\ request[r] # Gateway!Idle
  BY DEF GatewayInv, Gateway!Idle
<1> QED
  BY <1>1 DEF RequestOK, CallOK, Short, Gateway!Fates

-----------------------------------------------------------------------------
(* The gateways that pages and mobile requests leave open.                 *)

Asking == {m \in Mobiles : mobile[m] = "query"}

\* The gateways of pages: those open, with those to be opened, where one is set; where
\* none is set, those that the last stop left open.
PagesBounded ==
  /\ shared + Cardinality(Readers!Connecting) <= loads + 1
  /\ contract => shared >= 1
  /\ server \in {"down", "starting"} =>
       ~contract /\ shared = 0 /\ \A p \in Pages : page[p] = "idle"
  /\ server = "up" =>
       IF contract THEN shared + Cardinality(Readers!Connecting) <= Cardinality(Pages)
                   ELSE shared = 0
  /\ server = "stopping" =>
       IF contract THEN shared + Cardinality(Readers!Connecting) <= 2 * Cardinality(Pages) - 1
                   ELSE shared <= Cardinality(Pages) - 1

ReadersInv ==
  /\ Readers!TypeOK /\ PagesBounded
  /\ own = failures + Cardinality(Asking)

\* The instance counts as this module does.
LEMMA ReadersCountAlike ==
  ASSUME NEW S
  PROVE  /\ Readers!IsFiniteSet(S) = IsFiniteSet(S)
         /\ Readers!Cardinality(S) = Cardinality(S)
<1>1. Readers!IsFiniteSet(S) = IsFiniteSet(S)
  BY DEF IsFiniteSet, Readers!IsFiniteSet
<1>2. Readers!Cardinality(S) = Cardinality(S)
  BY DEF Cardinality, Readers!Cardinality
<1> QED
  BY <1>1, <1>2

LEMMA ReadersFinite ==
  /\ IsFiniteSet(Pages) /\ IsFiniteSet(Mobiles) /\ MaxLoads \in Nat
  /\ Cardinality(Pages) \in Nat /\ Cardinality(Pages) >= 1 /\ Cardinality(Mobiles) \in Nat
<1>1. IsFiniteSet(Pages) /\ Pages # {} /\ IsFiniteSet(Mobiles) /\ MaxLoads \in Nat
  BY ServicesAssumption, ReadersCountAlike DEF Readers!ReadersAssumption
<1>2. Cardinality(Pages) \in Nat /\ Cardinality(Mobiles) \in Nat
  BY <1>1, FS_CardinalityType
<1>3. Cardinality(Pages) = 0 <=> Pages = {}
  BY <1>1, FS_EmptySet, Zenon
<1> QED
  BY <1>1, <1>2, <1>3

LEMMA PartCount ==
  ASSUME NEW S, IsFiniteSet(S), NEW T, T \subseteq S
  PROVE  IsFiniteSet(T) /\ Cardinality(T) \in 0 .. Cardinality(S)
<1>1. IsFiniteSet(T) /\ Cardinality(T) <= Cardinality(S)
  BY FS_Subset
<1>2. Cardinality(T) \in Nat /\ Cardinality(S) \in Nat
  BY <1>1, FS_CardinalityType
<1> QED
  BY <1>1, <1>2

\* Two finite sets that differ in one element at most.
LEMMA OneMoreOrLess ==
  ASSUME NEW S, IsFiniteSet(S), NEW F, F \subseteq S, NEW G, G \subseteq S,
         NEW x, F \ {x} = G \ {x}
  PROVE  /\ Cardinality(F) \in 0 .. Cardinality(S) /\ Cardinality(G) \in 0 .. Cardinality(S)
         /\ Cardinality(G) = Cardinality(F) + (IF x \in G THEN 1 ELSE 0)
                                            - (IF x \in F THEN 1 ELSE 0)
<1>1. /\ IsFiniteSet(F) /\ Cardinality(F) \in 0 .. Cardinality(S)
      /\ IsFiniteSet(G) /\ Cardinality(G) \in 0 .. Cardinality(S)
  BY PartCount
<1>2. Cardinality(F \ {x}) = IF x \in F THEN Cardinality(F) - 1 ELSE Cardinality(F)
  BY <1>1, FS_RemoveElement
<1>3. Cardinality(G \ {x}) = IF x \in G THEN Cardinality(G) - 1 ELSE Cardinality(G)
  BY <1>1, FS_RemoveElement
<1> QED
  BY <1>1, <1>2, <1>3

LEMMA NoneConnecting ==
  ASSUME \A p \in Pages : page[p] = "idle"
  PROVE  Cardinality(Readers!Connecting) = 0
<1>1. Readers!Connecting = {}
  BY DEF Readers!Connecting
<1> QED
  BY <1>1, FS_EmptySet

LEMMA ReadersCounts ==
  ASSUME ReadersInv
  PROVE  /\ Cardinality(Readers!Connecting) \in 0 .. Cardinality(Pages)
         /\ Cardinality(Asking) \in 0 .. Cardinality(Mobiles)
         /\ shared \in Nat /\ loads \in 0 .. MaxLoads /\ failures \in 0 .. MaxLoads
         /\ contract \in BOOLEAN /\ server \in Readers!Servers
<1>1. Readers!Connecting \subseteq Pages /\ Asking \subseteq Mobiles
  BY DEF Readers!Connecting, Asking
<1>2. /\ Cardinality(Readers!Connecting) \in 0 .. Cardinality(Pages)
      /\ Cardinality(Asking) \in 0 .. Cardinality(Mobiles)
  BY <1>1, ReadersFinite, PartCount
<1> QED
  BY <1>2, ReadersFinite DEF ReadersInv, Readers!TypeOK

LEMMA InitReaders == Readers!Init => ReadersInv
<1> SUFFICES ASSUME Readers!Init PROVE ReadersInv
  OBVIOUS
<1>1. /\ server = "down" /\ contract = FALSE
      /\ page = [p \in Pages |-> "idle"] /\ mobile = [m \in Mobiles |-> "idle"]
      /\ shared = 0 /\ own = 0 /\ loads = 0 /\ failures = 0
  BY DEF Readers!Init
<1>2. \A p \in Pages : page[p] = "idle"
  BY <1>1
<1>3. Cardinality(Readers!Connecting) = 0
  BY <1>2, NoneConnecting
<1>4. Asking = {}
  BY <1>1 DEF Asking
<1>5. Cardinality(Asking) = 0
  BY <1>4, FS_EmptySet
<1>6. Readers!TypeOK
  <2>1. Readers!Cardinality(Mobiles) \in Nat
    BY ReadersFinite, ReadersCountAlike
  <2> QED
    <3>1. server \in Readers!Servers /\ contract \in BOOLEAN
      BY <1>1 DEF Readers!Servers
    <3>2. page \in [Pages -> Readers!PageSteps] /\ mobile \in [Mobiles -> {"idle", "query"}]
      BY <1>1 DEF Readers!PageSteps
    <3>3. /\ shared \in 0 .. MaxLoads + 1 /\ loads \in 0 .. MaxLoads
          /\ own \in 0 .. MaxLoads + Readers!Cardinality(Mobiles) /\ failures \in 0 .. MaxLoads
      BY <1>1, <2>1, ReadersFinite
    <3> QED
      BY <3>1, <3>2, <3>3 DEF Readers!TypeOK
<1> QED
  BY <1>1, <1>2, <1>3, <1>5, <1>6 DEF ReadersInv, PagesBounded

\* What types the gateways: pages and mobile requests that were begun bound them.
LEMMA ReadersTyped ==
  ASSUME server' \in Readers!Servers, contract' \in BOOLEAN,
         page' \in [Pages -> Readers!PageSteps], mobile' \in [Mobiles -> {"idle", "query"}],
         loads' \in 0 .. MaxLoads, failures' \in 0 .. MaxLoads, shared' \in Nat,
         PagesBounded', own' = failures' + Cardinality(Asking')
  PROVE  ReadersInv'
<1> DEFINE connecting == {p \in Pages : page'[p] = "connect"}
           asking == {m \in Mobiles : mobile'[m] = "query"}
<1>1. connecting \subseteq Pages /\ asking \subseteq Mobiles
  OBVIOUS
<1>2. Readers!Connecting' = connecting /\ Asking' = asking
  BY DEF Readers!Connecting, Asking
<1> HIDE DEF connecting, asking
<1>3. Cardinality(connecting) \in Nat /\ Cardinality(asking) \in 0 .. Cardinality(Mobiles)
  BY <1>1, ReadersFinite, PartCount
<1>4. shared' + Cardinality(connecting) <= loads' + 1 /\ own' = failures' + Cardinality(asking)
  BY <1>2 DEF PagesBounded
<1>5. shared' \in 0 .. MaxLoads + 1 /\ own' \in 0 .. MaxLoads + Cardinality(Mobiles)
  BY <1>3, <1>4, ReadersFinite
<1> QED
  BY <1>5, ReadersCountAlike DEF ReadersInv, Readers!TypeOK

LEMMA PagesStay ==
  ASSUME ReadersInv, UNCHANGED <<server, contract, page, shared, loads>>
  PROVE  PagesBounded'
  BY DEF ReadersInv, PagesBounded, Readers!Connecting

LEMMA MobilesStay ==
  ASSUME ReadersInv, UNCHANGED <<mobile, own, failures>>
  PROVE  own' = failures' + Cardinality(Asking')
  BY DEF ReadersInv, Asking

\* A page goes on: how many connect afterwards.
LEMMA PageGoes ==
  ASSUME ReadersInv, NEW p \in Pages, NEW step \in Readers!PageSteps, Readers!Goes(p, step)
  PROVE  LET before == Cardinality(Readers!Connecting)
             after == Cardinality(Readers!Connecting')
         IN  /\ page' \in [Pages -> Readers!PageSteps]
             /\ after \in 0 .. Cardinality(Pages)
             /\ after = before + (IF step = "connect" THEN 1 ELSE 0)
                               - (IF page[p] = "connect" THEN 1 ELSE 0)
<1>1. page \in [Pages -> Readers!PageSteps]
  BY DEF ReadersInv, Readers!TypeOK
<1>2. /\ page' \in [Pages -> Readers!PageSteps] /\ page'[p] = step
      /\ \A q \in Pages \ {p} : page'[q] = page[q]
  BY <1>1 DEF Readers!Goes
<1> DEFINE F == {q \in Pages : page[q] = "connect"}
           G == {q \in Pages : page'[q] = "connect"}
<1>3. F \subseteq Pages /\ G \subseteq Pages /\ F \ {p} = G \ {p}
  BY <1>2
<1>4. (p \in F <=> page[p] = "connect") /\ (p \in G <=> step = "connect")
  BY <1>2
<1>5. Readers!Connecting = F /\ Readers!Connecting' = G
  BY DEF Readers!Connecting
<1> HIDE DEF F, G
<1>6. /\ Cardinality(G) \in 0 .. Cardinality(Pages)
      /\ Cardinality(G) = Cardinality(F) + (IF p \in G THEN 1 ELSE 0)
                                         - (IF p \in F THEN 1 ELSE 0)
  BY <1>3, ReadersFinite, OneMoreOrLess
<1> QED
  BY <1>2, <1>4, <1>5, <1>6

LEMMA MobileGoesOn ==
  ASSUME ReadersInv, NEW m \in Mobiles, NEW step \in {"idle", "query"},
         Readers!MobileGoes(m, step)
  PROVE  LET before == Cardinality(Asking)
             after == Cardinality(Asking')
         IN  /\ mobile' \in [Mobiles -> {"idle", "query"}]
             /\ after = before + (IF step = "query" THEN 1 ELSE 0)
                               - (IF mobile[m] = "query" THEN 1 ELSE 0)
<1>1. mobile \in [Mobiles -> {"idle", "query"}]
  BY DEF ReadersInv, Readers!TypeOK
<1>2. /\ mobile' \in [Mobiles -> {"idle", "query"}] /\ mobile'[m] = step
      /\ \A q \in Mobiles \ {m} : mobile'[q] = mobile[q]
  BY <1>1 DEF Readers!MobileGoes
<1> DEFINE F == {q \in Mobiles : mobile[q] = "query"}
           G == {q \in Mobiles : mobile'[q] = "query"}
<1>3. F \subseteq Mobiles /\ G \subseteq Mobiles /\ F \ {m} = G \ {m}
  BY <1>2
<1>4. (m \in F <=> mobile[m] = "query") /\ (m \in G <=> step = "query")
  BY <1>2
<1>5. Asking = F /\ Asking' = G
  BY DEF Asking
<1> HIDE DEF F, G
<1>6. Cardinality(G) = Cardinality(F) + (IF m \in G THEN 1 ELSE 0) - (IF m \in F THEN 1 ELSE 0)
  BY <1>3, ReadersFinite, OneMoreOrLess
<1> QED
  BY <1>2, <1>4, <1>5, <1>6

LEMMA ReadersStart == ReadersInv /\ Readers!StartServer => ReadersInv'
<1> SUFFICES ASSUME ReadersInv, Readers!StartServer PROVE ReadersInv'
  OBVIOUS
<1> DEFINE c == Cardinality(Readers!Connecting)
<1>1. UNCHANGED <<page, loads, mobile, own, failures>>
  BY DEF Readers!StartServer, Readers!OwnUnchanged
<1>2. Cardinality(Readers!Connecting') = c
  BY <1>1 DEF Readers!Connecting
<1>3. /\ server \in {"down", "starting"}
      /\ contract = FALSE /\ shared = 0 /\ \A p \in Pages : page[p] = "idle"
  BY DEF Readers!StartServer, ReadersInv, PagesBounded, Readers!TypeOK
<1>4. c = 0
  BY <1>3, NoneConnecting
<1> HIDE DEF c
<1>5. \/ server' = "starting" /\ UNCHANGED <<contract, shared>>
      \/ server' = "up" /\ contract' = TRUE /\ shared' = 1
      \/ server' = "up" /\ UNCHANGED <<contract, shared>>
  BY <1>3 DEF Readers!StartServer, Readers!Connected, Readers!NotConnected
<1>10. loads \in Nat /\ Cardinality(Pages) \in Nat /\ Cardinality(Pages) >= 1
  BY ReadersCounts, ReadersFinite
<1>11. shared' + c <= loads' + 1 /\ (contract' => shared' >= 1)
  BY <1>1, <1>3, <1>4, <1>5, <1>10
<1>13. server' = "up" \/ server' = "starting"
  BY <1>5
<1>12. /\ server' = "starting" => ~contract' /\ shared' = 0 /\ \A p \in Pages : page'[p] = "idle"
       /\ server' = "up" => IF contract' THEN shared' + c <= Cardinality(Pages) ELSE shared' = 0
  BY <1>1, <1>3, <1>4, <1>5, <1>10
<1>6. PagesBounded'
  BY <1>2, <1>11, <1>12, <1>13 DEF PagesBounded
<1>7. server' \in Readers!Servers /\ contract' \in BOOLEAN /\ shared' \in Nat
  <2>1. server' \in Readers!Servers
    BY <1>13 DEF Readers!Servers
  <2>2. contract' \in BOOLEAN
    BY <1>3, <1>5
  <2>3. shared' = 0 \/ shared' = 1
    BY <1>3, <1>5
  <2> QED
    BY <2>1, <2>2, <2>3
<1>8. own' = failures' + Cardinality(Asking')
  BY <1>1, MobilesStay
<1>9. page' \in [Pages -> Readers!PageSteps] /\ mobile' \in [Mobiles -> {"idle", "query"}]
  BY <1>1 DEF ReadersInv, Readers!TypeOK
<1> QED
  BY <1>1, <1>6, <1>7, <1>8, <1>9, ReadersCounts, ReadersTyped

LEMMA ReadersStop == ReadersInv /\ Readers!StopServer => ReadersInv'
<1> SUFFICES ASSUME ReadersInv, Readers!StopServer PROVE ReadersInv'
  OBVIOUS
<1> DEFINE c == Cardinality(Readers!Connecting)
<1>1. UNCHANGED <<page, mobile>> /\ contract' = FALSE
  BY DEF Readers!StopServer
<1>2. Cardinality(Readers!Connecting') = c /\ Cardinality(Asking') = Cardinality(Asking)
  BY <1>1 DEF Readers!Connecting, Asking
<1>3. page' \in [Pages -> Readers!PageSteps] /\ mobile' \in [Mobiles -> {"idle", "query"}]
  BY <1>1 DEF ReadersInv, Readers!TypeOK
<1>4. /\ c \in 0 .. Cardinality(Pages) /\ shared \in Nat /\ loads \in 0 .. MaxLoads
      /\ Cardinality(Pages) \in Nat /\ Cardinality(Pages) >= 1 /\ MaxLoads \in Nat
  BY ReadersCounts, ReadersFinite
<1>5. CASE /\ server \in {"starting", "up"} /\ server' = "stopping"
           /\ shared' = IF contract THEN shared - 1 ELSE shared
           /\ UNCHANGED <<own, loads, failures>>
  <2> HIDE DEF c
  <2>1. /\ shared + c <= loads + 1 /\ contract \in BOOLEAN
        /\ (contract => shared >= 1 /\ shared + c <= Cardinality(Pages))
        /\ ~contract => shared = 0
    <3>1. /\ shared + c <= loads + 1 /\ contract \in BOOLEAN
          /\ server \in {"down", "starting"} => ~contract /\ shared = 0
          /\ contract => shared >= 1
          /\ server = "up" => IF contract THEN shared + c <= Cardinality(Pages) ELSE shared = 0
      BY ReadersCounts DEF ReadersInv, PagesBounded, c
    <3> QED
      BY <1>5, <3>1
  <2>2. shared' \in Nat /\ shared' <= Cardinality(Pages) - 1 /\ shared' + c <= loads' + 1
    BY <1>4, <1>5, <2>1
  <2>3. PagesBounded'
    BY <1>1, <1>2, <1>5, <2>2 DEF PagesBounded
  <2>4. server' \in Readers!Servers /\ contract' \in BOOLEAN
    BY <1>1, <1>5 DEF Readers!Servers
  <2>5. own' = failures' + Cardinality(Asking')
    BY <1>1, <1>5, MobilesStay
  <2> QED
    BY <1>3, <1>5, <2>2, <2>3, <2>4, <2>5, ReadersCounts, ReadersTyped
<1>6. CASE /\ server' = "down" /\ \A p \in Pages : page[p] = "idle"
           /\ \A m \in Mobiles : mobile[m] = "idle"
           /\ shared' = 0 /\ own' = 0 /\ loads' = 0 /\ failures' = 0
  <2>1. c = 0
    BY <1>6, NoneConnecting
  <2>2. Asking = {}
    BY <1>6 DEF Asking
  <2>3. Cardinality(Asking) = 0
    BY <2>2, FS_EmptySet
  <2> HIDE DEF c
  <2>4. PagesBounded'
    BY <1>1, <1>2, <1>6, <2>1 DEF PagesBounded
  <2>5. server' \in Readers!Servers /\ contract' \in BOOLEAN
    BY <1>1, <1>6 DEF Readers!Servers
  <2>6. own' = failures' + Cardinality(Asking')
    BY <1>2, <1>6, <2>3
  <2>7. loads' \in 0 .. MaxLoads /\ failures' \in 0 .. MaxLoads /\ shared' \in Nat
    BY <1>4, <1>6
  <2> QED
    BY <1>3, <2>4, <2>5, <2>6, <2>7, ReadersTyped
<1> QED
  BY <1>1, <1>5, <1>6 DEF Readers!StopServer

LEMMA ReadersPage ==
  ASSUME ReadersInv, NEW p \in Pages, Readers!Page(p)
  PROVE  ReadersInv'
<1> DEFINE c == Cardinality(Readers!Connecting)
           step == IF contract THEN "query" ELSE "connect"
<1>1. /\ server \in {"up", "stopping"} /\ page[p] = "idle"
      /\ loads < MaxLoads /\ loads' = loads + 1 /\ Readers!Goes(p, step)
      /\ UNCHANGED <<server, contract, shared, mobile, own, failures>>
  BY DEF Readers!Page, Readers!Listening, Readers!OwnUnchanged
<1>2. /\ page' \in [Pages -> Readers!PageSteps]
      /\ Cardinality(Readers!Connecting') \in 0 .. Cardinality(Pages)
      /\ Cardinality(Readers!Connecting') = c + (IF contract THEN 0 ELSE 1)
  <2>1. step \in Readers!PageSteps /\ (step = "connect" <=> ~contract)
    BY DEF Readers!PageSteps
  <2> HIDE DEF step
  <2>2. c \in 0 .. Cardinality(Pages)
    BY ReadersCounts
  <2> QED
    BY <1>1, <2>1, <2>2, PageGoes, ReadersFinite
<1>3. /\ c \in Nat /\ shared \in Nat /\ loads \in Nat
      /\ Cardinality(Pages) \in Nat /\ contract \in BOOLEAN /\ server \in Readers!Servers
  BY ReadersCounts, ReadersFinite
<1>4. /\ shared + c <= loads + 1
      /\ contract => shared >= 1
      /\ server = "up" => IF contract THEN shared + c <= Cardinality(Pages) ELSE shared = 0
      /\ server = "stopping" =>
           IF contract THEN shared + c <= 2 * Cardinality(Pages) - 1
                       ELSE shared <= Cardinality(Pages) - 1
  BY DEF ReadersInv, PagesBounded
<1> DEFINE d == Cardinality(Readers!Connecting')
<1> HIDE DEF c, d
<1>8. /\ shared' + d <= loads' + 1 /\ (contract' => shared' >= 1)
      /\ server' = "up" => IF contract' THEN shared' + d <= Cardinality(Pages) ELSE shared' = 0
      /\ server' = "stopping" =>
           IF contract' THEN shared' + d <= 2 * Cardinality(Pages) - 1
                        ELSE shared' <= Cardinality(Pages) - 1
  <2>1. contract' = contract /\ shared' = shared /\ loads' = loads + 1 /\ server' = server
    BY <1>1
  <2>2. d = c + (IF contract THEN 0 ELSE 1) /\ d \in 0 .. Cardinality(Pages)
    BY <1>2 DEF d
  <2>3. CASE contract
    BY <1>3, <1>4, <2>1, <2>2, <2>3
  <2>4. CASE ~contract
    BY <1>3, <1>4, <2>1, <2>2, <2>4
  <2> QED
    BY <2>3, <2>4
<1>9. server' = "up" \/ server' = "stopping"
  BY <1>1
<1>5. PagesBounded'
  BY <1>8, <1>9 DEF PagesBounded, d
<1>6. loads' \in 0 .. MaxLoads
  BY <1>1, <1>3, ReadersFinite
<1>7. own' = failures' + Cardinality(Asking') /\ mobile' \in [Mobiles -> {"idle", "query"}]
  BY <1>1, MobilesStay DEF ReadersInv, Readers!TypeOK
<1> QED
  BY <1>1, <1>2, <1>3, <1>5, <1>6, <1>7, ReadersCounts, ReadersTyped

\* A page in progress: the server took it, so it is not down.
LEMMA PageInProgress ==
  ASSUME ReadersInv, NEW p \in Pages, page[p] # "idle"
  PROVE  server \in {"up", "stopping"}
  BY ReadersCounts DEF ReadersInv, PagesBounded, Readers!Servers

LEMMA ReadersPageConnects ==
  ASSUME ReadersInv, NEW p \in Pages, Readers!PageConnects(p)
  PROVE  ReadersInv'
<1> DEFINE c == Cardinality(Readers!Connecting)
           d == Cardinality(Readers!Connecting')
<1>1. /\ page[p] = "connect" /\ UNCHANGED <<server, loads, mobile, own, failures>>
      /\ server \in {"up", "stopping"}
      /\ \/ contract' = TRUE /\ shared' = shared + 1 /\ Readers!Goes(p, "query")
         \/ UNCHANGED <<contract, shared>> /\ Readers!Goes(p, "idle")
  BY PageInProgress DEF Readers!PageConnects, Readers!OwnUnchanged, Readers!Connected,
     Readers!NotConnected
<1>2. c \in 0 .. Cardinality(Pages)
  BY ReadersCounts
<1>3. page' \in [Pages -> Readers!PageSteps] /\ d \in 0 .. Cardinality(Pages) /\ d = c - 1
  <2>1. ASSUME NEW step \in {"query", "idle"}, Readers!Goes(p, step)
        PROVE  page' \in [Pages -> Readers!PageSteps] /\ d \in 0 .. Cardinality(Pages)
               /\ d = c - 1
    <3>1. step \in Readers!PageSteps /\ step # "connect"
      BY <2>1 DEF Readers!PageSteps
    <3> QED
      BY <1>1, <1>2, <2>1, <3>1, PageGoes, ReadersFinite
  <2> QED
    BY <1>1, <2>1
<1>4. /\ shared \in Nat /\ loads \in Nat
      /\ Cardinality(Pages) \in Nat /\ contract \in BOOLEAN /\ server \in Readers!Servers
  BY ReadersCounts, ReadersFinite
<1>5. /\ shared + c <= loads + 1
      /\ contract => shared >= 1
      /\ server = "up" => IF contract THEN shared + c <= Cardinality(Pages) ELSE shared = 0
      /\ server = "stopping" =>
           IF contract THEN shared + c <= 2 * Cardinality(Pages) - 1
                       ELSE shared <= Cardinality(Pages) - 1
  BY DEF ReadersInv, PagesBounded
<1> HIDE DEF c, d
<1>11. shared' \in Nat /\ shared' + d <= loads' + 1
  <2>1. CASE shared' = shared + 1
    BY <1>1, <1>2, <1>3, <1>4, <1>5, <2>1
  <2>2. CASE shared' = shared
    BY <1>1, <1>2, <1>3, <1>4, <1>5, <2>2
  <2> QED
    BY <1>1, <2>1, <2>2
<1>9. PagesBounded' /\ contract' \in BOOLEAN
  <2>1. CASE contract' = TRUE /\ shared' = shared + 1
    <3>1. shared' + d = shared + c
      BY <1>2, <1>3, <1>4, <2>1
    <3>2. server = "up" => shared + c <= Cardinality(Pages)
      BY <1>2, <1>4, <1>5
    <3>3. server = "stopping" => shared + c <= 2 * Cardinality(Pages) - 1
      BY <1>2, <1>4, <1>5
    <3>4. contract' /\ shared' >= 1
      BY <1>4, <2>1
    <3>5. PagesBounded'
      BY <1>1, <1>11, <3>1, <3>2, <3>3, <3>4 DEF PagesBounded, d
    <3> QED
      BY <2>1, <3>5
  <2>2. CASE UNCHANGED <<contract, shared>>
    <3>1. shared' + d <= shared + c
      BY <1>2, <1>3, <1>4, <2>2
    <3>2. /\ server = "up" => IF contract THEN shared' + d <= Cardinality(Pages) ELSE shared = 0
          /\ server = "stopping" =>
               IF contract THEN shared' + d <= 2 * Cardinality(Pages) - 1
                           ELSE shared <= Cardinality(Pages) - 1
      <4>1. CASE contract
        BY <1>2, <1>3, <1>4, <1>5, <2>2, <3>1, <4>1
      <4>2. CASE ~contract
        BY <1>5, <4>2
      <4> QED
        BY <4>1, <4>2
    <3>3. PagesBounded'
      BY <1>1, <1>5, <2>2, <1>11, <3>2 DEF PagesBounded, d
    <3> QED
      BY <1>4, <2>2, <3>3
  <2> QED
    BY <1>1, <2>1, <2>2
<1>10. own' = failures' + Cardinality(Asking') /\ mobile' \in [Mobiles -> {"idle", "query"}]
  BY <1>1, MobilesStay DEF ReadersInv, Readers!TypeOK
<1> QED
  BY <1>1, <1>3, <1>4, <1>9, <1>10, <1>11, ReadersCounts, ReadersTyped

LEMMA ReadersPageAnswers ==
  ASSUME ReadersInv, NEW p \in Pages, Readers!PageAnswers(p)
  PROVE  ReadersInv'
<1>1. /\ page[p] = "query" /\ Readers!Goes(p, "idle")
      /\ UNCHANGED <<server, contract, shared, loads, mobile, own, failures>>
  BY DEF Readers!PageAnswers, Readers!OwnUnchanged
<1>2. Cardinality(Readers!Connecting) \in 0 .. Cardinality(Pages) /\ "idle" \in Readers!PageSteps
  BY ReadersCounts DEF Readers!PageSteps
<1>3. /\ page' \in [Pages -> Readers!PageSteps]
      /\ Cardinality(Readers!Connecting') = Cardinality(Readers!Connecting)
  BY <1>1, <1>2, PageGoes, ReadersFinite
<1>4. server \in {"up", "stopping"}
  BY <1>1, PageInProgress
<1>5. PagesBounded'
  BY <1>1, <1>3, <1>4 DEF ReadersInv, PagesBounded
<1>6. own' = failures' + Cardinality(Asking') /\ mobile' \in [Mobiles -> {"idle", "query"}]
  BY <1>1, MobilesStay DEF ReadersInv, Readers!TypeOK
<1> QED
  BY <1>1, <1>3, <1>5, <1>6, ReadersCounts, ReadersTyped

LEMMA ReadersMobile ==
  ASSUME ReadersInv, NEW m \in Mobiles, Readers!Mobile(m) \/ Readers!MobileAnswers(m)
  PROVE  ReadersInv'
<1>1. UNCHANGED <<server, contract, page, shared, loads>>
  BY DEF Readers!Mobile, Readers!MobileAnswers, Readers!SharedUnchanged
<1>2. own = failures + Cardinality(Asking) /\ failures \in Nat /\ Cardinality(Asking) \in Nat
  BY ReadersCounts, ReadersFinite DEF ReadersInv
<1>3. PagesBounded' /\ page' \in [Pages -> Readers!PageSteps]
  BY <1>1, PagesStay DEF ReadersInv, Readers!TypeOK
<1>4. /\ mobile' \in [Mobiles -> {"idle", "query"}] /\ failures' \in 0 .. MaxLoads
      /\ own' = failures' + Cardinality(Asking')
  <2>1. CASE Readers!Mobile(m)
    <3>1. /\ mobile[m] = "idle" /\ Readers!MobileGoes(m, "query") /\ own' = own + 1
          /\ failures' = failures
      BY <2>1 DEF Readers!Mobile
    <3>2. /\ mobile' \in [Mobiles -> {"idle", "query"}]
          /\ Cardinality(Asking') = Cardinality(Asking) + 1
      BY <1>2, <3>1, MobileGoesOn
    <3> QED
      BY <1>2, <3>1, <3>2, ReadersCounts
  <2>2. CASE Readers!MobileAnswers(m)
    <3>1. /\ mobile[m] = "query" /\ Readers!MobileGoes(m, "idle")
          /\ \/ own' = own - 1 /\ failures' = failures
             \/ failures < MaxLoads /\ failures' = failures + 1 /\ own' = own
      BY <2>2 DEF Readers!MobileAnswers, Readers!Disconnect
    <3>2. /\ mobile' \in [Mobiles -> {"idle", "query"}]
          /\ Cardinality(Asking') = Cardinality(Asking) - 1
      BY <1>2, <3>1, MobileGoesOn
    <3>3. failures' \in 0 .. MaxLoads
      BY <3>1, ReadersCounts, ReadersFinite
    <3> QED
      BY <1>2, <3>1, <3>2, <3>3
  <2> QED
    BY <2>1, <2>2
<1> QED
  BY <1>1, <1>3, <1>4, ReadersCounts, ReadersTyped

LEMMA NextReaders == ReadersInv /\ [Readers!Next]_readersVars => ReadersInv'
<1> SUFFICES ASSUME ReadersInv, [Readers!Next]_readersVars PROVE ReadersInv'
  OBVIOUS
<1>1. CASE Readers!Next
  BY <1>1, ReadersStart, ReadersStop, ReadersPage, ReadersPageConnects, ReadersPageAnswers,
     ReadersMobile
  DEF Readers!Next, Readers!Batches, Readers!BatchDetails, Readers!Products,
     Readers!ProductDetails, Readers!VerifyPage, Readers!ScanProduct,
     Readers!ProductDetailsMobile
<1>2. CASE UNCHANGED readersVars
  BY <1>2 DEF readersVars, ReadersInv, PagesBounded, Readers!TypeOK, Readers!Connecting, Asking
<1> QED
  BY <1>1, <1>2

LEMMA ReadersBounded == ReadersInv => Readers!GatewaysBounded
<1> SUFFICES ASSUME ReadersInv PROVE Readers!GatewaysBounded
  OBVIOUS
<1> DEFINE c == Cardinality(Readers!Connecting)
<1>1. /\ c \in 0 .. Cardinality(Pages) /\ shared \in Nat /\ contract \in BOOLEAN
      /\ Cardinality(Pages) \in Nat /\ Cardinality(Pages) >= 1 /\ server \in Readers!Servers
  BY ReadersCounts, ReadersFinite
<1>2. /\ server \in {"down", "starting"} => ~contract /\ shared = 0
      /\ server = "up" => IF contract THEN shared + c <= Cardinality(Pages) ELSE shared = 0
      /\ server = "stopping" =>
           IF contract THEN shared + c <= 2 * Cardinality(Pages) - 1
                       ELSE shared <= Cardinality(Pages) - 1
  BY DEF ReadersInv, PagesBounded
<1> HIDE DEF c
<1>3. shared + c <= IF server = "stopping" THEN 2 * Cardinality(Pages) - 1 ELSE Cardinality(Pages)
  BY <1>1, <1>2 DEF Readers!Servers
<1>4. own = failures + Cardinality(Asking)
  BY DEF ReadersInv
<1> QED
  BY <1>3, <1>4, ReadersCountAlike DEF Readers!GatewaysBounded, c, Asking

-----------------------------------------------------------------------------
(* The devices, their readings, and the references to them.                *)

IoTRecords(k) ==
  [device : IF k \in Devices THEN IoT!DeviceFields ELSE {Null},
   iotData : Seq(IoT!Refs), warnings : 0 .. MaxReadings]

\* The device whose reading a reference leads to, and the references of one that are
\* not in its own record.
Sender(r) == records[r[1]].iotData[r[2]].id.device
Elsewhere(d) == {r \in IoT!References : r[1] \in IoT!Entities \ {d} /\ Sender(r) \in {d}}
Alerts(k) == {i \in DOMAIN records[k].iotData : records[k].iotData[i].abnormal}

RecordsTyped ==
  /\ DOMAIN records = IoT!Entities
  /\ \A k \in IoT!Entities : IoT!Exists(k) => records[k] \in IoTRecords(k)

DataTyped ==
  /\ DOMAIN data \subseteq IoT!DataIds
  /\ \A i \in DOMAIN data :
       /\ data[i] \in IoT!DataRecords
       /\ data[i].abnormal = IoT!DetectAbnormalData(data[i].reading)
  /\ ms \in IoT!Clocks

\* A stored reading is of the type of its device, which is registered.
ReadingsFit ==
  \A i \in DOMAIN data :
    IoT!Exists(i.device) /\ data[i].reading.type = records[i.device].device.type

ReferencesLead ==
  /\ IsFiniteSet(IoT!References) /\ Cardinality(IoT!References) <= MaxReadings
  /\ \A k \in IoT!Entities : IoT!Exists(k) =>
       \A i \in DOMAIN records[k].iotData :
         LET ref == records[k].iotData[i]
         IN  ref.id \in DOMAIN data /\ data[ref.id].reading.type = ref.type

CountsAgree ==
  /\ \A d \in Devices : IoT!Exists(d) =>
       records[d].device.dataCount = Cardinality(Elsewhere(d))
  /\ \A k \in IoT!Entities : IoT!Exists(k) =>
       /\ IsFiniteSet(Alerts(k)) /\ records[k].warnings = Cardinality(Alerts(k))
       /\ records[k].warnings <= Cardinality(IoT!References)

IoTInv == RecordsTyped /\ DataTyped /\ ReadingsFit /\ ReferencesLead /\ CountsAgree

LEMMA IoTCountsAlike ==
  ASSUME NEW S
  PROVE  IoT!Cardinality(S) = Cardinality(S)
BY DEF Cardinality, IoT!Cardinality, IsFiniteSet, IoT!IsFiniteSet

LEMMA IoTConstants ==
  /\ MaxReadings \in Nat /\ MaxMs \in Nat
  /\ \A k \in Devices : k \notin MonitoredProducts
  /\ \A r \in Readings : r.level \in Int
  /\ \A k : Null \notin IoTRecords(k)
<1>1. /\ MaxReadings \in Nat /\ MaxMs \in Nat /\ Devices \cap MonitoredProducts = {}
      /\ \A r \in Readings : r.level \in Int
      /\ Null \notin [device : IoT!DeviceFields \cup {Null}, iotData : Seq(IoT!Refs),
                      warnings : Nat]
  BY ServicesAssumption DEF IoT!IoTAssumption
<1>2. ASSUME NEW k, Null \in IoTRecords(k) PROVE FALSE
  <2>1. PICK device \in IoT!DeviceFields \cup {Null}, iotData \in Seq(IoT!Refs), warnings \in Nat :
          Null = [device |-> device, iotData |-> iotData, warnings |-> warnings]
    BY <1>1, <1>2 DEF IoTRecords
  <2> QED
    BY <1>1, <2>1
<1> QED
  BY <1>1, <1>2

\* A reference is a record and a position there.
LEMMA ReferenceIsPlace ==
  ASSUME NEW r
  PROVE  r \in IoT!References <=>
           \E k \in IoT!Entities : IoT!Exists(k) /\ \E i \in DOMAIN records[k].iotData : r = <<k, i>>
BY DEF IoT!References

LEMMA InitIoT == IoT!Init => IoTInv
<1> SUFFICES ASSUME IoT!Init PROVE IoTInv
  OBVIOUS
<1>1. /\ records = [k \in IoT!Entities |-> Null] /\ data = [i \in {} |-> 0] /\ ms = 0
  BY DEF IoT!Init
<1>2. \A k \in IoT!Entities : ~IoT!Exists(k)
  BY <1>1 DEF IoT!Exists
<1>3. IoT!References = {}
  BY <1>2, ReferenceIsPlace
<1>4. IsFiniteSet(IoT!References) /\ Cardinality(IoT!References) = 0
  BY <1>3, FS_EmptySet
<1>5. RecordsTyped
  BY <1>1, <1>2 DEF RecordsTyped
<1>6. DataTyped
  BY <1>1, IoTConstants DEF DataTyped, IoT!Clocks
<1>7. ReferencesLead
  BY <1>2, <1>4, IoTConstants DEF ReferencesLead
<1>8. CountsAgree
  BY <1>2 DEF CountsAgree, IoT!Entities
<1>9. ReadingsFit
  BY <1>1 DEF ReadingsFit
<1> QED
  BY <1>5, <1>6, <1>7, <1>8, <1>9 DEF IoTInv

\* Writes that leave the readings and the references alone.
LEMMA PutKeepsIoT ==
  ASSUME IoTInv, NEW k \in IoT!Entities, NEW record \in IoTRecords(k),
         records' = [records EXCEPT ![k] = record], data' = data, ms' = ms,
         IoT!Exists(k) =>
           /\ record.iotData = records[k].iotData /\ record.warnings = records[k].warnings
           /\ k \in Devices => /\ record.device.dataCount = records[k].device.dataCount
                               /\ record.device.type = records[k].device.type,
         ~IoT!Exists(k) =>
           /\ record.iotData = << >> /\ record.warnings = 0
           /\ k \in Devices => record.device.dataCount = 0
  PROVE  IoTInv'
<1>1. /\ DOMAIN records' = IoT!Entities /\ records'[k] = record
      /\ \A j \in IoT!Entities : j # k => records'[j] = records[j]
  BY DEF IoTInv, RecordsTyped
<1>2. record # Null
  BY IoTConstants
<1>3. \A j \in IoT!Entities : IoT!Exists(j)' <=> (IoT!Exists(j) \/ j = k)
  BY <1>1, <1>2 DEF IoT!Exists
<1>4. ASSUME NEW j \in IoT!Entities, IoT!Exists(j)
      PROVE  /\ records'[j].iotData = records[j].iotData
             /\ records'[j].warnings = records[j].warnings
             /\ j \in Devices => /\ records'[j].device.dataCount = records[j].device.dataCount
                                 /\ records'[j].device.type = records[j].device.type
  BY <1>1, <1>4
<1>5. ASSUME NEW j \in IoT!Entities, IoT!Exists(j)', ~IoT!Exists(j)
      PROVE  /\ records'[j].iotData = << >> /\ records'[j].warnings = 0
             /\ j \in Devices => records'[j].device.dataCount = 0
  BY <1>1, <1>3, <1>5
<1>6. IoT!References' = IoT!References
  <2>1. ASSUME NEW r PROVE r \in IoT!References' <=> r \in IoT!References
    <3>1. r \in IoT!References' <=>
            \E j \in IoT!Entities : IoT!Exists(j)' /\ \E i \in DOMAIN records'[j].iotData : r = <<j, i>>
      BY DEF IoT!References
    <3>2. \A j \in IoT!Entities :
            (IoT!Exists(j)' /\ \E i \in DOMAIN records'[j].iotData : r = <<j, i>>)
              <=> (IoT!Exists(j) /\ \E i \in DOMAIN records[j].iotData : r = <<j, i>>)
      <4> SUFFICES ASSUME NEW j \in IoT!Entities
                   PROVE  (IoT!Exists(j)' /\ \E i \in DOMAIN records'[j].iotData : r = <<j, i>>)
                            <=> (IoT!Exists(j) /\ \E i \in DOMAIN records[j].iotData : r = <<j, i>>)
        OBVIOUS
      <4>1. CASE IoT!Exists(j)
        BY <1>3, <1>4, <4>1
      <4>2. CASE ~IoT!Exists(j)
        <5>1. IoT!Exists(j)' => DOMAIN records'[j].iotData = {}
          BY <1>5, <4>2
        <5> QED
          BY <4>2, <5>1
      <4> QED
        BY <4>1, <4>2
    <3> QED
      BY <3>1, <3>2, ReferenceIsPlace
  <2> QED
    BY <2>1
<1>7. \A d : Elsewhere(d)' = Elsewhere(d)
  <2>1. ASSUME NEW r \in IoT!References PROVE Sender(r)' = Sender(r)
    <3>1. r[1] \in IoT!Entities /\ IoT!Exists(r[1])
      BY ReferenceIsPlace
    <3> QED
      BY <1>4, <3>1 DEF Sender
  <2> QED
    BY <1>6, <2>1 DEF Elsewhere, IoT!Entities
<1>8. RecordsTyped'
  <2>1. ASSUME NEW j \in IoT!Entities, IoT!Exists(j)' PROVE records'[j] \in IoTRecords(j)
    BY <1>1, <1>3, <2>1 DEF IoTInv, RecordsTyped
  <2> QED
    BY <1>1, <2>1 DEF RecordsTyped, IoT!Entities, IoTRecords, IoT!DeviceFields, IoT!DeviceTypes, IoT!Refs,
         IoT!DataIds, IoT!Clocks
<1>9. DataTyped'
  BY DEF IoTInv, DataTyped, IoT!DataIds, IoT!Clocks
<1>10. ReferencesLead'
  <2>1. ASSUME NEW j \in IoT!Entities, IoT!Exists(j)', NEW i \in DOMAIN records'[j].iotData
        PROVE  /\ records'[j].iotData[i].id \in DOMAIN data
               /\ data[records'[j].iotData[i].id].reading.type = records'[j].iotData[i].type
    <3>1. IoT!Exists(j)
      BY <1>5, <2>1
    <3> QED
      BY <1>4, <2>1, <3>1 DEF IoTInv, ReferencesLead
  <2> QED
    BY <1>6, <2>1 DEF IoTInv, ReferencesLead, IoT!Entities
<1>11. CountsAgree'
  <2>1. ASSUME NEW d \in Devices, IoT!Exists(d)'
        PROVE  records'[d].device.dataCount = Cardinality(Elsewhere(d)')
    <3>1. d \in IoT!Entities
      BY DEF IoT!Entities
    <3>2. CASE IoT!Exists(d)
      BY <1>4, <1>7, <3>1, <3>2 DEF IoTInv, CountsAgree
    <3>3. CASE ~IoT!Exists(d)
      <4>1. Elsewhere(d) = {}
        <5>1. ASSUME NEW r \in IoT!References PROVE Sender(r) # d
          <6>1. IoT!Exists(Sender(r))
            BY ReferenceIsPlace DEF IoTInv, ReferencesLead, ReadingsFit, Sender
          <6> QED
            BY <3>3, <6>1
        <5> QED
          BY <5>1 DEF Elsewhere
      <4>2. records'[d].device.dataCount = 0
        BY <1>5, <2>1, <3>1, <3>3
      <4> QED
        BY <1>7, <4>1, <4>2, FS_EmptySet
    <3> QED
      BY <3>2, <3>3
  <2>2. ASSUME NEW j \in IoT!Entities, IoT!Exists(j)'
        PROVE  /\ IsFiniteSet(Alerts(j)') /\ records'[j].warnings = Cardinality(Alerts(j)')
               /\ records'[j].warnings <= Cardinality(IoT!References')
    <3>1. CASE IoT!Exists(j)
      <4>1. Alerts(j)' = Alerts(j)
        BY <1>4, <3>1 DEF Alerts
      <4> QED
        BY <1>4, <1>6, <3>1, <4>1 DEF IoTInv, CountsAgree
    <3>2. CASE ~IoT!Exists(j)
      <4>1. records'[j].iotData = << >> /\ records'[j].warnings = 0
        BY <1>5, <2>2, <3>2
      <4>2. Alerts(j)' = {}
        BY <4>1 DEF Alerts
      <4>3. Cardinality(IoT!References) \in Nat
        BY FS_CardinalityType DEF IoTInv, ReferencesLead
      <4> QED
        BY <1>6, <4>1, <4>2, <4>3, FS_EmptySet
    <3> QED
      BY <3>1, <3>2
  <2> QED
    BY <2>1, <2>2 DEF CountsAgree, IoT!Entities
<1>12. ReadingsFit'
  <2>1. ASSUME NEW i \in DOMAIN data, NEW dev \in Devices, dev = i.device
        PROVE  /\ records'[dev] # Null
               /\ data[i].reading.type = records'[dev].device.type
    <3>1. dev \in IoT!Entities /\ IoT!Exists(dev) /\ data[i].reading.type = records[dev].device.type
      BY <2>1 DEF IoT!Entities, IoTInv, ReadingsFit
    <3> QED
      BY <1>3, <1>4, <3>1 DEF IoT!Exists
  <2>2. \A i \in DOMAIN data : i.device \in Devices
    BY DEF IoTInv, DataTyped, IoT!DataIds
  <2> QED
    BY <2>1, <2>2 DEF ReadingsFit, IoT!Exists
<1> QED
  BY <1>8, <1>9, <1>10, <1>11, <1>12 DEF IoTInv

LEMMA IoTRegister ==
  ASSUME IoTInv, NEW d \in Devices, NEW type \in IoT!DeviceTypes, IoT!RegisterDevice(d, type)
  PROVE  IoTInv'
<1> DEFINE device == [type |-> type, status |-> "ACTIVE", dataCount |-> 0]
<1>1. /\ ~IoT!Exists(d) /\ records' = [records EXCEPT ![d] = IoT!Record(device)]
      /\ data' = data /\ ms' = ms
  BY DEF IoT!RegisterDevice, IoT!Put
<1>2. device \in IoT!DeviceFields /\ device.dataCount = 0
  BY IoTConstants DEF IoT!DeviceFields, IoT!DeviceStatuses
<1> HIDE DEF device
<1>3. /\ IoT!Record(device) \in IoTRecords(d) /\ IoT!Record(device).iotData = << >>
      /\ IoT!Record(device).warnings = 0 /\ IoT!Record(device).device = device
  BY <1>2, IoTConstants DEF IoT!Record, IoTRecords
<1>4. d \in IoT!Entities
  BY DEF IoT!Entities
<1> QED
  BY <1>1, <1>2, <1>3, <1>4, PutKeepsIoT

LEMMA IoTCreate ==
  ASSUME IoTInv, NEW p \in MonitoredProducts, IoT!CreateProduct(p)
  PROVE  IoTInv'
<1>1. /\ ~IoT!Exists(p) /\ records' = [records EXCEPT ![p] = IoT!Record(Null)]
      /\ data' = data /\ ms' = ms
  BY DEF IoT!CreateProduct, IoT!Put
<1>2. p \in IoT!Entities /\ p \notin Devices
  BY IoTConstants DEF IoT!Entities
<1>3. /\ IoT!Record(Null) \in IoTRecords(p) /\ IoT!Record(Null).iotData = << >>
      /\ IoT!Record(Null).warnings = 0
  BY <1>2, IoTConstants DEF IoT!Record, IoTRecords
<1> QED
  BY <1>1, <1>2, <1>3, PutKeepsIoT

LEMMA IoTStatus ==
  ASSUME IoTInv, NEW d \in Devices, NEW status \in IoT!DeviceStatuses,
         IoT!UpdateDeviceStatus(d, status)
  PROVE  IoTInv'
<1> DEFINE record == [records[d] EXCEPT !.device.status = status]
<1>1. /\ IoT!Exists(d) /\ records' = [records EXCEPT ![d] = record] /\ data' = data /\ ms' = ms
  BY DEF IoT!UpdateDeviceStatus, IoT!Put
<1>2. d \in IoT!Entities /\ records[d] \in IoTRecords(d)
  BY <1>1 DEF IoT!Entities, IoTInv, RecordsTyped
<1> DEFINE device == [records[d].device EXCEPT !.status = status]
<1>3. records[d].device \in IoT!DeviceFields
  BY <1>2 DEF IoTRecords
<1>4. /\ device \in IoT!DeviceFields /\ device.dataCount = records[d].device.dataCount
      /\ device.type = records[d].device.type
  BY <1>3 DEF IoT!DeviceFields
<1>5. record = [records[d] EXCEPT !.device = device]
  BY <1>2 DEF IoTRecords
<1> HIDE DEF device, record
<1>6. /\ record \in IoTRecords(d) /\ record.iotData = records[d].iotData
      /\ record.warnings = records[d].warnings /\ record.device = device
  BY <1>2, <1>4, <1>5 DEF IoTRecords
<1> QED
  BY <1>1, <1>2, <1>4, <1>6, PutKeepsIoT

LEMMA IoTCalibration ==
  ASSUME IoTInv, NEW d \in Devices, IoT!RecordCalibration(d)
  PROVE  IoTInv'
<1>1. /\ IoT!Exists(d) /\ records' = [records EXCEPT ![d] = records[d]]
      /\ data' = data /\ ms' = ms
  BY DEF IoT!RecordCalibration, IoT!Put
<1>2. d \in IoT!Entities /\ records[d] \in IoTRecords(d)
  BY <1>1 DEF IoT!Entities, IoTInv, RecordsTyped
<1> QED
  BY <1>1, <1>2, PutKeepsIoT

LEMMA IoTTick ==
  ASSUME IoTInv, records' = records, data' = data, ms' \in IoT!Clocks
  PROVE  IoTInv'
<1>1. /\ \A k : IoT!Exists(k)' = IoT!Exists(k) /\ Alerts(k)' = Alerts(k)
      /\ IoT!References' = IoT!References
  BY DEF IoT!Exists, Alerts, IoT!References
<1>2. \A d : Elsewhere(d)' = Elsewhere(d)
  BY <1>1 DEF Elsewhere, Sender
<1>3. RecordsTyped' /\ ReferencesLead'
  BY <1>1 DEF IoTInv, RecordsTyped, ReferencesLead, IoT!Exists
<1>4. DataTyped'
  BY DEF IoTInv, DataTyped
<1>5. CountsAgree'
  BY <1>1, <1>2 DEF IoTInv, CountsAgree
<1>6. ReadingsFit'
  BY DEF IoTInv, ReadingsFit, IoT!Exists
<1> QED
  BY <1>3, <1>4, <1>5, <1>6 DEF IoTInv

\* A set with one new element counts one more.
LEMMA OneMore ==
  ASSUME NEW S, IsFiniteSet(S), NEW x, x \notin S
  PROVE  /\ IsFiniteSet(S \cup {x}) /\ Cardinality(S \cup {x}) = Cardinality(S) + 1
         /\ Cardinality(S) \in Nat
BY FS_AddElement, FS_CardinalityType

LEMMA IoTSubmit ==
  ASSUME IoTInv, NEW d \in Devices, NEW p \in IoT!Entities, NEW r \in Readings,
         NEW t \in Timestamps, NEW time \in IoT!Clocks,
         Cardinality(IoT!References) < MaxReadings,
         IoT!SubmitDeviceData(d, p, r, t, time)
  PROVE  IoTInv'
<1> DEFINE id == [device |-> d, ms |-> time]
           abnormal == IoT!DetectAbnormalData(r)
           ref == [id |-> id, type |-> r.type, timestamp |-> t, abnormal |-> abnormal]
           datum == [reading |-> r, productId |-> p, timestamp |-> t, abnormal |-> abnormal]
           device == [records[d] EXCEPT !.device.dataCount = @ + 1]
           product == [records[p] EXCEPT !.iotData = Append(@, ref),
                                         !.warnings = IF abnormal THEN @ + 1 ELSE @]
           list == records[p].iotData
<1> PICK end : end = Len(list) + 1
  OBVIOUS
<1>1. /\ IoT!Exists(d) /\ IoT!Exists(p) /\ records[d].device.type = r.type
      /\ data' = [i \in DOMAIN data \cup {id} |-> IF i = id THEN datum ELSE data[i]]
      /\ records' = [records EXCEPT ![d] = device, ![p] = product] /\ ms' = ms
  BY DEF IoT!SubmitDeviceData, IoT!StoreBoth
<1>2. /\ d \in IoT!Entities /\ DOMAIN records = IoT!Entities
      /\ records[d] \in IoTRecords(d) /\ records[p] \in IoTRecords(p)
  BY <1>1 DEF IoT!Entities, IoTInv, RecordsTyped
<1>3. /\ id \in IoT!DataIds /\ id.device = d
  BY DEF IoT!DataIds
<1>4. abnormal \in BOOLEAN
  BY DEF IoT!DetectAbnormalData
<1> HIDE DEF id, abnormal
<1>5. /\ ref \in IoT!Refs /\ ref.id = id /\ ref.type = r.type /\ ref.abnormal = abnormal
  <2>1. r.type \in IoT!DeviceTypes
    BY DEF IoT!DeviceTypes
  <2> QED
    BY <1>3, <1>4, <2>1 DEF IoT!Refs
<1>6. /\ datum \in IoT!DataRecords /\ datum.reading = r /\ datum.abnormal = abnormal
  BY <1>4 DEF IoT!DataRecords
<1>7. /\ DOMAIN data' = DOMAIN data \cup {id} /\ data'[id] = datum
      /\ \A i \in DOMAIN data : i # id => data'[i] = data[i]
  BY <1>1
<1> HIDE DEF ref, datum
<1>8. /\ list \in Seq(IoT!Refs) /\ Len(list) \in Nat /\ DOMAIN list = 1 .. Len(list)
      /\ Append(list, ref) \in Seq(IoT!Refs) /\ DOMAIN Append(list, ref) = DOMAIN list \cup {end}
      /\ Append(list, ref)[end] = ref /\ end \notin DOMAIN list
      /\ \A i \in DOMAIN list : Append(list, ref)[i] = list[i]
  <2>1. list \in Seq(IoT!Refs)
    BY <1>2 DEF IoTRecords
  <2> HIDE DEF list
  <2> QED
    BY <1>5, <2>1
<1> HIDE DEF list
\* There is room for one more reading.
<1>9. /\ IsFiniteSet(IoT!References) /\ Cardinality(IoT!References) \in Nat
      /\ Cardinality(IoT!References) + 1 <= MaxReadings
  <2>1. IsFiniteSet(IoT!References)
    BY DEF IoTInv, ReferencesLead
  <2>2. Cardinality(IoT!References) \in Nat
    BY <2>1, FS_CardinalityType
  <2> QED
    BY <2>1, <2>2, IoTConstants
<1>10. records[d].device \in IoT!DeviceFields
  BY <1>2 DEF IoTRecords
<1>11. /\ records[d].device.dataCount \in Nat
       /\ records[d].device.dataCount <= Cardinality(IoT!References)
  <2>1. Elsewhere(d) \subseteq IoT!References
    BY DEF Elsewhere
  <2>2. IsFiniteSet(Elsewhere(d)) /\ Cardinality(Elsewhere(d)) <= Cardinality(IoT!References)
    BY <1>9, <2>1, FS_Subset
  <2>3. records[d].device.dataCount = Cardinality(Elsewhere(d))
    BY <1>1 DEF IoTInv, CountsAgree
  <2> QED
    BY <2>2, <2>3, FS_CardinalityType
<1>12. /\ records[p].warnings \in Nat /\ records[p].warnings <= Cardinality(IoT!References)
  BY <1>1, <1>2, IoTConstants DEF IoTRecords, IoTInv, CountsAgree
\* What the two records become.
<1> DEFINE fields == [records[d].device EXCEPT !.dataCount = @ + 1]
           longer == [records[p] EXCEPT !.iotData = Append(list, ref)]
<1>13. /\ fields \in IoT!DeviceFields /\ fields.type = records[d].device.type
       /\ fields.dataCount = records[d].device.dataCount + 1
  <2>1. fields.dataCount \in 0 .. MaxReadings
    BY <1>9, <1>10, <1>11, IoTConstants DEF IoT!DeviceFields
  <2> QED
    BY <1>10, <2>1 DEF IoT!DeviceFields
<1>14. device = [records[d] EXCEPT !.device = fields]
  BY <1>2 DEF IoTRecords
<1> HIDE DEF fields
<1>15. /\ device \in IoTRecords(d) /\ device.device = fields
       /\ device.iotData = records[d].iotData /\ device.warnings = records[d].warnings
  BY <1>2, <1>13, <1>14 DEF IoTRecords
<1>16. /\ longer \in IoTRecords(p) /\ longer.iotData = Append(list, ref)
       /\ longer.device = records[p].device /\ longer.warnings = records[p].warnings
  BY <1>2, <1>8 DEF IoTRecords
<1> DEFINE warned == IF abnormal THEN longer.warnings + 1 ELSE longer.warnings
<1>17. product = [longer EXCEPT !.warnings = warned]
  BY <1>2, <1>8 DEF IoTRecords, list
<1>18. warned \in 0 .. MaxReadings /\ warned <= Cardinality(IoT!References) + 1
  BY <1>9, <1>12, <1>16, IoTConstants
<1> HIDE DEF device, product, longer, warned
<1>19. /\ product \in IoTRecords(p) /\ product.iotData = Append(list, ref)
       /\ product.device = records[p].device /\ product.warnings = warned
  BY <1>16, <1>17, <1>18 DEF IoTRecords
<1>20. /\ DOMAIN records' = IoT!Entities /\ records'[p] = product
       /\ d # p => records'[d] = device
       /\ \A k \in IoT!Entities : k # d /\ k # p => records'[k] = records[k]
  BY <1>1, <1>2
<1>21. \A k \in IoT!Entities : IoT!Exists(k)' <=> IoT!Exists(k)
  <2>1. product # Null /\ device # Null
    BY <1>15, <1>19, IoTConstants
  <2> QED
    BY <1>1, <1>20, <2>1 DEF IoT!Exists
<1>22. \A k \in IoT!Entities : k # p =>
         /\ records'[k].iotData = records[k].iotData
         /\ records'[k].warnings = records[k].warnings
  BY <1>15, <1>20
<1>23. records'[p].iotData = Append(list, ref) /\ records'[p].warnings = warned
  BY <1>19, <1>20
<1> DEFINE new == <<p, end>>
<1>24. /\ IoT!References' = IoT!References \cup {new} /\ new \notin IoT!References
  <2>1. ASSUME NEW x PROVE x \in IoT!References' <=> x \in IoT!References \/ x = new
    <3>1. x \in IoT!References' <=>
            \E k \in IoT!Entities : IoT!Exists(k)' /\ \E i \in DOMAIN records'[k].iotData : x = <<k, i>>
      BY DEF IoT!References
    <3>2. ASSUME NEW k \in IoT!Entities, k # p
          PROVE  (IoT!Exists(k)' /\ \E i \in DOMAIN records'[k].iotData : x = <<k, i>>)
                   <=> (IoT!Exists(k) /\ \E i \in DOMAIN records[k].iotData : x = <<k, i>>)
      BY <1>21, <1>22, <3>2
    <3>3. (IoT!Exists(p)' /\ \E i \in DOMAIN records'[p].iotData : x = <<p, i>>)
            <=> \/ IoT!Exists(p) /\ \E i \in DOMAIN records[p].iotData : x = <<p, i>>
                \/ x = new
      BY <1>1, <1>8, <1>21, <1>23 DEF list
    <3> QED
      BY <3>1, <3>2, <3>3, ReferenceIsPlace
  <2>2. new \notin IoT!References
    BY <1>8, ReferenceIsPlace DEF list
  <2> QED
    BY <2>1, <2>2
<1>25. /\ \A x \in IoT!References : Sender(x)' = Sender(x)
       /\ Sender(new)' = d
  <2>1. ASSUME NEW x \in IoT!References PROVE Sender(x)' = Sender(x)
    <3>1. PICK k \in IoT!Entities : \E i \in DOMAIN records[k].iotData : x = <<k, i>>
      BY ReferenceIsPlace
    <3> PICK i \in DOMAIN records[k].iotData : x = <<k, i>>
      BY <3>1
    <3>2. records'[k].iotData[i] = records[k].iotData[i]
      BY <1>8, <1>22, <1>23 DEF list
    <3> QED
      BY <3>2 DEF Sender
  <2>2. records'[p].iotData[end] = ref
    BY <1>8, <1>23
  <2> QED
    BY <1>3, <1>5, <2>1, <2>2 DEF Sender
<1>26. /\ IsFiniteSet(IoT!References')
       /\ Cardinality(IoT!References') = Cardinality(IoT!References) + 1
  BY <1>9, <1>24, OneMore
<1>27. RecordsTyped'
  <2>1. ASSUME NEW k \in IoT!Entities, IoT!Exists(k)' PROVE records'[k] \in IoTRecords(k)
    BY <1>15, <1>19, <1>20, <1>21, <2>1 DEF IoTInv, RecordsTyped
  <2> QED
    BY <1>20, <2>1 DEF RecordsTyped, IoT!Entities, IoTRecords, IoT!DeviceFields, IoT!DeviceTypes,
         IoT!Refs, IoT!DataIds, IoT!Clocks
<1>28. DataTyped'
  <2>1. DOMAIN data' \subseteq IoT!DataIds
    BY <1>3, <1>7 DEF IoTInv, DataTyped
  <2>2. ASSUME NEW i \in DOMAIN data'
        PROVE  /\ data'[i] \in IoT!DataRecords
               /\ data'[i].abnormal = IoT!DetectAbnormalData(data'[i].reading)
    BY <1>6, <1>7 DEF IoTInv, DataTyped, abnormal
  <2> QED
    BY <1>1, <2>1, <2>2 DEF IoTInv, DataTyped, IoT!DataIds, IoT!Clocks, IoT!DataRecords, IoT!Entities
\* The type of a device does not change.
<1>29. ASSUME NEW k \in Devices, IoT!Exists(k)
       PROVE  records'[k] # Null /\ records'[k].device.type = records[k].device.type
  <2>1. k \in IoT!Entities
    BY DEF IoT!Entities
  <2>2. records'[k] # Null
    BY <1>21, <1>29, <2>1 DEF IoT!Exists
  <2>3. records'[k].device.type = records[k].device.type
    BY <1>13, <1>15, <1>19, <1>20, <2>1
  <2> QED
    BY <2>2, <2>3
<1>30. ASSUME NEW i \in DOMAIN data'
       PROVE  /\ records'[i.device] # Null
              /\ data'[i].reading.type = records'[i.device].device.type
  <2>1. CASE i = id
    BY <1>1, <1>3, <1>6, <1>7, <1>29, <2>1
  <2>2. CASE i # id
    <3>1. i \in DOMAIN data /\ data'[i] = data[i] /\ i.device \in Devices
      BY <1>7, <2>2 DEF IoTInv, DataTyped, IoT!DataIds
    <3>2. IoT!Exists(i.device) /\ data[i].reading.type = records[i.device].device.type
      BY <3>1 DEF IoTInv, ReadingsFit
    <3> QED
      BY <1>29, <3>1, <3>2
  <2> QED
    BY <2>1, <2>2
<1>31. ReadingsFit'
  BY <1>30 DEF ReadingsFit, IoT!Exists
\* The references are those there were and the new one; a reading that was replaced is
\* of the same device, hence of the same type.
<1>32. ASSUME NEW k \in IoT!Entities, IoT!Exists(k), NEW i \in DOMAIN records[k].iotData
       PROVE  /\ records[k].iotData[i].id \in DOMAIN data'
              /\ data'[records[k].iotData[i].id].reading.type = records[k].iotData[i].type
  <2> PICK j : j = records[k].iotData[i].id
    OBVIOUS
  <2>1. j \in DOMAIN data /\ data[j].reading.type = records[k].iotData[i].type
    BY <1>32 DEF IoTInv, ReferencesLead
  <2>2. j.device \in Devices
    BY <2>1 DEF IoTInv, DataTyped, IoT!DataIds
  <2>3. data[j].reading.type = records[j.device].device.type /\ IoT!Exists(j.device)
    BY <2>1 DEF IoTInv, ReadingsFit
  <2>4. j \in DOMAIN data' /\ data'[j].reading.type = records'[j.device].device.type
    BY <1>7, <1>30, <2>1
  <2> QED
    BY <1>29, <2>1, <2>2, <2>3, <2>4
<1>33. ASSUME NEW k \in IoT!Entities, IoT!Exists(k)', NEW i \in DOMAIN records'[k].iotData
       PROVE  /\ records'[k].iotData[i].id \in DOMAIN data'
              /\ data'[records'[k].iotData[i].id].reading.type = records'[k].iotData[i].type
  <2>1. IoT!Exists(k)
    BY <1>21, <1>33
  <2>2. CASE k # p
    BY <1>22, <1>32, <1>33, <2>1, <2>2
  <2>3. CASE k = p /\ i = end
    BY <1>5, <1>6, <1>7, <1>8, <1>23, <2>3
  <2>4. CASE k = p /\ i # end
    <3>1. i \in DOMAIN records[p].iotData /\ records'[p].iotData[i] = records[p].iotData[i]
      BY <1>8, <1>23, <1>33, <2>4 DEF list
    <3> QED
      BY <1>32, <2>1, <2>4, <3>1
  <2> QED
    BY <2>2, <2>3, <2>4
<1>34. ReferencesLead'
  BY <1>9, <1>26, <1>33 DEF ReferencesLead, IoT!Entities
<1>35. ASSUME NEW k \in Devices, IoT!Exists(k)
       PROVE  records'[k].device.dataCount = Cardinality(Elsewhere(k)')
  <2>1. k \in IoT!Entities
    BY DEF IoT!Entities
  <2>2. IsFiniteSet(Elsewhere(k)) /\ records[k].device.dataCount = Cardinality(Elsewhere(k))
    BY <1>9, <1>35, FS_Subset DEF IoTInv, CountsAgree, Elsewhere
  <2>3. new \notin Elsewhere(k)
    BY <1>24 DEF Elsewhere
  <2>4. Elsewhere(k)' = {x \in IoT!References' : x[1] \in IoT!Entities \ {k} /\ Sender(x)' \in {k}}
    BY DEF Elsewhere, IoT!Entities
  <2>5. CASE k = d /\ p # d
    <3>1. Elsewhere(k)' = Elsewhere(k) \cup {new}
      BY <1>24, <1>25, <2>4, <2>5 DEF Elsewhere
    <3>2. records'[k].device.dataCount = records[k].device.dataCount + 1
      BY <1>13, <1>15, <1>20, <2>5
    <3> QED
      BY <2>2, <2>3, <3>1, <3>2, OneMore
  <2>6. CASE ~(k = d /\ p # d)
    <3>1. Elsewhere(k)' = Elsewhere(k)
      BY <1>24, <1>25, <2>4, <2>6 DEF Elsewhere
    <3>2. records'[k].device.dataCount = records[k].device.dataCount
      BY <1>19, <1>20, <2>1, <2>6
    <3> QED
      BY <2>2, <3>1, <3>2
  <2> QED
    BY <2>5, <2>6
<1>36. ASSUME NEW k \in IoT!Entities, IoT!Exists(k)
       PROVE  /\ IsFiniteSet(Alerts(k)') /\ records'[k].warnings = Cardinality(Alerts(k)')
              /\ records'[k].warnings <= Cardinality(IoT!References')
  <2>1. /\ IsFiniteSet(Alerts(k)) /\ records[k].warnings = Cardinality(Alerts(k))
        /\ records[k].warnings <= Cardinality(IoT!References)
        /\ records[k].warnings \in Nat
    BY <1>36, FS_CardinalityType DEF IoTInv, CountsAgree
  <2>2. CASE k # p
    <3>1. Alerts(k)' = Alerts(k) /\ records'[k].warnings = records[k].warnings
      BY <1>22, <2>2 DEF Alerts
    <3> QED
      BY <1>9, <1>26, <2>1, <3>1
  <2>3. CASE k = p
    <3>1. Alerts(p)' = IF abnormal THEN Alerts(p) \cup {end} ELSE Alerts(p)
      BY <1>5, <1>8, <1>23 DEF Alerts, list
    <3>2. end \notin Alerts(p)
      BY <1>8 DEF Alerts, list
    <3>3. warned = IF abnormal THEN records[p].warnings + 1 ELSE records[p].warnings
      BY <1>16 DEF warned
    <3> QED
      BY <1>9, <1>18, <1>23, <1>26, <2>1, <2>3, <3>1, <3>2, <3>3, OneMore
  <2> QED
    BY <2>2, <2>3
<1>37. CountsAgree'
  <2>1. \A k \in Devices : k \in IoT!Entities
    BY DEF IoT!Entities
  <2> QED
    BY <1>21, <1>35, <1>36, <2>1 DEF CountsAgree, IoT!Entities
<1> QED
  BY <1>27, <1>28, <1>31, <1>34, <1>37 DEF IoTInv

LEMMA AllSubmitted ==
  ASSUME IoTInv
  PROVE  IoT!Submitted(Devices, IoT!Entities) = Cardinality(IoT!References)
<1>1. ASSUME NEW r \in IoT!References PROVE r[1] \in IoT!Entities /\ Sender(r) \in Devices
  <2> PICK k \in IoT!Entities : IoT!Exists(k) /\ \E i \in DOMAIN records[k].iotData : r = <<k, i>>
    BY ReferenceIsPlace
  <2> PICK i \in DOMAIN records[k].iotData : r = <<k, i>>
    OBVIOUS
  <2>1. records[k].iotData[i].id \in IoT!DataIds
    BY DEF IoTInv, ReferencesLead, DataTyped
  <2> QED
    BY <2>1 DEF IoT!DataIds, Sender
<1>2. {r \in IoT!References : r[1] \in IoT!Entities /\ records[r[1]].iotData[r[2]].id.device \in Devices}
        = IoT!References
  BY <1>1 DEF Sender
<1> QED
  BY <1>2, IoTCountsAlike DEF IoT!Submitted

LEMMA NextIoT == IoTInv /\ [IoT!Next]_iotVars => IoTInv'
<1> SUFFICES ASSUME IoTInv, [IoT!Next]_iotVars PROVE IoTInv'
  OBVIOUS
<1>1. ASSUME NEW d \in Devices, NEW type \in IoT!DeviceTypes, IoT!RegisterDevice(d, type)
      PROVE  IoTInv'
  BY <1>1, IoTRegister
<1>2. ASSUME NEW d \in Devices, IoT!Submit(d)
      PROVE  IoTInv'
  <2>1. Cardinality(IoT!References) < MaxReadings
    BY <1>2, AllSubmitted DEF IoT!Submit
  <2>2. PICK p \in IoT!Entities, r \in Readings, t \in Timestamps, time \in IoT!Clocks :
          IoT!SubmitDeviceData(d, p, r, t, time)
    BY <1>2 DEF IoT!Submit
  <2> QED
    BY <2>1, <2>2, IoTSubmit
<1>3. ASSUME NEW d \in Devices, NEW status \in IoT!DeviceStatuses,
             IoT!UpdateDeviceStatus(d, status)
      PROVE  IoTInv'
  BY <1>3, IoTStatus
<1>4. ASSUME NEW d \in Devices, IoT!RecordCalibration(d)
      PROVE  IoTInv'
  BY <1>4, IoTCalibration
<1>5. ASSUME NEW p \in MonitoredProducts, IoT!CreateProduct(p)
      PROVE  IoTInv'
  BY <1>5, IoTCreate
<1>6. CASE IoT!Tick
  <2>1. records' = records /\ data' = data /\ ms' \in IoT!Clocks
    BY <1>6, IoTConstants DEF IoT!Tick, IoT!Clocks, IoTInv, DataTyped
  <2> QED
    BY <2>1, IoTTick
<1>7. CASE UNCHANGED iotVars
  <2>1. records' = records /\ data' = data /\ ms' \in IoT!Clocks
    BY <1>7 DEF iotVars, IoTInv, DataTyped
  <2> QED
    BY <2>1, IoTTick
<1> QED
  BY <1>1, <1>2, <1>3, <1>4, <1>5, <1>6, <1>7 DEF IoT!Next

LEMMA AnalysisAgrees == IoTInv => IoT!AnalysisAgreesWithAlerts
<1> SUFFICES ASSUME IoTInv, NEW p \in MonitoredProducts, IoT!Exists(p)
             PROVE  /\ \A i \in IoT!Exceedances(p) :
                         \/ IoT!Stored(p, i).abnormal
                         \/ IoT!Stored(p, i).reading.chemical \in {"water", "energy"}
                    /\ \A i \in IoT!OptimalConditions(p) : ~IoT!Stored(p, i).abnormal
  BY DEF IoT!AnalysisAgreesWithAlerts
\* A stored reading that is counted under its type.
<1>1. ASSUME NEW type, NEW i \in IoT!OfType(p, type)
      PROVE  LET r == IoT!Stored(p, i).reading
             IN  /\ r.type = type /\ r.level \in Int
                 /\ IoT!Stored(p, i).abnormal = IoT!DetectAbnormalData(r)
  <2>1. records[p].iotData[i].id \in DOMAIN data /\ IoT!Stored(p, i).reading.type = type
    BY DEF IoT!OfType, IoT!QueryProductIoTData
  <2>2. /\ IoT!Stored(p, i) \in IoT!DataRecords
        /\ IoT!Stored(p, i).abnormal = IoT!DetectAbnormalData(IoT!Stored(p, i).reading)
    BY <2>1 DEF IoTInv, DataTyped, IoT!Stored
  <2>3. IoT!Stored(p, i).reading \in Readings
    BY <2>2 DEF IoT!DataRecords
  <2> QED
    BY <2>1, <2>2, <2>3, IoTConstants
<1>2. ASSUME NEW i \in IoT!Exceedances(p)
      PROVE  \/ IoT!Stored(p, i).abnormal
             \/ IoT!Stored(p, i).reading.chemical \in {"water", "energy"}
  <2> DEFINE r == IoT!Stored(p, i).reading
  <2>1. i \in IoT!OfType(p, "chemical_sensor") /\ r.level > IoT!SafetyThreshold("chemical")
    BY DEF IoT!Exceedances
  <2>2. /\ r.type = "chemical_sensor" /\ r.level \in Int
        /\ IoT!Stored(p, i).abnormal = IoT!DetectAbnormalData(r)
    BY <1>1, <2>1
  <2> HIDE DEF r
  <2>3. r.level > 50
    BY <2>1 DEF IoT!SafetyThreshold
  <2>4. CASE r.chemical \in {"water", "energy"}
    BY <2>4 DEF r
  <2>5. CASE r.chemical \notin {"water", "energy"}
    <3>1. IoT!SafetyThreshold(r.chemical) \in {10, 20, 50}
      BY <2>5 DEF IoT!SafetyThreshold
    <3>2. IoT!DetectAbnormalData(r)
      BY <2>2, <2>3, <3>1 DEF IoT!DetectAbnormalData
    <3> QED
      BY <2>2, <3>2
  <2> QED
    BY <2>4, <2>5
<1>3. ASSUME NEW i \in IoT!OptimalConditions(p)
      PROVE  ~IoT!Stored(p, i).abnormal
  <2> DEFINE r == IoT!Stored(p, i).reading
  <2>1. i \in IoT!OfType(p, "humidity_sensor") /\ r.level \in 40 .. 60
    BY DEF IoT!OptimalConditions
  <2>2. /\ r.type = "humidity_sensor" /\ r.level \in Int
        /\ IoT!Stored(p, i).abnormal = IoT!DetectAbnormalData(r)
    BY <1>1, <2>1
  <2> HIDE DEF r
  <2>3. ~IoT!DetectAbnormalData(r)
    BY <2>1, <2>2 DEF IoT!DetectAbnormalData
  <2> QED
    BY <2>2, <2>3
<1> QED
  BY <1>2, <1>3

LEMMA ReadingsAgree == IoTInv => IoT!ReadingsAccounted
<1> SUFFICES ASSUME IoTInv PROVE IoT!ReadingsAccounted
  OBVIOUS
<1>1. ASSUME NEW d \in Devices, IoT!Exists(d)
      PROVE  records[d].device.dataCount = IoT!Submitted({d}, IoT!Entities \ {d})
  <2>1. Elsewhere(d) = {r \in IoT!References : r[1] \in IoT!Entities \ {d} /\
                          records[r[1]].iotData[r[2]].id.device \in {d}}
    BY DEF Elsewhere, Sender
  <2> QED
    BY <1>1, <2>1, IoTCountsAlike DEF IoTInv, CountsAgree, IoT!Submitted
<1>2. ASSUME NEW k \in IoT!Entities, IoT!Exists(k)
      PROVE  records[k].warnings = IoT!Cardinality(Alerts(k))
  BY <1>2, IoTCountsAlike DEF IoTInv, CountsAgree
<1>3. ASSUME NEW k \in IoT!Entities, IoT!Exists(k), NEW i \in DOMAIN records[k].iotData
      PROVE  LET ref == records[k].iotData[i]
             IN  ref.id \in DOMAIN data /\ data[ref.id].reading.type = ref.type
  BY <1>3 DEF IoTInv, ReferencesLead
<1> QED
  BY <1>1, <1>2, <1>3 DEF IoT!ReadingsAccounted, Alerts

LEMMA IoTTyped == IoTInv => IoT!TypeOK
<1> SUFFICES ASSUME IoTInv,  NEW k \in IoT!Entities, IoT!Exists(k)
             PROVE  /\ records[k].device \in IF k \in Devices THEN IoT!DeviceFields ELSE {Null}
                    /\ records[k].iotData \in Seq(IoT!Refs) /\ records[k].warnings \in 0 .. MaxReadings
  BY DEF IoTInv, DataTyped, IoT!TypeOK
<1>1. records[k] \in IoTRecords(k)
  BY DEF IoTInv, RecordsTyped
<1> QED
  BY <1>1 DEF IoTRecords

-----------------------------------------------------------------------------
(* The ledger behind the router.                                           *)

\* The chaincode behind the router, with what is proved of it.
Chain == INSTANCE SupplyChainProofs WITH
  Warehouses <- {Warehouse}, MaxKg <- 1, Certs <- {Cert}, EthTxs <- {}, NftIds <- {},
  MintTerms <- {MintTerm}

LEMMA SameLedger ==
  /\ Gateway!SC!TypeOK <=> Chain!TypeOK
  /\ Gateway!SC!Init <=> Chain!Init
  /\ Gateway!chain = Chain!vars
  /\ Gateway!SC!ChaincodeAssumption <=> Chain!ChaincodeAssumption
BY DEF Gateway!chain, Gateway!SC!TypeOK, Gateway!SC!Records, Gateway!SC!Batches, Gateway!SC!Requests,
   Gateway!SC!Products, Gateway!SC!Statuses, Gateway!SC!Holders, Gateway!SC!Events, Gateway!SC!Init,
   Gateway!SC!ChaincodeAssumption,
       Chain!TypeOK, Chain!Records, Chain!Batches,
       Chain!Requests, Chain!Products, Chain!Statuses, Chain!Holders, Chain!Events,
       Chain!Init, Chain!vars, Chain!ChaincodeAssumption

LEMMA SameTransactions ==
  ASSUME NEW k \in Keys, NEW b \in Keys
  PROVE  /\ Gateway!SC!RegisterProduct(k, Farm) => Chain!RegisterProduct(k, Farm)
         /\ Gateway!SC!TransferCustody(k, Warehouse) => Chain!TransferCustody(k, Warehouse)
         /\ Gateway!SC!UpdateStatus(k, "REGISTERED", Null) => Chain!UpdateStatus(k, "REGISTERED", Null)
         /\ Gateway!SC!AddCertification(k) => Chain!AddCertification(k)
         /\ Gateway!SC!RegisterCottonBatch(k, 1) => Chain!RegisterCottonBatch(k, 1)
         /\ Gateway!SC!StoreCottonBatch(k, Warehouse) => Chain!StoreCottonBatch(k, Warehouse)
         /\ Gateway!SC!VerifyCottonBatch(k, Cert) => Chain!VerifyCottonBatch(k, Cert)
         /\ Gateway!SC!RequestTokenization(k, b, 1, Warehouse) => Chain!RequestTokenization(k, b, 1, Warehouse)
         /\ Gateway!SC!ApproveTokenizationRequest(k) => Chain!ApproveTokenizationRequest(k)
         /\ Gateway!SC!CreateFinishedProduct(k, {b}) => Chain!CreateFinishedProduct(k, {b})
         /\ Gateway!SC!RequestNFTMinting(k, MintTerm) => Chain!RequestNFTMinting(k, MintTerm)
<1>1. Gateway!SC!RegisterProduct(k, Farm) => Chain!RegisterProduct(k, Farm)
  BY DEF Gateway!SC!RegisterProduct, Gateway!SC!Vacant, Gateway!SC!Exists,
     Gateway!SC!Put, Chain!RegisterProduct, Chain!Vacant, Chain!Exists, Chain!Put
<1>2. Gateway!SC!TransferCustody(k, Warehouse) => Chain!TransferCustody(k, Warehouse)
  BY DEF Gateway!SC!TransferCustody, Gateway!SC!IsProduct, Gateway!SC!Has,
     Gateway!SC!Exists, Gateway!SC!Put, Chain!TransferCustody, Chain!IsProduct,
     Chain!Has, Chain!Exists, Chain!Put
<1>3. Gateway!SC!UpdateStatus(k, "REGISTERED", Null) => Chain!UpdateStatus(k, "REGISTERED", Null)
  BY DEF Gateway!SC!UpdateStatus, Gateway!SC!Updatable, Gateway!SC!IsProduct,
     Gateway!SC!Has, Gateway!SC!Exists, Gateway!SC!Put, Chain!UpdateStatus,
     Chain!Updatable, Chain!IsProduct, Chain!Has, Chain!Exists, Chain!Put
<1>4. Gateway!SC!AddCertification(k) => Chain!AddCertification(k)
  BY DEF Gateway!SC!AddCertification, Gateway!SC!IsProduct, Gateway!SC!Has,
     Gateway!SC!Exists, Gateway!SC!Put, Chain!AddCertification, Chain!IsProduct,
     Chain!Has, Chain!Exists, Chain!Put
<1>5. Gateway!SC!RegisterCottonBatch(k, 1) => Chain!RegisterCottonBatch(k, 1)
  BY DEF Gateway!SC!RegisterCottonBatch, Gateway!SC!Vacant, Gateway!SC!Exists,
     Gateway!SC!Put, Chain!RegisterCottonBatch, Chain!Vacant, Chain!Exists, Chain!Put
<1>6. Gateway!SC!StoreCottonBatch(k, Warehouse) => Chain!StoreCottonBatch(k, Warehouse)
  BY DEF Gateway!SC!StoreCottonBatch, Gateway!SC!IsBatch, Gateway!SC!Has,
     Gateway!SC!Exists, Gateway!SC!Put, Chain!StoreCottonBatch, Chain!IsBatch,
     Chain!Has, Chain!Exists, Chain!Put
<1>7. Gateway!SC!VerifyCottonBatch(k, Cert) => Chain!VerifyCottonBatch(k, Cert)
  BY DEF Gateway!SC!VerifyCottonBatch, Gateway!SC!Verifiable, Gateway!SC!IsBatch,
     Gateway!SC!Has, Gateway!SC!Exists, Gateway!SC!Put, Gateway!SC!Emit,
     Chain!VerifyCottonBatch, Chain!Verifiable, Chain!IsBatch, Chain!Has, Chain!Exists,
     Chain!Put, Chain!Emit
<1>8. Gateway!SC!RequestTokenization(k, b, 1, Warehouse) => Chain!RequestTokenization(k, b, 1, Warehouse)
  BY DEF Gateway!SC!RequestTokenization, Gateway!SC!OpenForRequest, Gateway!SC!IsBatch,
     Gateway!SC!Has, Gateway!SC!Vacant, Gateway!SC!Exists, Chain!RequestTokenization,
     Chain!OpenForRequest, Chain!IsBatch, Chain!Has, Chain!Vacant, Chain!Exists
<1>9. Gateway!SC!ApproveTokenizationRequest(k) => Chain!ApproveTokenizationRequest(k)
  BY DEF Gateway!SC!ApproveTokenizationRequest, Gateway!SC!Approvable,
     Gateway!SC!IsRequest, Gateway!SC!Has, Gateway!SC!Exists, Gateway!SC!Put,
     Gateway!SC!Emit, Chain!ApproveTokenizationRequest, Chain!Approvable,
     Chain!IsRequest, Chain!Has, Chain!Exists, Chain!Put, Chain!Emit
<1>10. Gateway!SC!CreateFinishedProduct(k, {b}) => Chain!CreateFinishedProduct(k, {b})
  BY DEF Gateway!SC!CreateFinishedProduct, Gateway!SC!Vacant, Gateway!SC!Exists,
     Gateway!SC!Put, Chain!CreateFinishedProduct, Chain!Vacant, Chain!Exists, Chain!Put
<1>11. Gateway!SC!RequestNFTMinting(k, MintTerm) => Chain!RequestNFTMinting(k, MintTerm)
  BY DEF Gateway!SC!RequestNFTMinting, Gateway!SC!IsProduct, Gateway!SC!Has,
     Gateway!SC!Exists, Gateway!SC!Put, Gateway!SC!Emit, Chain!RequestNFTMinting,
     Chain!IsProduct, Chain!Has, Chain!Exists, Chain!Put, Chain!Emit
<1> QED
  BY <1>1, <1>2, <1>3, <1>4, <1>5, <1>6, <1>7, <1>8, <1>9, <1>10, <1>11

LEMMA ApplyIsStep ==
  ASSUME NEW c, CallOK(c), Gateway!Apply(c)
  PROVE  Chain!Next
<1>1. c.name \notin Gateway!Queries
  BY DEF Gateway!Apply, Gateway!Queries
<1>2. c.key \in Keys
  BY <1>1 DEF CallOK
<1>3. CASE c.name = "registerProduct" /\ Gateway!SC!RegisterProduct(c.key, Farm)
  <2>1. Chain!RegisterProduct(c.key, Farm)
    BY <1>2, <1>3, SameTransactions
  <2> QED
    BY <1>2, <2>1 DEF Chain!Next, Chain!MemberNext, Chain!Holders
<1>4. CASE c.name = "transferCustody" /\ Gateway!SC!TransferCustody(c.key, Warehouse)
  <2>1. Chain!TransferCustody(c.key, Warehouse)
    BY <1>2, <1>4, SameTransactions
  <2> QED
    BY <1>2, <2>1 DEF Chain!Next, Chain!MemberNext, Chain!Holders
<1>5. CASE c.name = "updateStatus" /\ Gateway!SC!UpdateStatus(c.key, "REGISTERED", Null)
  <2>1. Chain!UpdateStatus(c.key, "REGISTERED", Null)
    BY <1>2, <1>5, SameTransactions
  <2> QED
    BY <1>2, <2>1 DEF Chain!Next, Chain!MemberNext, Chain!Statuses
<1>6. CASE c.name = "addCertification" /\ Gateway!SC!AddCertification(c.key)
  <2>1. Chain!AddCertification(c.key)
    BY <1>2, <1>6, SameTransactions
  <2> QED
    BY <1>2, <2>1 DEF Chain!Next, Chain!MemberNext
<1>7. CASE c.name = "registerCottonBatch" /\ Gateway!SC!RegisterCottonBatch(c.key, 1)
  <2>1. Chain!RegisterCottonBatch(c.key, 1)
    BY <1>2, <1>7, SameTransactions
  <2> QED
    BY <1>2, <2>1 DEF Chain!Next, Chain!MemberNext
<1>8. CASE c.name = "storeCottonBatch" /\ Gateway!SC!StoreCottonBatch(c.key, Warehouse)
  <2>1. Chain!StoreCottonBatch(c.key, Warehouse)
    BY <1>2, <1>8, SameTransactions
  <2> QED
    BY <1>2, <2>1 DEF Chain!Next, Chain!MemberNext
<1>9. CASE c.name = "verifyCottonBatch" /\ Gateway!SC!VerifyCottonBatch(c.key, Cert)
  <2>1. Chain!VerifyCottonBatch(c.key, Cert)
    BY <1>2, <1>9, SameTransactions
  <2> QED
    BY <1>2, <2>1 DEF Chain!Next, Chain!MemberNext
<1>10. CASE c.name = "requestTokenization" /\ Gateway!SC!RequestTokenization(c.key, c.batch, 1, Warehouse)
  <2>1. c.batch \in Keys
    BY <1>10 DEF CallOK
  <2>2. Chain!RequestTokenization(c.key, c.batch, 1, Warehouse)
    BY <1>2, <1>10, <2>1, SameTransactions
  <2> QED
    BY <1>2, <2>1, <2>2 DEF Chain!Next, Chain!MemberNext
<1>11. CASE c.name = "approveTokenizationRequest" /\ Gateway!SC!ApproveTokenizationRequest(c.key)
  <2>1. Chain!ApproveTokenizationRequest(c.key)
    BY <1>2, <1>11, SameTransactions
  <2> QED
    BY <1>2, <2>1 DEF Chain!Next, Chain!MemberNext
<1>12. CASE c.name = "createFinishedProduct" /\ Gateway!SC!CreateFinishedProduct(c.key, {c.batch})
  <2>1. c.batch \in Keys
    BY <1>12 DEF CallOK
  <2>2. Chain!CreateFinishedProduct(c.key, {c.batch})
    BY <1>2, <1>12, <2>1, SameTransactions
  <2> QED
    BY <1>2, <2>1, <2>2 DEF Chain!Next, Chain!MemberNext
<1>13. CASE c.name = "requestNFTMinting" /\ Gateway!SC!RequestNFTMinting(c.key, MintTerm)
  <2>1. Chain!RequestNFTMinting(c.key, MintTerm)
    BY <1>2, <1>13, SameTransactions
  <2> QED
    BY <1>2, <2>1 DEF Chain!Next, Chain!MemberNext
<1> QED
  BY <1>3, <1>4, <1>5, <1>6, <1>7, <1>8, <1>9, <1>10, <1>11, <1>12, <1>13 DEF Gateway!Apply

\* Every step of the router is one of the chaincode, or leaves its ledger alone.
LEMMA RouterSteps ==
  ASSUME GatewayInv, [Gateway!Next]_gatewayVars
  PROVE  [Chain!Next]_(Chain!vars)
<1>1. ASSUME NEW r \in RestRequests, Gateway!Commit(r)
      PROVE  [Chain!Next]_(Chain!vars)
  <2>1. RequestOK(request[r]) /\ request[r].fate = "ordered" /\ request[r].step # "idle"
    BY <1>1 DEF GatewayInv, Gateway!Commit, Gateway!At
  <2>2. CallOK(request[r].call)
    BY <2>1 DEF RequestOK, Gateway!Idle
  <2>3. Gateway!Apply(request[r].call) \/ UNCHANGED Gateway!chain
    BY <1>1 DEF Gateway!Commit
  <2> QED
    BY <2>2, <2>3, ApplyIsStep, SameLedger DEF Gateway!chain, Chain!vars
<1>2. CASE Gateway!Others
  <2>1. PICK name \in Gateway!Names \ Gateway!Queries, k \in Keys, b \in Keys :
          Gateway!Apply([name |-> name, key |-> k, batch |-> b])
    BY <1>2 DEF Gateway!Others
  <2>2. CallOK([name |-> name, key |-> k, batch |-> b])
    BY DEF CallOK, Gateway!Calls
  <2> QED
    BY <2>1, <2>2, ApplyIsStep
<1>3. ASSUME NEW r \in RestRequests, NEW route, Gateway!Begin(r, route)
      PROVE  UNCHANGED <<ledger, events>>
  BY <1>3 DEF Gateway!Begin, Gateway!chain
<1>4. ASSUME NEW r \in RestRequests, Gateway!Evaluate(r) \/ Gateway!Endorse(r) \/ Gateway!Await(r)
      PROVE  UNCHANGED <<ledger, events>>
  BY <1>4 DEF Gateway!Evaluate, Gateway!Endorse, Gateway!Await, Gateway!chain
<1>5. ASSUME NEW r \in RestRequests, Gateway!ListBatches(r) \/ Gateway!ListProducts(r)
      PROVE  UNCHANGED <<ledger, events>>
  BY <1>3, <1>5 DEF Gateway!ListBatches, Gateway!ListProducts
<1>6. ASSUME NEW r \in RestRequests, NEW k \in Keys,
             \/ Gateway!FrontEnd(r, k) \/ Gateway!GetBatch(r, k) \/ Gateway!CreateBatch(r, k)
             \/ Gateway!StoreBatch(r, k) \/ Gateway!VerifyBatch(r, k)
             \/ Gateway!FinishedProduct(r, k) \/ Gateway!Tokenize(r, k)
             \/ Gateway!Approve(r, k)
      PROVE  UNCHANGED <<ledger, events>>
  BY <1>3, <1>6, RoutesBegin
<1>7. CASE UNCHANGED gatewayVars
  BY <1>7 DEF gatewayVars, Chain!vars
<1>8. CASE Gateway!Next
  BY <1>1, <1>2, <1>4, <1>5, <1>6, <1>8 DEF Gateway!Next, Chain!vars
<1> QED
  BY <1>7, <1>8

LEMMA InitLedger == Gateway!Init => Chain!CottonInv
BY ServicesAssumption, SameLedger, Chain!InitCottonInv DEF Gateway!Init

LEMMA NextLedger ==
  GatewayInv /\ Chain!CottonInv /\ [Gateway!Next]_gatewayVars => Chain!CottonInv'
BY ServicesAssumption, RouterSteps, SameLedger, Chain!NextCottonInv

\* Type correctness of every service, with the chaincode behind the router.
LEMMA LedgerTyped == Chain!CottonInv => Gateway!SC!TypeOK
BY SameLedger DEF Chain!CottonInv

-----------------------------------------------------------------------------
(* The services together                                                   *)

LEMMA OneStepsTheOthersStay ==
  ASSUME [ServicesNext]_servicesVars
  PROVE  /\ [Next]_vars
         /\ [Queue!Next]_queueVars
         /\ [Notifications!Next]_notificationsVars
         /\ [Analytics!Next]_analyticsVars
         /\ [Responses!Next]_responsesVars
         /\ [Gateway!Next]_gatewayVars
         /\ [Readers!Next]_readersVars
         /\ [IoT!Next]_iotVars
         /\ [Tick \/ Move]_marketVars
<1>1. CASE UNCHANGED servicesVars
  BY <1>1 DEF servicesVars
<1>2. CASE AccountsStep
  BY <1>2 DEF AccountsStep, Frame
<1>3. CASE QueueStep
  BY <1>3 DEF QueueStep, Frame
<1>4. CASE NotificationsStep
  BY <1>4 DEF NotificationsStep, Frame
<1>5. CASE AnalyticsStep
  BY <1>5 DEF AnalyticsStep, Frame
<1>6. CASE ResponsesStep
  BY <1>6 DEF ResponsesStep, Frame
<1>7. CASE GatewayStep
  BY <1>7 DEF GatewayStep, Frame
<1>8. CASE ReadersStep
  BY <1>8 DEF ReadersStep, Frame
<1>9. CASE IoTStep
  BY <1>9 DEF IoTStep, Frame
<1>10. CASE PolicyStep
  BY <1>10 DEF PolicyStep, Frame
<1> QED
  BY <1>1, <1>2, <1>3, <1>4, <1>5, <1>6, <1>7, <1>8, <1>9, <1>10 DEF ServicesNext

ServicesInv ==
  /\ SessionsInv /\ LockInv /\ QueueInv /\ NotificationsInv /\ AnalyticsInv /\ ResponsesInv
  /\ GatewayInv /\ Chain!CottonInv /\ ReadersInv /\ IoTInv

LEMMA ServicesInvariant == ServicesSpec => []ServicesInv
<1>1. ServicesInit => ServicesInv
  <2> SUFFICES ASSUME ServicesInit PROVE ServicesInv
    OBVIOUS
  <2>1. SessionsInv /\ LockInv
    BY ServicesAssumption, InitSessions, InitLock DEF ServicesInit
  <2>2. QueueInv /\ NotificationsInv /\ AnalyticsInv /\ ResponsesInv
    BY InitQueue, InitNotifications, InitAnalytics, InitResponses DEF ServicesInit
  <2>3. GatewayInv /\ Chain!CottonInv /\ ReadersInv /\ IoTInv
    BY GatewayInit, InitLedger, InitReaders, InitIoT DEF ServicesInit
  <2> QED
    BY <2>1, <2>2, <2>3 DEF ServicesInv
<1>2. ServicesInv /\ [ServicesNext]_servicesVars => ServicesInv'
  <2> SUFFICES ASSUME ServicesInv, [ServicesNext]_servicesVars PROVE ServicesInv'
    OBVIOUS
  <2> USE OneStepsTheOthersStay DEF ServicesInv
  <2>1. SessionsInv' /\ LockInv'
    BY ServicesAssumption, NextSessions, NextLock
  <2>2. QueueInv' /\ NotificationsInv'
    BY NextQueue, NextNotifications
  <2>3. AnalyticsInv' /\ ResponsesInv'
    BY NextAnalytics, NextResponses
  <2>4. GatewayInv' /\ Chain!CottonInv'
    BY NextGateway, NextLedger
  <2>5. ReadersInv' /\ IoTInv'
    BY NextReaders, NextIoT
  <2> QED
    BY <2>1, <2>2, <2>3, <2>4, <2>5
<1> QED
  BY <1>1, <1>2, PTL DEF ServicesSpec

\* Type correctness of every service.
THEOREM ServicesTypeCorrect == ServicesSpec => []ServicesTypeOK
<1>1. ServicesInv => ServicesTypeOK
  <2> SUFFICES ASSUME ServicesInv PROVE ServicesTypeOK
    OBVIOUS
  <2> USE DEF ServicesInv
  <2>1. TypeOK /\ Queue!TypeOK /\ Notifications!TypeOK
    BY DEF SessionsInv, QueueInv, NotificationsInv
  <2>2. Analytics!TypeOK /\ Responses!TypeOK /\ Readers!TypeOK
    BY DEF AnalyticsInv, ResponsesInv, ReadersInv
  <2>3. Gateway!TypeOK /\ IoT!TypeOK
    BY LedgerTyped, GatewayTyped, IoTTyped
  <2> QED
    BY <2>1, <2>2, <2>3 DEF ServicesTypeOK
<1> QED
  BY <1>1, ServicesInvariant, PTL

\* A session that was handed out is on the stored list until it is voided
\* (authController.js), whatever requests overlap on the document.
THEOREM SessionsAreKept == ServicesSpec => []SessionsKept
<1>1. ServicesInv => SessionsKept
  BY DEF ServicesInv, SessionsInv
<1> QED
  BY <1>1, ServicesInvariant, PTL

\* Fewer failed logins than the limit never lock the account, and that many do
\* unless a right password came in between or two logins overlapped (User.js).
THEOREM LockFollowsFailures == ServicesSpec => []LockCountsFailures
<1>1. ServicesInv => LockCountsFailures
  BY DEF ServicesInv, LockInv, LockCountsFailures
<1> QED
  BY <1>1, ServicesInvariant, PTL

\* A message the broker took is at the broker, handled, or dead-lettered after four
\* tries because it never could be handled (queueService.js, notificationWorker.js).
THEOREM MessagesStayAccounted == ServicesSpec => []MessagesAccounted
<1>1. ServicesInv => MessagesAccounted
  BY DEF ServicesInv, QueueInv, MessagesAccounted
<1> QED
  BY <1>1, ServicesInvariant, PTL

\* History and broadcasts give a client that never narrowed its channels every
\* notification, in order and once, for as long as it is open, whatever the others
\* subscribe to; excepted are the clients that were ever connected behind one that
\* stored no array, at which broadcast stops (notification-service.js).
THEOREM NoNotificationIsMissed == ServicesSpec => []ClientsMissNothing
<1>1. ServicesInv => ClientsMissNothing
  BY NothingMissed DEF ServicesInv
<1> QED
  BY <1>1, ServicesInvariant, PTL

\* Batch metrics served from the cache are younger than the cache time and one read
\* (analyticsService.js), and a cached response than its time to live and the
\* slowest store (cache.js).
THEOREM CachesStayFresh == ServicesSpec => []CachesFresh
<1>1. ServicesInv => CachesFresh
  BY BatchIsFresh DEF ServicesInv, ResponsesInv, CachesFresh
<1> QED
  BY <1>1, ServicesInvariant, PTL

\* What the REST router answers to a write is what became of its transaction, also
\* of one that is decided after the handler gave up (api-gateway.js).
THEOREM AnswersStayTruthful == ServicesSpec => []AnswersTruthful
<1>1. ServicesInv => AnswersTruthful
  BY AnswersAreTruthful DEF ServicesInv, AnswersTruthful
<1> QED
  BY <1>1, ServicesInvariant, PTL

\* A request of the REST router that was answered has closed its gateway, and pages
\* and mobile requests leave a bounded number open (api-gateway.js, web-app.js,
\* mobile-api.js).
THEOREM GatewaysStayClosed == ServicesSpec => []GatewaysClosed
<1>1. ServicesInv => GatewaysClosed
  BY ReadersBounded DEF ServicesInv, GatewayInv, GatewaysClosed
<1> QED
  BY <1>1, ServicesInvariant, PTL

\* Devices, products and stored readings agree, and the analysis of the readings
\* with the alerts they raised (iotIntegration.js).
THEOREM ReadingsStayAccounted == ServicesSpec => []ReadingsAccounted
<1>1. ServicesInv => ReadingsAccounted
  BY ReadingsAgree, AnalysisAgrees DEF ServicesInv, ReadingsAccounted
<1> QED
  BY <1>1, ServicesInvariant, PTL
=============================================================================
