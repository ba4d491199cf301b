---------------------------- MODULE LedgerGateway ----------------------------
(***************************************************************************)
(* The REST router (api-gateway.js) in front of the chaincode: a request   *)
(* connects, evaluates a query or submits a transaction, waits for it,     *)
(* answers, and closes its gateway.  Composed with SupplyChain: a          *)
(* transaction is endorsed on the state of that moment, ordered, and       *)
(* committed if the records it read are unchanged (Fabric, external).  The *)
(* handler gives up waiting after a deadline; the transaction does not.    *)
(* "Variant" definitions are no part of the specification.                 *)
(***************************************************************************)
EXTENDS Integers, Sequences, FiniteSets

CONSTANTS
  Requests,   \* requests that may be in progress together
  Admins,     \* those with an admin's token; the others have a reader's
  Keys, Farm, Warehouse, Cert, MintTerm, Null,
  MaxEvents   \* bound: chaincode events

VARIABLES
  ledger, events,   \* of the chaincode
  request,          \* the requests, with the fate of their transactions
  open              \* requests whose gateway is open

chain == <<ledger, events>>
vars == <<ledger, events, request, open>>

SC == INSTANCE SupplyChain WITH
  Warehouses <- {Warehouse}, MaxKg <- 1, Certs <- {Cert}, EthTxs <- {}, NftIds <- {},
  MintTerms <- {MintTerm}

\* "list" stands for queryAllBatches, queryAllProducts and queryProductsByType.
Queries == {"list", "queryProduct", "verify"}
\* Routes made by productOperation, which has no sendLedgerError.
Operations == {"registerProduct", "transferCustody", "updateStatus", "addCertification"}
Names == Queries \cup Operations \cup
  {"registerCottonBatch", "storeCottonBatch", "verifyCottonBatch", "requestTokenization",
   "approveTokenizationRequest", "createFinishedProduct", "requestNFTMinting"}

\* A call of the chaincode; `batch` is the second key it reads, if any.
Calls == [name : Names, key : Keys \cup {Null}, batch : Keys \cup {Null}]
Call(name, key) == [name |-> name, key |-> key, batch |-> Null]

Answers == {"none", "success", "clientError", "unavailable"}
Idle == [step |-> "idle"]
At(r, step) == request[r].step = step

\* Answered, and no longer to be committed.
Free(r) == At(r, "idle") \/ (At(r, "done") /\ request[r].fate # "ordered")

Fates == {"query", "none", "ordered", "committed", "invalid"}

\* Room for the events of all writes in progress, so that the bound refuses none.
Room == Len(events) + Cardinality(Admins) <= MaxEvents

\* The answer when the ledger cannot be reached; `verify` answers 404 whatever fails.
Failure(call) == IF call.name = "verify" THEN "clientError" ELSE "unavailable"

\* connectToFabric succeeds, or there is no gateway to close.
Begin(r, call) ==
  /\ Free(r) /\ Room
  /\ LET query == call.name \in Queries
         fate == IF query THEN "query" ELSE "none"
     IN  \/ /\ request' = [request EXCEPT ![r] =
                 [step |-> IF query THEN "evaluate" ELSE "endorse", call |-> call,
                  read |-> <<>>, answer |-> "none", fate |-> fate]]
            /\ open' = open \cup {r}
         \/ /\ request' = [request EXCEPT ![r] =
                 [step |-> "done", answer |-> Failure(call), fate |-> fate]]
            /\ UNCHANGED open
  /\ UNCHANGED chain

\* requireRole('admin')
BeginWrite(r, call) == r \in Admins /\ Begin(r, call)

(* The routes. *)
ListBatches(r) == Begin(r, Call("list", Null))
ListProducts(r) == Begin(r, Call("list", Null))
GetBatch(r, k) == Begin(r, Call("queryProduct", k))
GetProduct(r, k) == Begin(r, Call("queryProduct", k))
Verify(r, k) == Begin(r, Call("verify", k))
CreateBatch(r, k) == BeginWrite(r, Call("registerCottonBatch", k))
StoreBatch(r, k) == BeginWrite(r, Call("storeCottonBatch", k))
VerifyBatch(r, k) == BeginWrite(r, Call("verifyCottonBatch", k))
ProductOperation(r, k) ==
  Begin(r, Call("list", Null)) \/ \E name \in Operations : BeginWrite(r, Call(name, k))
FinishedProduct(r, k) ==
  \E b \in Keys : BeginWrite(r, [Call("createFinishedProduct", k) EXCEPT !.batch = b])
\* A new request id for every call, so that a retry is another request.
Tokenize(r, k) ==
  /\ ledger[k] = Null
  /\ \E b \in Keys : BeginWrite(r, [Call("requestTokenization", k) EXCEPT !.batch = b])
Approve(r, k) == BeginWrite(r, Call("approveTokenizationRequest", k))
MintNFT(r, k) == BeginWrite(r, Call("requestNFTMinting", k))

\* What the front end calls: the requests of a signed-in browser.
FrontEnd(r, k) == GetProduct(r, k) \/ Verify(r, k) \/ ProductOperation(r, k) \/ MintNFT(r, k)

\* The transaction of a call, enabled where the chaincode does not throw.
Apply(call) ==
  LET k == call.key
  IN  \/ call.name = "registerProduct" /\ SC!RegisterProduct(k, Farm)
      \/ call.name = "transferCustody" /\ SC!TransferCustody(k, Warehouse)
      \/ call.name = "updateStatus" /\ SC!UpdateStatus(k, "REGISTERED", Null)
      \/ call.name = "addCertification" /\ SC!AddCertification(k)
      \/ call.name = "registerCottonBatch" /\ SC!RegisterCottonBatch(k, 1)
      \/ call.name = "storeCottonBatch" /\ SC!StoreCottonBatch(k, Warehouse)
      \/ call.name = "verifyCottonBatch" /\ SC!VerifyCottonBatch(k, Cert)
      \/ call.name = "requestTokenization"
           /\ SC!RequestTokenization(k, call.batch, 1, Warehouse)
      \/ call.name = "approveTokenizationRequest" /\ SC!ApproveTokenizationRequest(k)
      \/ call.name = "createFinishedProduct" /\ SC!CreateFinishedProduct(k, {call.batch})
      \/ call.name = "requestNFTMinting" /\ SC!RequestNFTMinting(k, MintTerm)

Read(call) == [k \in {call.key, call.batch} \ {Null} |-> ledger[k]]

\* The refusals whose code sendLedgerError lists; it takes every other one for
\* an unavailable ledger, as productOperation does with all of its own.
Listed(call) ==
  \/ call.name \in {"registerCottonBatch", "queryProduct", "verify"}
  \/ call.name = "requestTokenization" /\ SC!IsBatch(call.batch)
       /\ ledger[call.batch].status = "STORED"
  \/ call.name = "approveTokenizationRequest" /\ SC!Exists(call.key)
Refusal(call) == IF Listed(call) THEN "clientError" ELSE "unavailable"

\* What is left of an answered request: its call only while it may be committed.
Done(q, answer) ==
  IF q.fate = "ordered" THEN [q EXCEPT !.step = "done", !.answer = answer]
  ELSE [step |-> "done", answer |-> answer, fate |-> q.fate]

\* Answers and, in `finally`, closes the gateway.
\* Variant: the gateway is closed on success only.
AnswerKeepingOpen(r, answer) ==
  /\ request' = [request EXCEPT ![r] = Done(@, answer)]
  /\ open' = IF answer = "success" THEN open \ {r} ELSE open
Answer(r, answer) ==
  /\ request' = [request EXCEPT ![r] = Done(@, answer)]
  /\ open' = open \ {r}

Evaluate(r) ==
  /\ At(r, "evaluate")
  /\ LET call == request[r].call
         needed == call.name \in {"queryProduct", "verify"}
     IN  \/ Answer(r, IF needed /\ ~SC!Exists(call.key) THEN "clientError" ELSE "success")
         \/ Answer(r, Failure(call))
  /\ UNCHANGED chain

Endorse(r) ==
  /\ At(r, "endorse")
  /\ LET call == request[r].call
     IN  \/ /\ ENABLED Apply(call)
            /\ request' = [request EXCEPT ![r].step = "commit", ![r].fate = "ordered",
                                          ![r].read = Read(call)]
            /\ UNCHANGED open
         \/ ~ENABLED Apply(call) /\ Answer(r, Refusal(call))
         \/ Answer(r, "unavailable")
  /\ UNCHANGED chain

Decide(r, fate) ==
  request' = [request EXCEPT ![r] =
    IF At(r, "done") THEN Done([@ EXCEPT !.fate = fate], @.answer)
                     ELSE [@ EXCEPT !.fate = fate]]

\* Fabric decides on an ordered transaction, perhaps after its handler gave up.
Commit(r) ==
  /\ ~At(r, "idle") /\ request[r].fate = "ordered"
  /\ \/ /\ request[r].read = Read(request[r].call)
        /\ Apply(request[r].call) /\ Decide(r, "committed")
     \/ Decide(r, "invalid") /\ UNCHANGED chain
  /\ UNCHANGED open

\* submitTransaction returns when the transaction is committed, and throws when
\* it is not, or not in time.
\* Variant: it returns when the transaction is ordered.
Submitted(r) == request[r].fate \in {"ordered", "committed"}
Succeeded(r) == request[r].fate = "committed"
Await(r) ==
  /\ At(r, "commit")
  /\ \/ Succeeded(r) /\ Answer(r, "success")
     \/ ~Succeeded(r) /\ Answer(r, "unavailable")
  /\ UNCHANGED chain

\* Transactions of the other clients of the chaincode.
Others ==
  /\ Room
  /\ \E name \in Names \ Queries, k \in Keys, b \in Keys :
       Apply([name |-> name, key |-> k, batch |-> b])
  /\ Room' /\ UNCHANGED <<request, open>>

Init ==
  /\ SC!Init
  /\ request = [r \in Requests |-> Idle] /\ open = {}

Next ==
  \/ \E r \in Requests :
       \/ ListBatches(r) \/ ListProducts(r)
       \/ \E k \in Keys :
            \/ FrontEnd(r, k) \/ GetBatch(r, k) \/ CreateBatch(r, k) \/ StoreBatch(r, k)
            \/ VerifyBatch(r, k) \/ FinishedProduct(r, k) \/ Tokenize(r, k) \/ Approve(r, k)
       \/ Evaluate(r) \/ Endorse(r) \/ Commit(r) \/ Await(r)
  \/ Others

Spec == Init /\ [][Next]_vars

-----------------------------------------------------------------------------
\* Type invariant.
TypeOK ==
  /\ SC!TypeOK /\ open \subseteq Requests
  /\ \A r \in Requests : At(r, "idle") \/
       /\ request[r].step \in {"evaluate", "endorse", "commit", "done"}
       /\ request[r].answer \in Answers /\ request[r].fate \in Fates
       /\ At(r, "done") \/ request[r].call \in Calls

\* A write answered with success is on the ledger, and one answered with a
\* client error is not and never will be, whatever overlaps, conflicts or comes
\* late: only "unavailable" leaves the outcome open.
AnswersTruthful ==
  \A r \in Requests :
    At(r, "done") /\ request[r].fate # "query" =>
      /\ request[r].answer = "success" => request[r].fate = "committed"
      /\ request[r].answer = "clientError" => request[r].fate = "none"

\* Every request that is not in progress has closed its gateway, whichever of
\* connecting, querying, endorsing or committing failed.
GatewaysReleased ==
  \A r \in open : request[r].step \in {"evaluate", "endorse", "commit"}
=============================================================================
