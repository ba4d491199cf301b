---------------------------- MODULE AgentExecution ----------------------------
(***************************************************************************)
(* Runs of the treasury agent in execute mode, on one account: observe,    *)
(* decide and simulate; then observe again, validate, sign and broadcast,  *)
(* and wait for the receipt.  Runs may overlap and may be killed at any    *)
(* point; the market moves between any two steps.  Proposals are not       *)
(* trusted, so any well-formed one is made.                                *)
(***************************************************************************)
EXTENDS TradePolicy, Sequences, FiniteSets

CONSTANTS
  Runs,
  Nothing

VARIABLES
  runs,           \* per run: its phase, proposal, last observation (seen, at),
                  \* the nonce it signs with, and when it began to wait
  txs,            \* transactions of the account
  accountNonce,   \* the nonce of the next one to be included
  audit           \* the records that have been flushed to the audit file

agentVars == <<marketVars, runs, txs, accountNonce, audit>>

NewRun == [phase |-> "new", action |-> Nothing, seen |-> Nothing, at |-> 0, nonce |-> 0,
           since |-> 0]

Set(r, run) == runs' = [runs EXCEPT ![r] = run]

WriteAudit(record) == audit' = audit \cup {record}

Record(r, status) == [run |-> r, status |-> status, order |-> Nothing, price |-> 0]

\* The run is over; its entry is written whatever the outcome.
End(r, outcome) ==
  /\ Set(r, [NewRun EXCEPT !.phase = outcome])
  /\ WriteAudit(Record(r, outcome))

\* EthereumReader.aggregate: everything is read in one block.
Observation(r) == [runs[r] EXCEPT !.seen = book, !.at = now]

-----------------------------------------------------------------------------
(* Decision                                                                *)

\* A state that breaks its schema ends the run before anything is recorded.
Observe(r) ==
  /\ runs[r].phase = "new"
  /\ Set(r, IF ValidState(book) THEN [Observation(r) EXCEPT !.phase = "observed"]
                                ELSE [NewRun EXCEPT !.phase = "failed"])
  /\ UNCHANGED <<marketVars, txs, accountNonce, audit>>

\* decide(), and the authorization record before any send operation.
Decide(r, a) ==
  /\ runs[r].phase = "observed"
  /\ IF /\ Approved(a, runs[r].seen, runs[r].at)
        /\ Simulates(a, runs[r].seen, runs[r].at, now)
       THEN /\ Set(r, [NewRun EXCEPT !.phase = "authorized", !.action = a])
            /\ WriteAudit(Record(r, "authorized"))
       ELSE End(r, "rejected")
  /\ UNCHANGED <<marketVars, txs, accountNonce>>

-----------------------------------------------------------------------------
(* Execution                                                               *)

\* Fresh state immediately before building and signing.
Refresh(r) ==
  /\ runs[r].phase = "authorized"
  /\ IF ValidState(book)
       THEN Set(r, [Observation(r) EXCEPT !.phase = "refreshed"]) /\ UNCHANGED audit
       ELSE End(r, "rejected")
  /\ UNCHANGED <<marketVars, txs, accountNonce>>

Pending == {t \in DOMAIN txs : txs[t].status = "pending"}

\* get_transaction_count(pending)
PendingNonce == accountNonce + Cardinality(Pending)

Order(r) == Build(runs[r].action, runs[r].seen, runs[r].at)

Signed(r) == Set(r, [runs[r] EXCEPT !.phase = "validated", !.nonce = PendingNonce])

\* Variant: the record of the validated transaction is written with the entry.
SignUnrecorded(r) == Signed(r) /\ UNCHANGED audit

\* The transaction is recorded before it is signed.
RecordAndSign(r) ==
  /\ Signed(r)
  /\ WriteAudit([run |-> r, status |-> "validated", order |-> Order(r),
              price |-> runs[r].seen.answer])

\* Fresh policy and simulation; a HOLD needs no transaction.
Validate(r) ==
  /\ runs[r].phase = "refreshed"
  /\ IF Simulates(runs[r].action, runs[r].seen, runs[r].at, now)
       THEN IF runs[r].action.action = "HOLD" THEN End(r, "done") ELSE RecordAndSign(r)
       ELSE End(r, "rejected")
  /\ UNCHANGED <<marketVars, txs, accountNonce>>

\* The node refuses a nonce that another run has used in the meantime.
Send(r) ==
  /\ runs[r].phase = "validated"
  /\ IF runs[r].nonce = PendingNonce
       THEN /\ txs' = Append(txs, [run |-> r, nonce |-> runs[r].nonce,
                                   order |-> Order(r), status |-> "pending"])
            /\ Set(r, [runs[r] EXCEPT !.phase = "sent"])
            /\ UNCHANGED audit
       ELSE End(r, "rejected") /\ UNCHANGED txs
  /\ UNCHANGED <<marketVars, accountNonce>>

RecordBroadcast(r) ==
  /\ runs[r].phase = "sent"
  /\ Set(r, [runs[r] EXCEPT !.phase = "waiting", !.since = now])
  /\ WriteAudit(Record(r, "broadcast"))
  /\ UNCHANGED <<marketVars, txs, accountNonce>>

StatusOf(r, status) == \E t \in DOMAIN txs : txs[t].run = r /\ txs[t].status = status

\* The account has changed since the fresh observation by the simulated effects.
EffectsMatch(r) ==
  /\ ValidState(book)
  /\ book.cot - runs[r].seen.cot = DeltaCot(runs[r].action)
  /\ book.usd - runs[r].seen.usd = DeltaUsd(runs[r].action, runs[r].seen)

\* The receipt has come: EXECUTION_REVERTED, EXECUTION_EFFECT_MISMATCH, or success.
Confirm(r) ==
  /\ runs[r].phase = "waiting"
  /\ \/ StatusOf(r, "mined") /\ EffectsMatch(r) /\ End(r, "done")
     \/ StatusOf(r, "mined") /\ ~EffectsMatch(r) /\ End(r, "rejected")
     \/ StatusOf(r, "reverted") /\ End(r, "rejected")
  /\ UNCHANGED <<marketVars, txs, accountNonce>>

\* wait_for_transaction_receipt gives up, the transaction stays where it is.
TimeOut(r) ==
  /\ runs[r].phase = "waiting"
  /\ now - runs[r].since >= Wait
  /\ StatusOf(r, "pending")
  /\ End(r, "timedOut")
  /\ UNCHANGED <<marketVars, txs, accountNonce>>

Ended == {"failed", "rejected", "timedOut", "done"}

Running(r) == runs[r].phase \notin Ended \cup {"new"}

\* An exception of a call to the node or to Fabric; a transaction that was sent
\* stays in the pool all the same.
Raise(r) ==
  /\ Running(r)
  /\ End(r, "rejected")
  /\ UNCHANGED <<marketVars, txs, accountNonce>>

Kill(r) ==
  /\ Running(r)
  /\ Set(r, [NewRun EXCEPT !.phase = "failed"])
  /\ UNCHANGED <<marketVars, txs, accountNonce, audit>>

\* In nonce order; the contract decides on the book and the time of the block.
Include(t) ==
  /\ t \in Pending
  /\ txs[t].nonce = accountNonce
  /\ accountNonce' = accountNonce + 1
  /\ \/ /\ Accepts(book, txs[t].order, now)
        /\ book' = Traded(book, txs[t].order)
        /\ txs' = [txs EXCEPT ![t].status = "mined"]
     \/ /\ ~Accepts(book, txs[t].order, now)
        /\ txs' = [txs EXCEPT ![t].status = "reverted"]
        /\ UNCHANGED book
  /\ UNCHANGED <<now, moves, runs, audit>>

AgentInit ==
  /\ MarketInit
  /\ runs = [r \in Runs |-> NewRun]
  /\ txs = <<>> /\ accountNonce = 0 /\ audit = {}

AgentNext ==
  \/ (Tick \/ Move) /\ UNCHANGED <<runs, txs, accountNonce, audit>>
  \/ \E t \in DOMAIN txs : Include(t)
  \/ \E r \in Runs :
       \/ Observe(r) \/ (\E a \in Actions : Decide(r, a))
       \/ Refresh(r) \/ Validate(r) \/ Send(r) \/ RecordBroadcast(r)
       \/ Confirm(r) \/ TimeOut(r) \/ Raise(r) \/ Kill(r)

AgentSpec == AgentInit /\ [][AgentNext]_agentVars

-----------------------------------------------------------------------------
(* Properties                                                              *)

\* The transactions that trade in a step.
Settling == {t \in Pending : txs'[t].status = "mined"}

\* "No guarded execution accepts missing, stale or future oracle data", and size
\* and exposure remain inside the limits: at inclusion, whatever moved since the
\* observation, and however many runs were approved side by side.
TradesWithinPolicy ==
  [][Settling # {} =>
       LET paid == Absolute(book'.usd - book.usd) * PriceUnit
       IN  /\ book.answer > 0 /\ now - book.updatedAt \in 0 .. MaxOracleAge
           /\ paid * Bps <= Nav(book) * MaxSingleTradeBps
           /\ book'.cot * book.answer * Bps <= Nav(book') * MaxExposureBps
           /\ book'.cot >= 0 /\ book'.usd >= 0]_agentVars

\* A trade that settles is the one that the audit file shows as validated, even
\* if its run was killed right after it was sent, for the price that was
\* validated up to the slippage and the rounding.  A run that gave up waiting has
\* reported its trade as rejected while the transaction is in the pool: that one
\* can still settle in one second only, the last one of its deadline.
TradesAsValidated ==
  [][\A t \in Settling :
       /\ runs[txs[t].run].phase = "timedOut" => now = txs[t].order.deadline
       /\ \E record \in audit :
         LET o == txs[t].order
             paid == Absolute(book'.usd - book.usd)
         IN  /\ record.run = txs[t].run /\ record.order = o
             /\ IF o.buy
                  THEN (paid - 1) * PriceUnit * Bps
                         < o.amount * record.price * (Bps + MaxSlippageBps)
                  ELSE (paid + 1) * PriceUnit * Bps
                         > o.amount * record.price * (Bps - MaxSlippageBps)]_agentVars
=============================================================================
