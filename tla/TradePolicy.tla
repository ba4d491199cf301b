----------------------------- MODULE TradePolicy -----------------------------
(***************************************************************************)
(* What the agent decides with: its deterministic policy and the one       *)
(* transaction that carries a decision out.  A state is a book and the     *)
(* time it was observed at.  Confidence and supply risk depend on nothing  *)
(* that moves and are one flag of the proposal; the reserve ratio is at    *)
(* least one wherever the reserves of both ledgers agree (GlobalBacking).  *)
(* policies.yaml and the contract hold the same limits.                    *)
(***************************************************************************)
EXTENDS DemoCotMarket

CONSTANTS
  MaxSlippageBps,
  Wait,      \* 60 s: deadline of the transaction, timeout of its receipt
  Amounts    \* that may be proposed

ASSUME PolicyAssumption ==
  MaxSlippageBps \in Nat /\ Wait \in Nat /\ Amounts \subseteq Nat \ {0}

Actions == [action : {"BUY_COT", "SELL_COT"}, amount : Amounts, confident : BOOLEAN]
             \cup [action : {"HOLD"}, amount : {0}, confident : BOOLEAN]

\* The schema of a state: price and update time are positive.
ValidState(s) == s.answer > 0 /\ s.updatedAt > 0

DeltaCot(a) ==
  IF a.action = "BUY_COT" THEN a.amount
  ELSE IF a.action = "SELL_COT" THEN -a.amount ELSE 0

\* Cost and fee in USD, quantized with ROUND_FLOOR.
DeltaUsd(a, s) ==
  (-DeltaCot(a) * s.answer * Bps - a.amount * s.answer * FeeBps) \div (Bps * PriceUnit)

Absolute(n) == IF n < 0 THEN -n ELSE n

\* The portfolio checks of the policy on the state after the trade.
WithinPortfolio(a, s) ==
  LET post == [s EXCEPT !.cot = @ + DeltaCot(a), !.usd = @ + DeltaUsd(a, s)]
      paid == Absolute(DeltaUsd(a, s)) * PriceUnit
  IN  /\ post.cot >= 0 /\ post.usd >= 0
      /\ Nav(post) > 0 /\ post.cot * s.answer * Bps <= Nav(post) * MaxExposureBps
      /\ Nav(s) > 0 /\ paid * Bps <= Nav(s) * MaxSingleTradeBps
      /\ Absolute(paid - a.amount * s.answer) * Bps
           <= MaxSlippageBps * a.amount * s.answer

\* PolicyEngine.evaluate
Approved(a, s, time) ==
  /\ time - s.updatedAt \in 0 .. MaxOracleAge
  /\ s.mirrored
  /\ a.action # "HOLD" =>
       /\ a.confident
       /\ Liquid(s)
       /\ WithinPortfolio(a, s)

\* maxUsd is rounded up, minUsd down.
Bound(a, s) ==
  LET nominal == a.amount * s.answer
  IN  IF a.action = "BUY_COT"
        THEN -((-nominal * (Bps + MaxSlippageBps)) \div (Bps * PriceUnit))
        ELSE (nominal * (Bps - MaxSlippageBps)) \div (Bps * PriceUnit)

Deadline(observed) == observed + Wait

\* TransactionBuilder.build
Build(a, s, observed) ==
  [buy |-> a.action = "BUY_COT", amount |-> a.amount, bound |-> Bound(a, s),
   deadline |-> Deadline(observed)]

\* EthCallSimulator.simulate: the policy once more, the call in the block of the
\* state, and the market's quote compared with the predicted effect.
Simulates(a, s, observed, time) ==
  /\ Approved(a, s, time)
  /\ a.action # "HOLD" =>
       /\ Accepts(s, Build(a, s, observed), observed)
       /\ Quote(s, a.amount, a.action = "BUY_COT") = Absolute(DeltaUsd(a, s))

\* The policy is as strict as the contract, and reckons as it does: what it
\* approves of a state, the contract accepts in that state for the cost that was
\* predicted, unless a balance or an allowance nobody checks before is too small.
ApprovedIsAccepted ==
  ValidState(book) =>
    \A a \in {a \in Actions : a.action # "HOLD"} :
      LET order == Build(a, book, now)
      IN  Approved(a, book, now) /\ Transferable(book, order)
            => Simulates(a, book, now, now)
=============================================================================
