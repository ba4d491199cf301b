------------------------ MODULE AgentExecutionProofs ------------------------
(***************************************************************************)
(* Proofs about the treasury agent (AgentExecution), its policy and the    *)
(* market, for any number of runs, any integers and any limits.  What a    *)
(* run knows, what the audit file shows and what became of its transaction *)
(* make the inductive invariant.  That the policy approves nothing that    *)
(* the contract rejects is a fact about integers, which also holds of the  *)
(* market among the services.                                              *)
(***************************************************************************)
EXTENDS AgentExecution, Services, FiniteSetTheorems, SequenceTheorems, TLAPS

-----------------------------------------------------------------------------
(* Integers: division rounds down, and the product of what is ordered is.  *)

\* The quotient is the largest number of divisors that fit.
LEMMA Quotient ==
  ASSUME NEW n \in Int, NEW d \in Nat \ {0}
  PROVE  n \div d \in Int /\ d * (n \div d) <= n /\ n < d * (n \div d) + d
  OBVIOUS

\* Only one number is.
LEMMA QuotientUnique ==
  ASSUME NEW n \in Int, NEW d \in Nat \ {0}, NEW q \in Int, d * q <= n, n < d * q + d
  PROVE  n \div d = q
<1> DEFINE p == n \div d
<1>1. p \in Int /\ d * p <= n /\ n < d * p + d
  BY Quotient
<1> HIDE DEF p
<1>2. ~(p < q)
  <2> SUFFICES ASSUME p < q PROVE FALSE
    OBVIOUS
  <2>1. d * p + d <= d * q
    BY <1>1, p + 1 <= q
  <2> QED
    BY <1>1, <2>1
<1>3. ~(q < p)
  <2> SUFFICES ASSUME q < p PROVE FALSE
    OBVIOUS
  <2>1. d * q + d <= d * p
    BY <1>1, q + 1 <= p
  <2> QED
    BY <1>1, <2>1
<1> QED
  BY <1>1, <1>2, <1>3 DEF p

\* Rounding up is rounding down on the other side of zero.
LEMMA RoundedUp ==
  ASSUME NEW n \in Int, NEW d \in Nat \ {0}
  PROVE  (n + d - 1) \div d = -((-n) \div d)
<1> DEFINE q == (-n) \div d
<1>1. q \in Int /\ d * q <= -n /\ -n < d * q + d
  BY Quotient, -n \in Int
<1> HIDE DEF q
<1>2. d * (-q) = -(d * q)
  BY <1>1
<1>3. d * (-q) <= n + d - 1 /\ n + d - 1 < d * (-q) + d
  BY <1>1, <1>2, d * q \in Int
<1>4. n + d - 1 \in Int /\ -q \in Int
  BY <1>1
<1> QED
  BY <1>3, <1>4, QuotientUnique DEF q

\* A nonnegative number has a nonnegative quotient.
LEMMA QuotientNat ==
  ASSUME NEW n \in Nat, NEW d \in Nat \ {0}
  PROVE  n \div d \in Nat
  OBVIOUS

\* Multiplying by a positive number keeps and reflects the order.
LEMMA Ordered ==
  ASSUME NEW a \in Int, NEW b \in Int, NEW d \in Nat \ {0}
  PROVE  (a <= b) <=> (d * a <= d * b)
<1>1. a <= b => d * a <= d * b
  OBVIOUS
<1>2. b + 1 <= a => d * b + d <= d * a
  OBVIOUS
<1> QED
  BY <1>1, <1>2
-----------------------------------------------------------------------------
(* The market: a trade that is accepted leaves a book.                     *)

\* What a trade at a positive price costs is no less than nothing.
LEMMA QuoteNat ==
  ASSUME NEW s \in Book, s.answer > 0, NEW amount \in Nat, NEW isBuy \in BOOLEAN
  PROVE  Quote(s, amount, isBuy) \in Nat
<1> DEFINE rate == IF isBuy THEN Bps + FeeBps ELSE Bps - FeeBps
           n == amount * s.answer * rate
           d == Bps * PriceUnit
<1>1. rate \in Nat /\ d \in Nat \ {0}
  BY MarketAssumption
<1>2. amount * s.answer \in Nat
  BY DEF Book
<1>3. n \in Nat
  BY <1>1, <1>2
<1>4. n + d - 1 \in Nat
  BY <1>1, <1>3
<1>5. n \div d \in Nat /\ (n + d - 1) \div d \in Nat
  <2> HIDE DEF n, d
  <2> QED
    BY <1>1, <1>3, <1>4, QuotientNat
<1> QED
  BY <1>5 DEF Quote

Orders == [buy : BOOLEAN, amount : Nat \ {0}, bound : Int, deadline : Nat]

\* An accepted trade leaves a book, at the same price.
LEMMA AcceptedBook ==
  ASSUME NEW s \in Book, NEW o \in Orders, NEW time \in Nat, Accepts(s, o, time)
  PROVE  Traded(s, o) \in Book
<1> DEFINE usd == Quote(s, o.amount, o.buy)
           after == Traded(s, o)
<1>1. s.answer > 0
  BY DEF Accepts, Fresh
<1>2. usd \in Nat
  BY <1>1, QuoteNat DEF Orders
<1>3. /\ after.cot >= 0 /\ after.usd >= 0 /\ after.poolCot >= 0 /\ after.poolUsd >= 0
      /\ after.allowance.usd >= 0 /\ after.allowance.cot >= 0
  BY DEF Accepts, PortfolioBounds, Transferable
<1> HIDE DEF usd
<1>4. ASSUME o.buy PROVE after \in Book
  <2> DEFINE cot == s.cot + o.amount
             paid == s.usd - usd
             poolCot == s.poolCot - o.amount
             poolUsd == s.poolUsd + usd
             left == s.allowance.usd - usd
  <2>1. after = [s EXCEPT !.cot = cot, !.usd = paid, !.poolCot = poolCot,
                          !.poolUsd = poolUsd, !.allowance.usd = left]
    BY <1>4 DEF Traded, usd
  <2>2. /\ cot \in Nat /\ paid \in Nat /\ poolCot \in Nat /\ poolUsd \in Nat
        /\ left \in Nat
    <3> HIDE DEF after
    <3> QED
      BY <1>2, <1>3, <2>1 DEF Book, Orders
  <2> HIDE DEF after, cot, paid, poolCot, poolUsd, left
  <2> QED
    BY <2>1, <2>2 DEF Book
<1>5. ASSUME ~o.buy PROVE after \in Book
  <2> DEFINE cot == s.cot - o.amount
             paid == s.usd + usd
             poolCot == s.poolCot + o.amount
             poolUsd == s.poolUsd - usd
             left == s.allowance.cot - o.amount
  <2>1. after = [s EXCEPT !.cot = cot, !.usd = paid, !.poolCot = poolCot,
                          !.poolUsd = poolUsd, !.allowance.cot = left]
    BY <1>5 DEF Traded, usd
  <2>2. /\ cot \in Nat /\ paid \in Nat /\ poolCot \in Nat /\ poolUsd \in Nat
        /\ left \in Nat
    <3> HIDE DEF after
    <3> QED
      BY <1>2, <1>3, <2>1 DEF Book, Orders
  <2> HIDE DEF after, cot, paid, poolCot, poolUsd, left
  <2> QED
    BY <2>1, <2>2 DEF Book
<1> QED
  BY <1>4, <1>5

\* Tick and the moves of the others leave a book.
LEMMA OthersKeepBook ==
  ASSUME book \in Book, now \in Nat, Tick \/ Move
  PROVE  book' \in Book /\ now' \in Nat /\ now <= now'
<1>1. CASE Tick
  BY <1>1 DEF Tick
<1>2. ASSUME NEW price \in Prices, NEW time \in {now, now + 1}, SetPrice(price, time)
      PROVE  book' \in Book
  <2>1. price \in Int /\ time \in Nat
    BY MarketAssumption
  <2> QED
    BY <1>2, <2>1 DEF SetPrice, Book
<1>3. ASSUME NEW isBuy \in BOOLEAN, OthersTrade(1, isBuy) PROVE book' \in Book
  <2>1. Quote(book, 1, isBuy) \in Nat
    BY <1>3, QuoteNat DEF OthersTrade, Fresh
  <2> DEFINE usd == Quote(book, 1, isBuy)
  <2> HIDE DEF usd
  <2>2. CASE isBuy
    <3> DEFINE cot == book.poolCot - 1
               paid == book.poolUsd + usd
    <3>1. book' = [book EXCEPT !.poolCot = cot, !.poolUsd = paid] /\ book.poolCot >= 1
      BY <1>3, <2>2 DEF OthersTrade, usd
    <3>2. cot \in Nat /\ paid \in Nat
      BY <2>1, <3>1 DEF Book, usd
    <3> HIDE DEF cot, paid
    <3> QED
      BY <3>1, <3>2 DEF Book
  <2>3. CASE ~isBuy
    <3> DEFINE cot == book.poolCot + 1
               paid == book.poolUsd - usd
    <3>1. book' = [book EXCEPT !.poolCot = cot, !.poolUsd = paid] /\ book.poolUsd >= usd
      BY <1>3, <2>3 DEF OthersTrade, usd
    <3>2. cot \in Nat /\ paid \in Nat
      BY <2>1, <3>1 DEF Book, usd
    <3> HIDE DEF cot, paid
    <3> QED
      BY <3>1, <3>2 DEF Book
  <2> QED
    BY <2>2, <2>3
<1>4. ASSUME Withdraw(1) PROVE book' \in Book
  BY <1>4 DEF Withdraw, Book
<1>5. ASSUME Mirror PROVE book' \in Book
  BY <1>5 DEF Mirror, Book
<1> QED
  BY <1>1, <1>2, <1>3, <1>4, <1>5 DEF Move

-----------------------------------------------------------------------------
(* The policy and the contract, in exact integers.                         *)

\* The bound of an order is its price with the slippage, rounded to the next unit
\* that favours the account.
Justified(o, price) ==
  IF o.buy
    THEN (o.bound - 1) * PriceUnit * Bps < o.amount * price * (Bps + MaxSlippageBps)
    ELSE (o.bound + 1) * PriceUnit * Bps > o.amount * price * (Bps - MaxSlippageBps)

\* What the agent builds from an observation is a justified order.
LEMMA BuiltOrder ==
  ASSUME NEW a \in Actions, a.action # "HOLD", NEW s \in Book, NEW at \in Nat
  PROVE  /\ Build(a, s, at) \in Orders
         /\ Build(a, s, at).deadline = at + Wait
         /\ Justified(Build(a, s, at), s.answer)
<1> DEFINE n == a.amount * s.answer
           d == Bps * PriceUnit
           up == n * (Bps + MaxSlippageBps)
           down == n * (Bps - MaxSlippageBps)
           o == Build(a, s, at)
<1>1. a.action \in {"BUY_COT", "SELL_COT"} /\ a.amount \in Nat \ {0}
  BY PolicyAssumption DEF Actions
<1>2. n \in Int /\ d \in Nat \ {0} /\ up \in Int /\ down \in Int /\ -up \in Int
  BY <1>1, MarketAssumption, PolicyAssumption DEF Book
<1>3. Bound(a, s) = IF a.action = "BUY_COT" THEN -((-up) \div d) ELSE down \div d
  <2>1. -n * (Bps + MaxSlippageBps) = -up
    <3> HIDE DEF n
    <3> QED
      BY <1>2, MarketAssumption, PolicyAssumption
  <2> QED
    BY <2>1 DEF Bound
<1>4. (-up) \div d \in Int /\ -up < d * ((-up) \div d) + d
  <2> HIDE DEF up, d
  <2> QED
    BY <1>2, Quotient
<1>5. down \div d \in Int /\ down < d * (down \div d) + d
  <2> HIDE DEF down, d
  <2> QED
    BY <1>2, Quotient
<1>6. o = [buy |-> a.action = "BUY_COT", amount |-> a.amount, bound |-> Bound(a, s),
           deadline |-> at + Wait]
  BY DEF Build, Deadline
<1>7. o \in Orders
  BY <1>1, <1>3, <1>4, <1>5, <1>6, PolicyAssumption DEF Orders
<1>8. Justified(o, s.answer)
  <2>1. CASE a.action = "BUY_COT"
    <3> DEFINE q == (-up) \div d
    <3>1. q \in Int /\ up > -(d * q) - d
      <4> HIDE DEF up, d
      <4> QED
        BY <1>2, <1>4
    <3>2. (-q - 1) * PriceUnit * Bps = -(d * q) - d
      <4> HIDE DEF q
      <4> QED
        BY <3>1, MarketAssumption
    <3>3. o.bound = -q
      <4> HIDE DEF up, down, d
      <4> QED
        BY <1>3, <1>6, <2>1
    <3>4. o.buy
      BY <2>1, Zenon DEF Build
    <3>5. o.amount = a.amount
      BY <1>6
    <3> HIDE DEF o, q, d
    <3> QED
      BY <3>1, <3>2, <3>3, <3>4, <3>5 DEF Justified
  <2>2. CASE a.action # "BUY_COT"
    <3> DEFINE q == down \div d
    <3>1. q \in Int /\ down < d * q + d
      BY <1>5
    <3>2. (q + 1) * PriceUnit * Bps = d * q + d
      <4> HIDE DEF q
      <4> QED
        BY <3>1, MarketAssumption
    <3>3. o.bound = q
      <4> HIDE DEF up, down, d
      <4> QED
        BY <1>3, <1>6, <2>2
    <3>4. ~o.buy
      BY <2>2, Zenon DEF Build
    <3>5. o.amount = a.amount
      BY <1>6
    <3> HIDE DEF o, q, d
    <3> QED
      BY <3>1, <3>2, <3>3, <3>4, <3>5 DEF Justified
  <2> QED
    BY <2>1, <2>2
<1> QED
  BY <1>6, <1>7, <1>8

\* The cost the policy predicts is the quote of the market: rounding the change
\* of the balance down is rounding the price up for a purchase.
LEMMA PredictedCost ==
  ASSUME NEW s \in Book, s.answer > 0, NEW a \in Actions, a.action # "HOLD"
  PROVE  LET isBuy == a.action = "BUY_COT"
             usd == Quote(s, a.amount, isBuy)
         IN  /\ usd \in Nat
             /\ DeltaUsd(a, s) = IF isBuy THEN -usd ELSE usd
             /\ Absolute(DeltaUsd(a, s)) = usd
<1> DEFINE isBuy == a.action = "BUY_COT"
           usd == Quote(s, a.amount, isBuy)
           n == a.amount * s.answer
           d == Bps * PriceUnit
           up == n * (Bps + FeeBps)
           down == n * (Bps - FeeBps)
<1>1. a.action \in {"BUY_COT", "SELL_COT"} /\ a.amount \in Nat \ {0} /\ s.answer \in Int
  BY PolicyAssumption DEF Actions, Book
<1>2. n \in Int /\ d \in Nat \ {0} /\ up \in Int /\ down \in Int /\ -up \in Int
  BY <1>1, MarketAssumption
<1>3. usd \in Nat
  BY <1>1, QuoteNat
<1>4. ASSUME isBuy PROVE usd = (up + d - 1) \div d /\ DeltaUsd(a, s) = (-up) \div d
  <2>1. -a.amount * s.answer * Bps - a.amount * s.answer * FeeBps = -up
    BY <1>1, MarketAssumption
  <2>2. DeltaCot(a) = a.amount
    BY <1>4 DEF DeltaCot
  <2> QED
    BY <1>4, <2>1, <2>2 DEF DeltaUsd, Quote
<1>5. ASSUME ~isBuy PROVE usd = down \div d /\ DeltaUsd(a, s) = down \div d
  <2>1. -(-a.amount) * s.answer * Bps - a.amount * s.answer * FeeBps = down
    BY <1>1, MarketAssumption
  <2>2. DeltaCot(a) = -a.amount
    BY <1>1, <1>5 DEF DeltaCot
  <2> QED
    BY <1>5, <2>1, <2>2 DEF DeltaUsd, Quote
<1>6. (up + d - 1) \div d = -((-up) \div d) /\ (-up) \div d \in Int
  <2> HIDE DEF up, d
  <2> QED
    BY <1>2, RoundedUp, Quotient
<1>7. DeltaUsd(a, s) = IF isBuy THEN -usd ELSE usd
  <2> HIDE DEF up, down, d, usd, isBuy
  <2> QED
    BY <1>3, <1>4, <1>5, <1>6
<1>8. Absolute(DeltaUsd(a, s)) = usd
  <2> HIDE DEF usd, isBuy
  <2> QED
    BY <1>3, <1>7 DEF Absolute
<1> QED
  BY <1>3, <1>7, <1>8

\* A cost within the slippage is within the bound of the order.
LEMMA SlippageWithinBound ==
  ASSUME NEW s \in Book, s.answer > 0, NEW a \in Actions, a.action # "HOLD",
         NEW usd \in Nat,
         Absolute(usd * PriceUnit - a.amount * s.answer) * Bps
           <= MaxSlippageBps * a.amount * s.answer
  PROVE  IF a.action = "BUY_COT" THEN usd <= Bound(a, s) ELSE usd >= Bound(a, s)
<1> DEFINE n == a.amount * s.answer
           d == Bps * PriceUnit
           up == n * (Bps + MaxSlippageBps)
           down == n * (Bps - MaxSlippageBps)
<1>1. a.action \in {"BUY_COT", "SELL_COT"} /\ a.amount \in Nat \ {0} /\ s.answer \in Int
  BY PolicyAssumption DEF Actions, Book
<1>2. n \in Int /\ d \in Nat \ {0} /\ up \in Int /\ down \in Int /\ -up \in Int
  BY <1>1, MarketAssumption, PolicyAssumption
<1>3. Bound(a, s) = IF a.action = "BUY_COT" THEN -((-up) \div d) ELSE down \div d
  <2>1. -n * (Bps + MaxSlippageBps) = -up
    <3> HIDE DEF n
    <3> QED
      BY <1>2, MarketAssumption, PolicyAssumption
  <2> QED
    BY <2>1 DEF Bound
<1>4. d * usd <= up /\ down <= d * usd
  <2> DEFINE x == usd * PriceUnit - n
             slip == MaxSlippageBps * n
  <2>1. x \in Int /\ slip \in Int /\ Absolute(x) * Bps <= slip
    <3>1. x \in Int /\ slip \in Int
      BY <1>1, <1>2, MarketAssumption, PolicyAssumption
    <3>2. MaxSlippageBps * a.amount * s.answer = slip
      BY <1>1, PolicyAssumption
    <3> QED
      BY <3>1, <3>2
  <2>2. Bps * x <= slip /\ -(Bps * x) <= slip
    <3> HIDE DEF x, slip
    <3>1. CASE x >= 0
      BY <2>1, <3>1, MarketAssumption DEF Absolute
    <3>2. CASE x < 0
      BY <2>1, <3>2, MarketAssumption DEF Absolute
    <3> QED
      BY <2>1, <3>1, <3>2
  <2>3. /\ Bps * x = d * usd - Bps * n
        /\ up = Bps * n + slip /\ down = Bps * n - slip
    <3> HIDE DEF n
    <3> QED
      BY <1>2, MarketAssumption, PolicyAssumption
  <2>4. d * usd \in Int /\ Bps * n \in Int
    <3> HIDE DEF n
    <3> QED
      BY <1>2, MarketAssumption
  <2> HIDE DEF d, up, down, x, slip, n
  <2> QED
    BY <2>1, <2>2, <2>3, <2>4
<1>5. ASSUME a.action = "BUY_COT" PROVE usd <= -((-up) \div d)
  <2> DEFINE q == (-up) \div d
  <2> HIDE DEF up, d
  <2>1. q \in Int /\ d * q <= -up
    BY <1>2, Quotient
  <2> HIDE DEF q
  <2>2. d * (-q) = -(d * q) /\ d * q \in Int /\ d * usd \in Int
    BY <1>2, <2>1
  <2>3. d * usd <= d * (-q)
    BY <1>2, <1>4, <2>1, <2>2
  <2> QED
    BY <1>2, <2>1, <2>3, Ordered DEF q
<1>6. ASSUME a.action # "BUY_COT" PROVE usd >= down \div d
  <2> DEFINE q == down \div d
  <2> HIDE DEF down, d
  <2>1. q \in Int /\ d * q <= down
    BY <1>2, Quotient
  <2> HIDE DEF q
  <2>2. d * q <= d * usd
    BY <1>2, <1>4, <2>1
  <2> QED
    BY <1>2, <2>1, <2>2, Ordered DEF q
<1> HIDE DEF up, down, d
<1> QED
  BY <1>3, <1>5, <1>6

\* What the policy approves of a book, the contract accepts.
LEMMA ApprovedAccepted ==
  ASSUME book \in Book, now \in Nat
  PROVE  ApprovedIsAccepted
<1> SUFFICES ASSUME ValidState(book), NEW a \in Actions, a.action # "HOLD",
                    Approved(a, book, now), Transferable(book, Build(a, book, now))
             PROVE  Simulates(a, book, now, now)
  BY DEF ApprovedIsAccepted
<1> DEFINE o == Build(a, book, now)
           isBuy == a.action = "BUY_COT"
           usd == Quote(book, a.amount, isBuy)
           post == [book EXCEPT !.cot = @ + DeltaCot(a), !.usd = @ + DeltaUsd(a, book)]
<1>1. book.answer > 0 /\ book.updatedAt > 0
  BY DEF ValidState
<1>2. /\ usd \in Nat /\ DeltaUsd(a, book) = IF isBuy THEN -usd ELSE usd
      /\ Absolute(DeltaUsd(a, book)) = usd
  BY <1>1, PredictedCost
<1>3. o \in Orders /\ o.deadline = now + Wait
  BY BuiltOrder
<1>4. o.amount = a.amount /\ o.bound = Bound(a, book)
  BY DEF Build
<1>5. o.buy <=> isBuy
  BY Zenon DEF Build
<1>6. Quote(book, o.amount, o.buy) = usd
  <2>1. CASE isBuy
    BY <1>4, <1>5, <2>1 DEF Quote
  <2>2. CASE ~isBuy
    BY <1>4, <1>5, <2>2 DEF Quote
  <2> QED
    BY <2>1, <2>2
<1>7. /\ Liquid(book)
      /\ post.cot >= 0 /\ post.usd >= 0
      /\ post.cot * book.answer * Bps <= Nav(post) * MaxExposureBps
      /\ usd * PriceUnit * Bps <= Nav(book) * MaxSingleTradeBps
      /\ Absolute(usd * PriceUnit - a.amount * book.answer) * Bps
           <= MaxSlippageBps * a.amount * book.answer
  BY <1>2 DEF Approved, WithinPortfolio
<1>8. now <= o.deadline /\ o.amount > 0
  BY <1>3, PolicyAssumption DEF Orders
<1>9. Fresh(book, now)
  <2>1. now - book.updatedAt \in 0 .. MaxOracleAge /\ book.updatedAt \in Nat
    BY DEF Approved, Book
  <2> QED
    BY <1>1, <2>1, MarketAssumption DEF Fresh
<1>10. WithinBound(book, o)
  <2>1. IF isBuy THEN usd <= Bound(a, book) ELSE usd >= Bound(a, book)
    BY <1>1, <1>2, <1>7, SlippageWithinBound
  <2> HIDE DEF o, usd, isBuy
  <2> QED
    BY <1>4, <1>5, <1>6, <2>1 DEF WithinBound
<1>11. PortfolioBounds(book, o)
  <2> DEFINE after == Traded(book, o)
  <2>1. /\ after.cot = post.cot /\ after.usd = post.usd /\ after.answer = book.answer
        /\ post.answer = book.answer
    <3>1. DeltaCot(a) = IF isBuy THEN o.amount ELSE -o.amount
      <4>1. a.action \in {"BUY_COT", "SELL_COT"}
        BY DEF Actions
      <4> QED
        BY <1>4, <4>1 DEF DeltaCot
    <3> HIDE DEF o, usd, isBuy
    <3>2. CASE isBuy
      BY <1>2, <1>3, <1>5, <1>6, <3>1, <3>2 DEF Traded, Book, Orders
    <3>3. CASE ~isBuy
      BY <1>2, <1>3, <1>5, <1>6, <3>1, <3>3 DEF Traded, Book, Orders
    <3> QED
      BY <3>2, <3>3
  <2>2. Nav(after) = Nav(post)
    BY <2>1 DEF Nav
  <2> HIDE DEF o, usd, isBuy, post
  <2> QED
    BY <1>6, <1>7, <2>1, <2>2 DEF PortfolioBounds
<1>12. Accepts(book, o, now)
  BY <1>8, <1>9, <1>10, <1>11 DEF Accepts
<1> HIDE DEF usd, isBuy, post
<1> QED
  BY <1>2, <1>12 DEF Simulates, usd, isBuy

-----------------------------------------------------------------------------
(* The policy among the services                                           *)

BookInv == book \in Book /\ now \in Nat

LEMMA BookInvariant == ServicesSpec => []BookInv
<1>1. ServicesInit => BookInv
  BY MarketAssumption DEF ServicesInit, MarketInit, BookInv
<1>2. BookInv /\ [ServicesNext]_servicesVars => BookInv'
  <2> SUFFICES ASSUME BookInv, [ServicesNext]_servicesVars PROVE BookInv'
    OBVIOUS
  <2>1. Tick \/ Move \/ UNCHANGED marketVars
    <3>1. CASE PolicyStep
      BY <3>1 DEF PolicyStep
    <3>2. CASE ~PolicyStep
      BY <3>2 DEF ServicesNext, servicesVars, AccountsStep, QueueStep, NotificationsStep,
           AnalyticsStep, ResponsesStep, GatewayStep, ReadersStep, IoTStep, Frame
    <3> QED
      BY <3>1, <3>2
  <2>2. CASE Tick \/ Move
    BY <2>2, OthersKeepBook DEF BookInv
  <2>3. CASE UNCHANGED marketVars
    BY <2>3 DEF marketVars, BookInv
  <2> QED
    BY <2>1, <2>2, <2>3
<1> QED
  BY <1>1, <1>2, PTL DEF ServicesSpec

\* Whatever the market and the feed do, a trade that the policy approves is one the
\* contract accepts, at the cost that was predicted (policy/engine.py,
\* DemoCotMarket.sol).
THEOREM ApprovedTradesAreAccepted == ServicesSpec => []ApprovedIsAccepted
<1>1. BookInv => ApprovedIsAccepted
  BY ApprovedAccepted DEF BookInv
<1> QED
  BY <1>1, BookInvariant, PTL

-----------------------------------------------------------------------------
(* The agent: the invariant of its runs.                                   *)

Phases == {"new", "observed", "authorized", "refreshed", "validated", "sent",
           "waiting"} \cup Ended

RunRecords == [phase : Phases, action : Actions \cup {Nothing}, seen : Book \cup {Nothing},
               at : Nat, nonce : Nat, since : Nat]

Transactions == [run : Runs, nonce : Nat, order : Orders,
                 status : {"pending", "mined", "reverted"}]

AuditRecords == [run : Runs, status : Phases \cup {"broadcast"},
                 order : Orders \cup {Nothing}, price : Int]

AgentTypeOK ==
  /\ now \in Nat /\ book \in Book /\ moves \in 0 .. MaxMoves
  /\ runs \in [Runs -> RunRecords] /\ txs \in Seq(Transactions)
  /\ accountNonce \in Nat /\ audit \subseteq AuditRecords

\* The audit file shows the order as validated for a price that justifies it.
Recorded(r, o) ==
  \E entered \in audit :
    entered.run = r /\ entered.order = o /\ Justified(o, entered.price)

\* What a run knows in each phase.
RunOK(r) ==
  LET run == runs[r]
  IN  /\ run.at <= now
      /\ run.phase \in {"observed", "refreshed", "validated", "sent", "waiting"}
           => run.seen \in Book
      /\ run.phase \in {"authorized", "refreshed", "validated", "sent", "waiting"}
           => run.action \in Actions
      /\ run.phase \in {"validated", "sent", "waiting"} => run.action.action # "HOLD"
      /\ run.phase = "validated" => Recorded(r, Order(r))
      /\ run.phase = "waiting" => run.at <= run.since

\* A transaction outlives its run, whose phase tells what became of it.
TxOK(t) ==
  LET run == runs[txs[t].run]
  IN  /\ Recorded(txs[t].run, txs[t].order)
      /\ run.phase \in {"sent", "waiting"} \cup Ended
      /\ run.phase \in {"sent", "waiting"} => txs[t].order = Order(txs[t].run)
      /\ run.phase = "timedOut" => txs[t].order.deadline <= now

AgentInv ==
  /\ AgentTypeOK
  /\ \A r \in Runs : RunOK(r)
  /\ \A t \in DOMAIN txs : TxOK(t)

LEMMA PendingNonceNat ==
  ASSUME AgentTypeOK
  PROVE  PendingNonce \in Nat
<1>1. Len(txs) \in Nat /\ DOMAIN txs = 1 .. Len(txs)
  BY DEF AgentTypeOK
<1>2. Pending \in SUBSET (1 .. Len(txs))
  BY <1>1 DEF Pending
<1>3. IsFiniteSet(1 .. Len(txs))
  BY <1>1, FS_Interval
<1>4. IsFiniteSet(Pending)
  BY <1>2, <1>3, FS_Subset
<1>5. Cardinality(Pending) \in Nat
  BY <1>4, FS_CardinalityType
<1> QED
  BY <1>5 DEF PendingNonce, AgentTypeOK

LEMMA InitAgent == AgentInit => AgentInv
<1> SUFFICES ASSUME AgentInit PROVE AgentInv
  OBVIOUS
<1>1. NewRun \in RunRecords
  BY DEF NewRun, RunRecords, Phases
<1>2. AgentTypeOK
  <2>1. txs \in Seq(Transactions)
    BY DEF AgentInit
  <2>2. book \in Book /\ now \in Nat /\ moves \in 0 .. MaxMoves
    BY MarketAssumption DEF AgentInit, MarketInit
  <2> QED
    BY <1>1, <2>1, <2>2 DEF AgentInit, AgentTypeOK
<1>3. ASSUME NEW r \in Runs PROVE RunOK(r)
  BY <1>3 DEF AgentInit, MarketInit, RunOK, NewRun
<1> QED
  BY <1>2, <1>3 DEF AgentInv, AgentInit

\* A run that takes a step changes its own record and adds to the audit file.
LEMMA RunStep ==
  ASSUME AgentInv, NEW r \in Runs, NEW run \in RunRecords,
         runs' = [runs EXCEPT ![r] = run], UNCHANGED <<marketVars, txs, accountNonce>>,
         audit \subseteq audit', audit' \subseteq AuditRecords,
         RunOK(r)', \A t \in DOMAIN txs : txs[t].run = r => TxOK(t)'
  PROVE  AgentInv'
<1>1. AgentTypeOK'
  BY DEF AgentInv, AgentTypeOK, marketVars
<1>2. ASSUME NEW q \in Runs, q # r PROVE RunOK(q)'
  <2>1. RunOK(q) /\ runs'[q] = runs[q]
    BY <1>2 DEF AgentInv, AgentTypeOK
  <2>2. Order(q)' = Order(q) /\ now' = now
    BY <2>1 DEF Order, marketVars
  <2>3. Recorded(q, Order(q)) => Recorded(q, Order(q))'
    BY <2>2 DEF Recorded
  <2> QED
    BY <2>1, <2>2, <2>3 DEF RunOK
<1>3. ASSUME NEW t \in DOMAIN txs, txs[t].run # r PROVE TxOK(t)'
  <2>1. TxOK(t) /\ runs'[txs[t].run] = runs[txs[t].run]
    BY <1>3 DEF AgentInv, AgentTypeOK, Transactions
  <2>2. Order(txs[t].run)' = Order(txs[t].run) /\ now' = now
    BY <2>1 DEF Order, marketVars
  <2>3. Recorded(txs[t].run, txs[t].order) => Recorded(txs[t].run, txs[t].order)'
    BY DEF Recorded
  <2> QED
    BY <2>1, <2>2, <2>3 DEF TxOK
<1> QED
  BY <1>1, <1>2, <1>3 DEF AgentInv

\* A run that ends: what is left of it is its outcome.
LEMMA RunEnds ==
  ASSUME AgentInv, NEW r \in Runs, NEW outcome \in Ended,
         Set(r, [NewRun EXCEPT !.phase = outcome]),
         UNCHANGED <<marketVars, txs, accountNonce>>,
         audit \subseteq audit', audit' \subseteq AuditRecords,
         outcome = "timedOut" =>
           \A t \in DOMAIN txs : txs[t].run = r => txs[t].order.deadline <= now
  PROVE  AgentInv'
<1> DEFINE run == [NewRun EXCEPT !.phase = outcome]
<1>1. run \in RunRecords /\ run.phase = outcome /\ run.at = 0 /\ run.since = 0
  BY DEF NewRun, RunRecords, Phases, Ended
<1>2. runs' = [runs EXCEPT ![r] = run] /\ runs'[r] = run
  BY DEF Set, AgentInv, AgentTypeOK
<1> HIDE DEF run
<1>3. RunOK(r)'
  <2>1. now' \in Nat
    BY DEF AgentInv, AgentTypeOK, marketVars
  <2> QED
    BY <1>1, <1>2, <2>1 DEF RunOK, Ended
<1>4. ASSUME NEW t \in DOMAIN txs, txs[t].run = r PROVE TxOK(t)'
  <2>1. Recorded(r, txs[t].order)'
    BY <1>4 DEF AgentInv, TxOK, Recorded
  <2> QED
    BY <1>1, <1>2, <1>4, <2>1 DEF TxOK, Ended, marketVars
<1> QED
  BY <1>1, <1>2, <1>3, <1>4, RunStep

\* A run in one of the first phases has no transaction.
LEMMA NoneSent ==
  ASSUME AgentInv, NEW r \in Runs, NEW t \in DOMAIN txs, txs[t].run = r
  PROVE  runs[r].phase \in {"sent", "waiting"} \cup Ended
  BY DEF AgentInv, TxOK

LEMMA EndKeepsAgent ==
  ASSUME AgentInv, NEW r \in Runs, NEW outcome \in Ended, End(r, outcome),
         UNCHANGED <<marketVars, txs, accountNonce>>,
         outcome = "timedOut" =>
           \A t \in DOMAIN txs : txs[t].run = r => txs[t].order.deadline <= now
  PROVE  AgentInv'
<1>1. Record(r, outcome) \in AuditRecords
  BY DEF Record, AuditRecords, Phases
<1>2. audit \subseteq audit' /\ audit' \subseteq AuditRecords
  BY <1>1 DEF End, WriteAudit, AgentInv, AgentTypeOK
<1> QED
  BY <1>2, RunEnds DEF End

LEMMA ObserveKeepsAgent ==
  ASSUME AgentInv, NEW r \in Runs, Observe(r)
  PROVE  AgentInv'
<1> DEFINE run == [Observation(r) EXCEPT !.phase = "observed"]
<1> USE DEF Observe
<1>1. runs[r] \in RunRecords /\ book \in Book /\ now \in Nat
  BY DEF AgentInv, AgentTypeOK
<1>2. CASE ValidState(book)
  <2>1. run = [runs[r] EXCEPT !.phase = "observed", !.seen = book, !.at = now]
    BY DEF Observation, RunRecords
  <2>2. run \in RunRecords /\ run.phase = "observed" /\ run.seen = book /\ run.at = now
    BY <1>1, <2>1 DEF RunRecords, Phases
  <2> HIDE DEF run
  <2>3. runs' = [runs EXCEPT ![r] = run]
    BY <1>2 DEF Set, run
  <2>4. runs'[r] = run
    BY <2>3 DEF AgentInv, AgentTypeOK
  <2>5. RunOK(r)'
    BY <1>1, <2>2, <2>4 DEF RunOK, marketVars
  <2>6. ~\E t \in DOMAIN txs : txs[t].run = r
    BY NoneSent DEF Ended
  <2>7. audit' \subseteq AuditRecords
    BY DEF AgentInv, AgentTypeOK
  <2> QED
    BY <2>2, <2>3, <2>5, <2>6, <2>7, RunStep
<1>3. CASE ~ValidState(book)
  <2>1. audit' \subseteq AuditRecords
    BY DEF AgentInv, AgentTypeOK
  <2> QED
    BY <1>3, <2>1, RunEnds DEF Ended
<1> QED
  BY <1>2, <1>3

LEMMA DecideKeepsAgent ==
  ASSUME AgentInv, NEW r \in Runs, NEW a \in Actions, Decide(r, a)
  PROVE  AgentInv'
<1> DEFINE run == [NewRun EXCEPT !.phase = "authorized", !.action = a]
<1>1. CASE Set(r, run) /\ WriteAudit(Record(r, "authorized"))
  <2>1. run \in RunRecords /\ run.phase = "authorized" /\ run.action = a /\ run.at = 0
    BY DEF NewRun, RunRecords, Phases
  <2> HIDE DEF run
  <2>2. runs' = [runs EXCEPT ![r] = run] /\ runs'[r] = run
    BY <1>1 DEF Set, AgentInv, AgentTypeOK
  <2>3. RunOK(r)'
    BY <2>1, <2>2 DEF RunOK, Decide, marketVars, AgentInv, AgentTypeOK
  <2>4. ~\E t \in DOMAIN txs : txs[t].run = r
    BY NoneSent DEF Decide, Ended
  <2>5. audit \subseteq audit' /\ audit' \subseteq AuditRecords
    BY <1>1 DEF WriteAudit, Record, AuditRecords, Phases, AgentInv, AgentTypeOK
  <2> QED
    BY <2>1, <2>2, <2>3, <2>4, <2>5, RunStep DEF Decide
<1>2. CASE End(r, "rejected")
  BY <1>2, EndKeepsAgent DEF Decide, Ended
<1> QED
  BY <1>1, <1>2 DEF Decide

LEMMA RefreshKeepsAgent ==
  ASSUME AgentInv, NEW r \in Runs, Refresh(r)
  PROVE  AgentInv'
<1> DEFINE run == [Observation(r) EXCEPT !.phase = "refreshed"]
<1>1. runs[r] \in RunRecords /\ book \in Book /\ now \in Nat /\ runs[r].action \in Actions
  BY DEF AgentInv, AgentTypeOK, RunOK, Refresh
<1>2. CASE Set(r, run) /\ UNCHANGED audit
  <2>1. run = [runs[r] EXCEPT !.phase = "refreshed", !.seen = book, !.at = now]
    BY DEF Observation, RunRecords
  <2>2. /\ run \in RunRecords /\ run.phase = "refreshed" /\ run.seen = book
        /\ run.at = now /\ run.action = runs[r].action
    BY <1>1, <2>1 DEF RunRecords, Phases
  <2> HIDE DEF run
  <2>3. runs' = [runs EXCEPT ![r] = run] /\ runs'[r] = run
    BY <1>2 DEF Set, AgentInv, AgentTypeOK
  <2>4. RunOK(r)'
    BY <1>1, <2>2, <2>3 DEF RunOK, Refresh, marketVars
  <2>5. ~\E t \in DOMAIN txs : txs[t].run = r
    BY NoneSent DEF Refresh, Ended
  <2>6. audit' \subseteq AuditRecords
    BY <1>2 DEF AgentInv, AgentTypeOK
  <2> QED
    BY <1>2, <2>2, <2>3, <2>4, <2>5, <2>6, RunStep DEF Refresh
<1>3. CASE End(r, "rejected")
  BY <1>3, EndKeepsAgent DEF Refresh, Ended
<1> QED
  BY <1>2, <1>3 DEF Refresh

\* The transaction of a run is recorded as validated, for the price it was built on.
LEMMA ValidateKeepsAgent ==
  ASSUME AgentInv, NEW r \in Runs, Validate(r)
  PROVE  AgentInv'
<1> DEFINE run == [runs[r] EXCEPT !.phase = "validated", !.nonce = PendingNonce]
           entered == [run |-> r, status |-> "validated", order |-> Order(r),
                       price |-> runs[r].seen.answer]
<1>1. /\ runs[r] \in RunRecords /\ runs[r].seen \in Book /\ runs[r].action \in Actions
      /\ runs[r].at <= now /\ runs[r].at \in Nat
  BY DEF AgentInv, AgentTypeOK, RunOK, Validate, RunRecords
<1>2. CASE RecordAndSign(r) /\ runs[r].action.action # "HOLD"
  <2>1. /\ run \in RunRecords /\ run.phase = "validated" /\ run.seen = runs[r].seen
        /\ run.at = runs[r].at /\ run.action = runs[r].action
    <3>1. PendingNonce \in Nat
      BY PendingNonceNat DEF AgentInv
    <3> QED
      BY <1>1, <3>1 DEF RunRecords, Phases
  <2>2. Order(r) \in Orders /\ Justified(Order(r), runs[r].seen.answer)
    BY <1>1, <1>2, BuiltOrder DEF Order
  <2> HIDE DEF run
  <2>3. runs' = [runs EXCEPT ![r] = run] /\ runs'[r] = run
    BY <1>2 DEF RecordAndSign, Signed, Set, AgentInv, AgentTypeOK, run
  <2>4. audit' = audit \cup {entered}
    BY <1>2 DEF RecordAndSign, WriteAudit
  <2>5. entered \in AuditRecords
    BY <1>1, <2>2 DEF AuditRecords, Phases, Book
  <2>6. Order(r)' = Order(r)
    BY <2>1, <2>3 DEF Order
  <2>7. Recorded(r, Order(r))'
    <3>1. entered \in audit'
      BY <2>4
    <3>2. /\ entered.run = r /\ entered.order = Order(r)
          /\ entered.price = runs[r].seen.answer
      OBVIOUS
    <3> HIDE DEF entered
    <3>3. Justified(Order(r), entered.price)
      BY <2>2, <3>2
    <3> QED
      BY <2>6, <3>1, <3>2, <3>3 DEF Recorded
  <2>8. RunOK(r)'
    BY <1>1, <1>2, <2>1, <2>3, <2>7 DEF RunOK, Validate, marketVars
  <2>9. ~\E t \in DOMAIN txs : txs[t].run = r
    BY NoneSent DEF Validate, Ended
  <2>10. audit \subseteq audit' /\ audit' \subseteq AuditRecords
    BY <2>4, <2>5 DEF AgentInv, AgentTypeOK
  <2> QED
    BY <2>1, <2>3, <2>8, <2>9, <2>10, RunStep DEF Validate
<1>3. CASE End(r, "rejected")
  BY <1>3, EndKeepsAgent DEF Validate, Ended
<1>4. CASE End(r, "done")
  BY <1>4, EndKeepsAgent DEF Validate, Ended
<1> QED
  BY <1>2, <1>3, <1>4 DEF Validate

LEMMA SendKeepsAgent ==
  ASSUME AgentInv, NEW r \in Runs, Send(r)
  PROVE  AgentInv'
<1> DEFINE run == [runs[r] EXCEPT !.phase = "sent"]
           tx == [run |-> r, nonce |-> runs[r].nonce, order |-> Order(r),
                  status |-> "pending"]
<1>1. /\ runs[r] \in RunRecords /\ runs[r].seen \in Book /\ runs[r].action \in Actions
      /\ runs[r].at <= now /\ runs[r].action.action # "HOLD" /\ Recorded(r, Order(r))
  BY DEF AgentInv, AgentTypeOK, RunOK, Send
<1>2. CASE txs' = Append(txs, tx) /\ Set(r, run) /\ UNCHANGED audit
  <2>1. /\ run \in RunRecords /\ run.phase = "sent" /\ run.seen = runs[r].seen
        /\ run.at = runs[r].at /\ run.action = runs[r].action
    BY <1>1 DEF RunRecords, Phases
  <2>2. tx \in Transactions
    BY <1>1, BuiltOrder DEF Transactions, Order, RunRecords
  <2> HIDE DEF run
  <2>3. runs' = [runs EXCEPT ![r] = run] /\ runs'[r] = run
    BY <1>2 DEF Set, AgentInv, AgentTypeOK, run
  <2>4. AgentTypeOK'
    BY <1>2, <2>1, <2>2, <2>3 DEF AgentInv, AgentTypeOK, Send, marketVars
  <2>5. ASSUME NEW q \in Runs PROVE RunOK(q)'
    <3>1. CASE q = r
      BY <1>1, <2>1, <2>3, <3>1 DEF RunOK, Send, marketVars
    <3>2. CASE q # r
      <4>1. RunOK(q) /\ runs'[q] = runs[q] /\ Order(q)' = Order(q)
        BY <2>3, <3>2 DEF AgentInv, AgentTypeOK, Order
      <4> QED
        BY <1>2, <4>1 DEF RunOK, Recorded, Send, marketVars
    <3> QED
      BY <3>1, <3>2
  <2>6. Order(r)' = Order(r)
    BY <2>1, <2>3 DEF Order
  <2>7. ASSUME NEW t \in DOMAIN txs' PROVE TxOK(t)'
    <3>1. txs \in Seq(Transactions)
      BY DEF AgentInv, AgentTypeOK
    <3>2. CASE t = Len(txs) + 1
      <4>1. txs'[t] = tx
        BY <1>2, <3>1, <3>2
      <4>2. Recorded(r, Order(r))'
        BY <1>1, <1>2, <2>6 DEF Recorded
      <4> QED
        BY <2>1, <2>3, <2>6, <4>1, <4>2 DEF TxOK
    <3>3. CASE t \in DOMAIN txs
      <4>1. txs'[t] = txs[t] /\ txs[t].run \in Runs /\ TxOK(t)
        <5>1. txs[t] \in Transactions /\ t \in 1 .. Len(txs)
          BY <3>1, <3>3
        <5> HIDE DEF tx
        <5>2. txs'[t] = txs[t]
          BY <1>2, <2>2, <3>1, <5>1
        <5> QED
          BY <3>3, <5>1, <5>2 DEF Transactions, AgentInv
      <4>2. txs[t].run # r
        BY <3>3, NoneSent DEF Send, Ended
      <4>3. runs'[txs[t].run] = runs[txs[t].run] /\ Order(txs[t].run)' = Order(txs[t].run)
        BY <2>3, <4>1, <4>2 DEF AgentInv, AgentTypeOK, Order
      <4>4. Recorded(txs[t].run, txs[t].order)'
        BY <1>2, <4>1 DEF TxOK, Recorded
      <4> QED
        BY <4>1, <4>3, <4>4 DEF TxOK, Send, marketVars
    <3> QED
      BY <1>2, <2>2, <3>1, <3>2, <3>3
  <2> QED
    BY <2>4, <2>5, <2>7 DEF AgentInv
<1>3. CASE End(r, "rejected") /\ UNCHANGED txs
  BY <1>3, EndKeepsAgent DEF Send, Ended
<1> QED
  BY <1>2, <1>3 DEF Send

LEMMA BroadcastKeepsAgent ==
  ASSUME AgentInv, NEW r \in Runs, RecordBroadcast(r)
  PROVE  AgentInv'
<1> DEFINE run == [runs[r] EXCEPT !.phase = "waiting", !.since = now]
<1>1. /\ runs[r] \in RunRecords /\ runs[r].seen \in Book /\ runs[r].action \in Actions
      /\ runs[r].at <= now /\ now \in Nat /\ runs[r].action.action # "HOLD"
  BY DEF AgentInv, AgentTypeOK, RunOK, RecordBroadcast
<1>2. /\ run \in RunRecords /\ run.phase = "waiting" /\ run.seen = runs[r].seen
      /\ run.at = runs[r].at /\ run.action = runs[r].action /\ run.since = now
  BY <1>1 DEF RunRecords, Phases
<1> HIDE DEF run
<1>3. runs' = [runs EXCEPT ![r] = run] /\ runs'[r] = run
  BY DEF RecordBroadcast, Set, AgentInv, AgentTypeOK, run
<1>4. RunOK(r)'
  BY <1>1, <1>2, <1>3 DEF RunOK, RecordBroadcast, marketVars
<1>5. audit \subseteq audit' /\ audit' \subseteq AuditRecords
  BY DEF RecordBroadcast, WriteAudit, Record, AuditRecords, AgentInv, AgentTypeOK
<1>6. ASSUME NEW t \in DOMAIN txs, txs[t].run = r PROVE TxOK(t)'
  <2>1. Order(r)' = Order(r) /\ txs' = txs
    BY <1>2, <1>3 DEF Order, RecordBroadcast
  <2>2. Recorded(r, txs[t].order)' /\ txs[t].order = Order(r)
    BY <1>5, <1>6, <2>1 DEF AgentInv, TxOK, Recorded, RecordBroadcast
  <2> QED
    BY <1>2, <1>3, <1>6, <2>1, <2>2 DEF TxOK
<1> QED
  BY <1>2, <1>3, <1>4, <1>5, <1>6, RunStep DEF RecordBroadcast

\* A run that gives up waiting leaves a transaction whose deadline has come.
LEMMA TimeOutKeepsAgent ==
  ASSUME AgentInv, NEW r \in Runs, TimeOut(r)
  PROVE  AgentInv'
<1>1. /\ runs[r] \in RunRecords /\ runs[r].seen \in Book /\ runs[r].action \in Actions
      /\ runs[r].action.action # "HOLD" /\ runs[r].at <= runs[r].since
      /\ now - runs[r].since >= Wait /\ now \in Nat
  BY DEF AgentInv, AgentTypeOK, RunOK, TimeOut
<1>2. Order(r).deadline = runs[r].at + Wait /\ runs[r].at \in Nat /\ runs[r].since \in Nat
  BY <1>1, BuiltOrder DEF Order, RunRecords
<1>3. ASSUME NEW t \in DOMAIN txs, txs[t].run = r PROVE txs[t].order.deadline <= now
  <2>1. txs[t].order = Order(r)
    BY <1>3 DEF AgentInv, TxOK, TimeOut
  <2> QED
    BY <1>1, <1>2, <2>1, PolicyAssumption
<1> QED
  BY <1>3, EndKeepsAgent DEF TimeOut, Ended

LEMMA OthersKeepAgent ==
  ASSUME AgentInv, Tick \/ Move, UNCHANGED <<runs, txs, accountNonce, audit>>
  PROVE  AgentInv'
<1>1. book' \in Book /\ now' \in Nat /\ now <= now' /\ now \in Nat
  BY OthersKeepBook DEF AgentInv, AgentTypeOK
<1>2. moves' \in 0 .. MaxMoves
  BY MarketAssumption DEF AgentInv, AgentTypeOK, Tick, Move
<1>3. AgentTypeOK'
  BY <1>1, <1>2 DEF AgentInv, AgentTypeOK
<1>4. ASSUME NEW r \in Runs PROVE RunOK(r)'
  <2>1. RunOK(r) /\ runs[r].at \in Nat /\ Order(r)' = Order(r)
    BY DEF AgentInv, AgentTypeOK, RunRecords, Order
  <2> QED
    BY <1>1, <2>1 DEF RunOK, Recorded
<1>5. ASSUME NEW t \in DOMAIN txs PROVE TxOK(t)'
  <2>1. TxOK(t) /\ txs[t].order.deadline \in Nat /\ Order(txs[t].run)' = Order(txs[t].run)
    <3>1. txs[t] \in Transactions
      BY DEF AgentInv, AgentTypeOK
    <3> QED
      BY <3>1 DEF AgentInv, Transactions, Orders, Order
  <2>2. Recorded(txs[t].run, txs[t].order)'
    BY <2>1 DEF TxOK, Recorded
  <2>3. txs[t].order.deadline <= now => txs[t].order.deadline <= now'
    BY <1>1, <2>1
  <2> QED
    BY <2>1, <2>2, <2>3 DEF TxOK
<1> QED
  BY <1>3, <1>4, <1>5 DEF AgentInv

\* A transaction that is included is settled or reverted, and nothing else of it
\* or of the others changes.
LEMMA IncludeKeepsAgent ==
  ASSUME AgentInv, NEW t \in DOMAIN txs, Include(t)
  PROVE  /\ AgentInv'
         /\ \A u \in DOMAIN txs : u # t => txs'[u] = txs[u]
         /\ txs'[t].status = "mined" =>
              Accepts(book, txs[t].order, now) /\ book' = Traded(book, txs[t].order)
<1> DEFINE tx == txs[t]
<1>1. txs \in Seq(Transactions) /\ tx \in Transactions /\ tx.order \in Orders
      /\ t \in 1 .. Len(txs) /\ Len(txs) \in Nat
  <2>1. txs \in Seq(Transactions) /\ tx \in Transactions
    BY DEF AgentInv, AgentTypeOK
  <2> QED
    BY <2>1 DEF Transactions
<1>2. PICK status \in {"mined", "reverted"} :
        /\ txs' = [txs EXCEPT ![t].status = status]
        /\ status = "mined" => Accepts(book, tx.order, now) /\ book' = Traded(book, tx.order)
        /\ status = "reverted" => book' = book
  <2>1. CASE /\ Accepts(book, tx.order, now) /\ book' = Traded(book, tx.order)
             /\ txs' = [txs EXCEPT ![t].status = "mined"]
    BY <2>1
  <2>2. CASE txs' = [txs EXCEPT ![t].status = "reverted"] /\ UNCHANGED book
    BY <2>2
  <2> QED
    BY <2>1, <2>2 DEF Include
<1> DEFINE changed == [tx EXCEPT !.status = status]
<1>3. /\ changed \in Transactions /\ changed.run = tx.run /\ changed.order = tx.order
      /\ changed.status = status
  BY <1>1 DEF Transactions
<1>4. txs' = [txs EXCEPT ![t] = changed]
  BY <1>2
<1> HIDE DEF tx, changed
<1>5. /\ txs' \in Seq(Transactions) /\ DOMAIN txs' = DOMAIN txs /\ txs'[t] = changed
      /\ \A u \in DOMAIN txs : u # t => txs'[u] = txs[u]
  <2>1. Len(txs') = Len(txs) /\ DOMAIN txs' = DOMAIN txs /\ txs'[t] = changed
    BY <1>1, <1>4
  <2>2. \A u \in DOMAIN txs : u # t => txs'[u] = txs[u]
    BY <1>4
  <2>3. txs' \in Seq(Transactions)
    BY <1>1, <1>3, <1>4, ExceptSeq
  <2> QED
    BY <2>1, <2>2, <2>3
<1>6. book' \in Book
  <2>1. book \in Book /\ now \in Nat
    BY DEF AgentInv, AgentTypeOK
  <2> QED
    BY <1>1, <1>2, <2>1, AcceptedBook
<1>7. AgentTypeOK'
  BY <1>5, <1>6 DEF AgentInv, AgentTypeOK, Include
<1>8. ASSUME NEW r \in Runs PROVE RunOK(r)'
  <2>1. RunOK(r) /\ Order(r)' = Order(r)
    BY DEF AgentInv, Order, Include
  <2> QED
    BY <2>1 DEF RunOK, Recorded, Include
<1>9. ASSUME NEW u \in DOMAIN txs PROVE TxOK(u)'
  <2>1. TxOK(u) /\ txs'[u].run = txs[u].run /\ txs'[u].order = txs[u].order
    BY <1>3, <1>5 DEF AgentInv, tx
  <2>2. Order(txs[u].run)' = Order(txs[u].run)
    BY <2>1 DEF Order, Include
  <2> QED
    BY <2>1, <2>2 DEF TxOK, Recorded, Include
<1> QED
  BY <1>2, <1>3, <1>5, <1>7, <1>8, <1>9 DEF AgentInv, tx

\* Only the inclusion of a transaction changes what became of one.
LEMMA NextAgent ==
  ASSUME AgentInv, [AgentNext]_agentVars
  PROVE  /\ AgentInv'
         /\ \A t \in Settling : Include(t) /\ Settling = {t}
<1>1. ASSUME UNCHANGED txs PROVE Settling = {}
  BY <1>1 DEF Settling, Pending
<1>2. CASE UNCHANGED agentVars
  <2>1. AgentInv'
    BY <1>2 DEF AgentInv, AgentTypeOK, RunOK, TxOK, Recorded, Order, agentVars, marketVars
  <2> QED
    BY <1>1, <1>2, <2>1 DEF agentVars
<1>3. CASE (Tick \/ Move) /\ UNCHANGED <<runs, txs, accountNonce, audit>>
  BY <1>1, <1>3, OthersKeepAgent
<1>4. ASSUME NEW t \in DOMAIN txs, Include(t)
      PROVE  AgentInv' /\ \A u \in Settling : Include(u) /\ Settling = {u}
  <2>1. AgentInv' /\ \A u \in DOMAIN txs : u # t => txs'[u] = txs[u]
    BY <1>4, IncludeKeepsAgent
  <2>2. \A u \in Settling : u = t
    BY <2>1 DEF Settling, Pending
  <2> QED
    BY <1>4, <2>1, <2>2
<1>5. ASSUME NEW r \in Runs, Send(r)
      PROVE  AgentInv' /\ Settling = {}
  <2>1. AgentInv'
    BY <1>5, SendKeepsAgent
  <2>2. ASSUME NEW t \in DOMAIN txs, NEW tx, txs' = Append(txs, tx) PROVE txs'[t] = txs[t]
    BY <2>2 DEF AgentInv, AgentTypeOK
  <2> QED
    BY <1>1, <1>5, <2>1, <2>2 DEF Send, Settling, Pending
<1>6. ASSUME NEW r \in Runs,
             \/ Observe(r) \/ (\E a \in Actions : Decide(r, a))
             \/ Refresh(r) \/ Validate(r) \/ RecordBroadcast(r)
             \/ Confirm(r) \/ TimeOut(r) \/ Raise(r) \/ Kill(r)
      PROVE  AgentInv' /\ UNCHANGED txs
  <2>1. CASE Observe(r)
    BY <2>1, ObserveKeepsAgent DEF Observe
  <2>2. ASSUME NEW a \in Actions, Decide(r, a) PROVE AgentInv' /\ UNCHANGED txs
    BY <2>2, DecideKeepsAgent DEF Decide
  <2>3. CASE Refresh(r)
    BY <2>3, RefreshKeepsAgent DEF Refresh
  <2>4. CASE Validate(r)
    BY <2>4, ValidateKeepsAgent DEF Validate
  <2>5. CASE RecordBroadcast(r)
    BY <2>5, BroadcastKeepsAgent DEF RecordBroadcast
  <2>6. CASE Confirm(r)
    <3>1. End(r, "done") \/ End(r, "rejected")
      BY <2>6 DEF Confirm
    <3> QED
      BY <2>6, <3>1, EndKeepsAgent DEF Confirm, Ended
  <2>7. CASE TimeOut(r)
    BY <2>7, TimeOutKeepsAgent DEF TimeOut
  <2>8. CASE Raise(r)
    BY <2>8, EndKeepsAgent DEF Raise, Ended
  <2>9. CASE Kill(r)
    <3>1. audit' \subseteq AuditRecords
      BY <2>9 DEF Kill, AgentInv, AgentTypeOK
    <3> QED
      BY <2>9, <3>1, RunEnds DEF Kill, Ended
  <2> QED
    BY <1>6, <2>1, <2>2, <2>3, <2>4, <2>5, <2>6, <2>7, <2>8, <2>9
<1> QED
  BY <1>1, <1>2, <1>3, <1>4, <1>5, <1>6 DEF AgentNext

LEMMA AgentInvariant == AgentSpec => []AgentInv
<1>1. AgentInv /\ [AgentNext]_agentVars => AgentInv'
  BY NextAgent
<1> QED
  BY <1>1, InitAgent, PTL DEF AgentSpec

\* The market, the runs, the transactions and the audit file are well-formed.
THEOREM AgentTypeCorrect == AgentSpec => []AgentTypeOK
<1>1. AgentInv => AgentTypeOK
  BY DEF AgentInv
<1> QED
  BY <1>1, AgentInvariant, PTL

\* What a trade moves in the account is its quote.
LEMMA PaidIsQuote ==
  ASSUME AgentInv, [AgentNext]_agentVars, NEW t \in Settling
  PROVE  LET o == txs[t].order
             usd == Quote(book, o.amount, o.buy)
         IN  /\ t \in DOMAIN txs /\ o \in Orders /\ usd \in Nat
             /\ Accepts(book, o, now) /\ book' = Traded(book, o)
             /\ book' \in Book /\ now' = now
             /\ Absolute(book'.usd - book.usd) = usd
<1> DEFINE o == txs[t].order
           usd == Quote(book, o.amount, o.buy)
<1>1. t \in DOMAIN txs /\ txs'[t].status = "mined"
  BY DEF Settling, Pending
<1>2. Include(t) /\ AgentInv'
  BY NextAgent
<1>3. Accepts(book, o, now) /\ book' = Traded(book, o)
  BY <1>1, <1>2, IncludeKeepsAgent
<1>4. o \in Orders /\ book \in Book /\ book' \in Book
  <2>1. txs[t] \in Transactions
    BY <1>1 DEF AgentInv, AgentTypeOK
  <2> QED
    BY <1>2, <2>1 DEF AgentInv, AgentTypeOK, Transactions
<1>5. usd \in Nat
  BY <1>3, <1>4, QuoteNat DEF Accepts, Fresh, Orders
<1> HIDE DEF usd
<1>6. book'.usd = IF o.buy THEN book.usd - usd ELSE book.usd + usd
  <2>1. CASE o.buy
    BY <1>3, <1>4, <2>1 DEF Traded, Book, usd
  <2>2. CASE ~o.buy
    BY <1>3, <1>4, <2>2 DEF Traded, Book, usd
  <2> QED
    BY <2>1, <2>2
<1>7. Absolute(book'.usd - book.usd) = usd
  <2>1. book.usd \in Nat
    BY <1>4 DEF Book
  <2> HIDE DEF o
  <2> QED
    BY <1>5, <1>6, <2>1 DEF Absolute
<1> QED
  BY <1>1, <1>2, <1>3, <1>4, <1>5, <1>7 DEF Include, usd

\* Whatever moved between the observation and the block, and however many runs
\* were approved side by side, a trade that settles is within the limits of size
\* and exposure, on a price that is fresh when it settles.
THEOREM AgentStaysWithinPolicy == AgentSpec => TradesWithinPolicy
<1>1. ASSUME AgentInv, [AgentNext]_agentVars, Settling # {}
      PROVE  LET paid == Absolute(book'.usd - book.usd) * PriceUnit
             IN  /\ book.answer > 0 /\ now - book.updatedAt \in 0 .. MaxOracleAge
                 /\ paid * Bps <= Nav(book) * MaxSingleTradeBps
                 /\ book'.cot * book.answer * Bps <= Nav(book') * MaxExposureBps
                 /\ book'.cot >= 0 /\ book'.usd >= 0
  <2>1. PICK t \in Settling : TRUE
    BY <1>1
  <2> DEFINE o == txs[t].order
             usd == Quote(book, o.amount, o.buy)
  <2>2. /\ Accepts(book, o, now) /\ book' = Traded(book, o)
        /\ Absolute(book'.usd - book.usd) = usd
    BY <1>1, PaidIsQuote
  <2>3. now \in Nat /\ book.updatedAt \in Nat /\ MaxOracleAge \in Nat
    BY <1>1, MarketAssumption DEF AgentInv, AgentTypeOK, Book
  <2>4. book.answer > 0 /\ now - book.updatedAt \in 0 .. MaxOracleAge
    BY <2>2, <2>3 DEF Accepts, Fresh
  <2>5. usd * PriceUnit * Bps <= Nav(book) * MaxSingleTradeBps
    BY <2>2 DEF Accepts, PortfolioBounds
  <2>6. /\ book'.cot * book.answer * Bps <= Nav(book') * MaxExposureBps
        /\ book'.cot >= 0 /\ book'.usd >= 0
    BY <2>2 DEF Accepts, PortfolioBounds
  <2> QED
    BY <2>2, <2>4, <2>5, <2>6
<1> QED
  BY <1>1, AgentInvariant, PTL DEF AgentSpec, TradesWithinPolicy

\* A trade that settles has its validated record in the audit file, respects the
\* bound of that record, and after its run gave up settles in no second but the
\* last of its deadline.
THEOREM TradesAreAsValidated == AgentSpec => TradesAsValidated
<1>1. ASSUME AgentInv, [AgentNext]_agentVars, NEW t \in Settling
      PROVE  runs[txs[t].run].phase = "timedOut" => now = txs[t].order.deadline
  <2>1. t \in DOMAIN txs /\ txs[t].order \in Orders /\ now <= txs[t].order.deadline
    BY <1>1, PaidIsQuote DEF Accepts
  <2>2. now \in Nat /\ TxOK(t)
    BY <1>1, <2>1 DEF AgentInv, AgentTypeOK
  <2> QED
    BY <2>1, <2>2 DEF TxOK, Orders
<1>2. ASSUME AgentInv, [AgentNext]_agentVars, NEW t \in Settling
      PROVE  \E entered \in audit :
               LET o == txs[t].order
                   paid == Absolute(book'.usd - book.usd)
               IN  /\ entered.run = txs[t].run /\ entered.order = o
                   /\ IF o.buy
                        THEN (paid - 1) * PriceUnit * Bps
                               < o.amount * entered.price * (Bps + MaxSlippageBps)
                        ELSE (paid + 1) * PriceUnit * Bps
                               > o.amount * entered.price * (Bps - MaxSlippageBps)
  <2> DEFINE o == txs[t].order
             paid == Absolute(book'.usd - book.usd)
  <2>1. /\ t \in DOMAIN txs /\ o \in Orders /\ paid \in Nat
        /\ paid = Quote(book, o.amount, o.buy) /\ Accepts(book, o, now)
    BY <1>2, PaidIsQuote
  <2>2. PICK entered \in audit :
          entered.run = txs[t].run /\ entered.order = o /\ Justified(o, entered.price)
    BY <1>2, <2>1 DEF AgentInv, TxOK, Recorded
  <2>3. entered.price \in Int /\ o.bound \in Int /\ o.amount \in Nat
    BY <1>2, <2>1, <2>2 DEF AgentInv, AgentTypeOK, AuditRecords, Orders
  <2>4. IF o.buy THEN paid <= o.bound ELSE paid >= o.bound
    BY <2>1 DEF Accepts, WithinBound
  <2> HIDE DEF o, paid
  <2>5. IF o.buy
          THEN (paid - 1) * PriceUnit * Bps
                 < o.amount * entered.price * (Bps + MaxSlippageBps)
          ELSE (paid + 1) * PriceUnit * Bps
                 > o.amount * entered.price * (Bps - MaxSlippageBps)
    <3> DEFINE d == PriceUnit * Bps
               up == o.amount * entered.price * (Bps + MaxSlippageBps)
               down == o.amount * entered.price * (Bps - MaxSlippageBps)
    <3>1. d \in Nat \ {0} /\ up \in Int /\ down \in Int
      BY <2>3, MarketAssumption, PolicyAssumption
    <3>2. \A n \in Int : n * PriceUnit * Bps = d * n
      BY MarketAssumption
    <3>3. IF o.buy THEN d * (o.bound - 1) < up ELSE d * (o.bound + 1) > down
      BY <2>2, <2>3, <3>2 DEF Justified
    <3>4. IF o.buy THEN d * (paid - 1) <= d * (o.bound - 1)
                   ELSE d * (o.bound + 1) <= d * (paid + 1)
      <4> HIDE DEF d
      <4> QED
        BY <2>1, <2>3, <2>4, <3>1, Ordered
    <3>5. IF o.buy THEN d * (paid - 1) < up ELSE d * (paid + 1) > down
      <4> HIDE DEF d, up, down
      <4> QED
        BY <2>1, <2>3, <3>1, <3>3, <3>4
    <3> QED
      BY <2>1, <2>3, <3>2, <3>5
  <2> QED
    BY <2>2, <2>5 DEF o, paid
<1>3. AgentInv /\ [AgentNext]_agentVars =>
        \A t \in Settling :
          /\ runs[txs[t].run].phase = "timedOut" => now = txs[t].order.deadline
          /\ \E record \in audit :
               LET o == txs[t].order
                   paid == Absolute(book'.usd - book.usd)
               IN  /\ record.run = txs[t].run /\ record.order = o
                   /\ IF o.buy
                        THEN (paid - 1) * PriceUnit * Bps
                               < o.amount * record.price * (Bps + MaxSlippageBps)
                        ELSE (paid + 1) * PriceUnit * Bps
                               > o.amount * record.price * (Bps - MaxSlippageBps)
  BY <1>1, <1>2
<1> QED
  BY <1>3, AgentInvariant, PTL DEF AgentSpec, TradesAsValidated

\* In every state of the agent's market, what its policy approves the contract
\* accepts, at the cost that was predicted.
THEOREM AgentTradesAreAccepted == AgentSpec => []ApprovedIsAccepted
<1>1. AgentInv => ApprovedIsAccepted
  BY ApprovedAccepted DEF AgentInv, AgentTypeOK
<1> QED
  BY <1>1, AgentInvariant, PTL
=============================================================================
