---------------------------- MODULE DemoCotMarket ----------------------------
(***************************************************************************)
(* The venue of the treasury agent: DemoCotMarket, DemoPriceFeed and the   *)
(* balances they move, with one trading account.  What a call sees is a    *)
(* book, so that the operators serve a block of the past as well.          *)
(* Valuations are exact integers in units of price * COT; PriceUnit of     *)
(* them are a unit of USD.  Bps is what the contract writes 10000.         *)
(***************************************************************************)
EXTENDS Integers

CONSTANTS
  Bps, FeeBps, MaxExposureBps, MaxSingleTradeBps,
  MaxOracleAge, MinLiquidityUsd, PriceUnit,
  Prices,      \* what the owner of the feed may set
  Books,       \* the initial books
  MaxTime,     \* bound of the clock
  MaxMoves     \* bound: moves of everybody but the account

\* A book: the feed's answer is signed, amounts of tokens are not.
Book == [answer : Int, updatedAt : Nat, cot : Nat, usd : Nat,
         allowance : [cot : Nat, usd : Nat], poolCot : Nat, poolUsd : Nat,
         mirrored : BOOLEAN]

ASSUME MarketAssumption ==
  /\ Bps \in Nat \ {0} /\ PriceUnit \in Nat \ {0}
  /\ FeeBps \in 0 .. Bps - 1
  /\ {MaxExposureBps, MaxSingleTradeBps} \subseteq 0 .. Bps
  /\ {MaxOracleAge, MinLiquidityUsd, MaxTime, MaxMoves} \subseteq Nat
  /\ Prices \subseteq Int /\ Books \subseteq Book

VARIABLES
  now,    \* the clock, of blocks and of the agent's machine
  book,   \* answer, updatedAt: the feed; cot, usd, allowance: the account;
          \* poolCot, poolUsd: the market; mirrored: see Mirror
  moves   \* how often others have moved the book

marketVars == <<now, book, moves>>

-----------------------------------------------------------------------------
(* The contract                                                            *)

\* Variant: both directions are rounded down.
QuoteDown(s, amount, isBuy) ==
  (amount * s.answer * (IF isBuy THEN Bps + FeeBps ELSE Bps - FeeBps))
    \div (Bps * PriceUnit)

\* Price and fee, rounded against the trader.
Quote(s, amount, isBuy) ==
  LET numerator == amount * s.answer * (IF isBuy THEN Bps + FeeBps ELSE Bps - FeeBps)
      denominator == Bps * PriceUnit
  IN  IF isBuy THEN (numerator + denominator - 1) \div denominator
               ELSE numerator \div denominator

Fresh(s, time) ==
  /\ s.updatedAt > 0 /\ s.updatedAt <= time
  /\ time - s.updatedAt <= MaxOracleAge
  /\ s.answer > 0

Nav(s) == s.cot * s.answer + s.usd * PriceUnit

\* The book after a trade of the account.
Traded(s, o) ==
  LET usd == Quote(s, o.amount, o.buy)
  IN  IF o.buy
        THEN [s EXCEPT !.cot = @ + o.amount, !.usd = @ - usd, !.poolCot = @ - o.amount,
                       !.poolUsd = @ + usd, !.allowance.usd = @ - usd]
        ELSE [s EXCEPT !.cot = @ - o.amount, !.usd = @ + usd, !.poolCot = @ + o.amount,
                       !.poolUsd = @ - usd, !.allowance.cot = @ - o.amount]

Liquid(s) ==
  /\ s.poolUsd >= MinLiquidityUsd
  /\ s.poolCot * s.answer >= MinLiquidityUsd * PriceUnit

\* Variant: the contract leaves the portfolio to the agent's policy.
LiquidityOnly(s, o) == Liquid(s) /\ Traded(s, o).cot >= 0 /\ Traded(s, o).usd >= 0

PortfolioBounds(s, o) ==
  LET after == Traded(s, o)
      usdAmount == Quote(s, o.amount, o.buy)
  IN  /\ Liquid(s)
      /\ usdAmount * PriceUnit * Bps <= Nav(s) * MaxSingleTradeBps
      /\ after.cot >= 0 /\ after.usd >= 0
      /\ after.cot * s.answer * Bps <= Nav(after) * MaxExposureBps

\* MAX_SLIPPAGE
WithinBound(s, o) ==
  LET usd == Quote(s, o.amount, o.buy)
  IN  IF o.buy THEN usd <= o.bound ELSE usd >= o.bound

\* What the ERC-20 transfers of the trade need.
Transferable(s, o) ==
  LET after == Traded(s, o)
  IN  /\ after.poolCot >= 0 /\ after.poolUsd >= 0
      /\ after.allowance.usd >= 0 /\ after.allowance.cot >= 0

\* buy or sell.  Its test of the global backing never fails: that is
\* CotReserve's GlobalBacking.
Accepts(s, o, time) ==
  /\ time <= o.deadline
  /\ o.amount > 0
  /\ Fresh(s, time)
  /\ WithinBound(s, o)
  /\ PortfolioBounds(s, o)
  /\ Transferable(s, o)

-----------------------------------------------------------------------------
(* Everybody but the account                                               *)

Tick == now < MaxTime /\ now' = now + 1 /\ UNCHANGED <<book, moves>>

\* The feed takes any price with any time.
SetPrice(price, time) ==
  book' = [book EXCEPT !.answer = price, !.updatedAt = time]

\* Another trader buys or sells.
OthersTrade(amount, isBuy) ==
  LET usd == Quote(book, amount, isBuy)
  IN  /\ Fresh(book, now) /\ Liquid(book)
      /\ IF isBuy THEN book.poolCot >= amount ELSE book.poolUsd >= usd
      /\ book' = IF isBuy
                   THEN [book EXCEPT !.poolCot = @ - amount, !.poolUsd = @ + usd]
                   ELSE [book EXCEPT !.poolCot = @ + amount, !.poolUsd = @ - usd]

\* The account's owner takes COT out of it.
Withdraw(amount) == book.cot >= amount /\ book' = [book EXCEPT !.cot = @ - amount]

\* A batch is verified on Fabric, or its attestation catches up with it.
Mirror == book' = [book EXCEPT !.mirrored = ~@]

Move ==
  /\ moves < MaxMoves
  /\ moves' = moves + 1
  /\ \/ \E price \in Prices, time \in {now, now + 1} : SetPrice(price, time)
     \/ \E isBuy \in BOOLEAN : OthersTrade(1, isBuy)
     \/ Withdraw(1)
     \/ Mirror
  /\ UNCHANGED now

MarketInit == now = 1 /\ book \in Books /\ moves = 0
=============================================================================
