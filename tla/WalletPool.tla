----------------------------- MODULE WalletPool -----------------------------
(***************************************************************************)
(* The bridge's one wallet as its Ethereum node sees it, and the ethers    *)
(* NonceManager in front of it.  Neither is code of this repository: this  *)
(* is what bridge.js relies on when it sends through transactionSigner.    *)
(***************************************************************************)
EXTENDS Integers, Sequences

CONSTANTS
  MaxSends,   \* bound: transactions ever sent
  MaxNonce,   \* bound, greater than MaxSends: see NextAfter
  Null

VARIABLES
  txs,            \* the wallet's transactions; the index stands for the hash
  accountNonce,   \* the nonce of its next transaction to be included
  nextNonce       \* the NonceManager's next nonce; Null until it asked the node

Pending == {t \in DOMAIN txs : txs[t].status = "pending"}

TakenNonces == {txs[t].nonce : t \in Pending}

\* eth_getTransactionCount(pending): the first nonce that is free.
PendingNonce ==
  CHOOSE n \in accountNonce .. accountNonce + MaxSends :
    n \notin TakenNonces /\ accountNonce .. n - 1 \subseteq TakenNonces

\* NonceManager.getNonce: asks the node once and counts by itself afterwards.
Nonce == IF nextNonce = Null THEN PendingNonce ELSE nextNonce

\* NonceManager.increment.  The account never gets to MaxNonce, so every count
\* from there on is ahead of the account and they need not be told apart.
NextAfter(n) == IF n < MaxNonce THEN n + 1 ELSE n

\* The nonce is counted before the gas estimate, which fails where the call
\* would revert: nothing is sent, the nonce is gone.
EstimateFails ==
  /\ nextNonce' = NextAfter(Nonce)
  /\ UNCHANGED <<txs, accountNonce>>

\* The node refuses a nonce that is pending, and may refuse one that is ahead.
Refused ==
  /\ Nonce \in TakenNonces \/ Nonce > PendingNonce
  /\ EstimateFails

\* NONCE_EXPIRED, the one error after which the bridge resets the NonceManager.
Expired ==
  /\ Nonce < accountNonce
  /\ nextNonce' = Null
  /\ UNCHANGED <<txs, accountNonce>>

\* Into the pool, where a nonce ahead of the account waits for those before it.
Broadcast(action) ==
  /\ Len(txs) < MaxSends
  /\ Nonce \notin TakenNonces /\ Nonce >= PendingNonce
  /\ txs' = Append(txs, [nonce |-> Nonce, action |-> action, status |-> "pending"])
  /\ nextNonce' = NextAfter(Nonce)
  /\ UNCHANGED accountNonce

\* Inclusion in a block, in nonce order.
Include(t, status) ==
  /\ t \in Pending
  /\ txs[t].nonce = accountNonce
  /\ accountNonce' = accountNonce + 1
  /\ txs' = [txs EXCEPT ![t].status = status]
  /\ UNCHANGED nextNonce

Init == txs = <<>> /\ accountNonce = 0 /\ nextNonce = Null

TypeOK(Actions) ==
  /\ txs \in Seq([nonce : 0 .. MaxNonce, action : Actions,
                  status : {"pending", "mined", "reverted"}])
  /\ Len(txs) <= MaxSends
  /\ accountNonce \in 0 .. MaxSends
  /\ nextNonce \in (0 .. MaxNonce) \cup {Null}

\* The signer counts on from a nonce that no transaction of the account has.
NonceGap == nextNonce # Null /\ nextNonce > PendingNonce
=============================================================================
