---------------------------- MODULE RelayPromise ----------------------------
(***************************************************************************)
(* What the relay of tokenization requests promises: a request is approved *)
(* on Fabric, then minted by exactly one Ethereum transaction, then        *)
(* acknowledged on Fabric with the receipt of that transaction, and none   *)
(* of this is ever taken back or done twice.                               *)
(***************************************************************************)
CONSTANTS
  Requests,
  Receipts,
  Null

VARIABLES
  approved,      \* the requests approved so far
  mints,         \* per request: the transactions that minted for it
  acknowledged   \* per request: the receipt Fabric has recorded

vars == <<approved, mints, acknowledged>>

Init ==
  /\ approved = {}
  /\ mints = [r \in Requests |-> {}]
  /\ acknowledged = [r \in Requests |-> Null]

Approve(r) ==
  /\ r \notin approved
  /\ approved' = approved \cup {r}
  /\ UNCHANGED <<mints, acknowledged>>

Mint(r, receipt) ==
  /\ r \in approved
  /\ mints[r] = {}
  /\ \A q \in Requests : receipt \notin mints[q]
  /\ mints' = [mints EXCEPT ![r] = {receipt}]
  /\ UNCHANGED <<approved, acknowledged>>

Acknowledge(r) ==
  /\ acknowledged[r] = Null
  /\ \E receipt \in mints[r] :
       acknowledged' = [acknowledged EXCEPT ![r] = receipt]
  /\ UNCHANGED <<approved, mints>>

Next ==
  \E r \in Requests :
    Approve(r) \/ (\E receipt \in Receipts : Mint(r, receipt)) \/ Acknowledge(r)

Spec == Init /\ [][Next]_vars
=============================================================================
