---------------------------- MODULE BackedClaims ----------------------------
(***************************************************************************)
(* What the reserve registry and the COT token promise together, with the  *)
(* batches forgotten: an attested capacity, the claims ever issued against *)
(* it, and the tokens in circulation.  A claim is issued only within the   *)
(* capacity, the capacity is never taken below the claims, and a burned    *)
(* token never gives its claim back.                                       *)
(***************************************************************************)
EXTENDS Integers

VARIABLES capacity, claims, supply

vars == <<capacity, claims, supply>>

Init == capacity = 0 /\ claims = 0 /\ supply = 0

\* The attestor moves the capacity, but never below what is already claimed.
SetCapacity ==
  /\ capacity' \in Nat
  /\ claims <= capacity'
  /\ UNCHANGED <<claims, supply>>

\* A mint issues the same number of claims and of tokens.
Issue ==
  /\ claims < claims'
  /\ claims' <= capacity
  /\ supply' - supply = claims' - claims
  /\ UNCHANGED capacity

\* Holders destroy tokens; the claims stay.
Burn ==
  /\ supply' \in Nat
  /\ supply' < supply
  /\ UNCHANGED <<capacity, claims>>

Next == SetCapacity \/ Issue \/ Burn

Spec == Init /\ [][Next]_vars
=============================================================================
