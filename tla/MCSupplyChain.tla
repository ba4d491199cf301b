---------------------------- MODULE MCSupplyChain ----------------------------
EXTENDS SupplyChain, TLC

Symmetry == Permutations(Keys) \cup Permutations(EthTxs) \cup Permutations(NftIds)
              \cup Permutations(Certs) \cup Permutations(Warehouses)

\* Bound: at most one of the three keys becomes a product, since no function
\* reads two of them.
FewProducts == Cardinality({k \in Keys : IsProduct(k)}) <= 1
=============================================================================
