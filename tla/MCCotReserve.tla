---------------------------- MODULE MCCotReserve ----------------------------
EXTENDS CotReserveProofs, TLC

Symmetry == Permutations(Batches) \cup Permutations(FabricTxs)
              \cup Permutations(Provenances) \cup Permutations(Warehouses)
=============================================================================
