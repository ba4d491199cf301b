CONSTANTS
  Batches = {b1, b2}
  FabricTxs = {t1, t2}
  Provenances = {p1, p2}
  Warehouses = {w1, w2}
  MaxUint = 5
  Zero = Zero
SYMMETRY Symmetry
SPECIFICATION ReserveSpec
INVARIANTS ReserveTypeOK GlobalBacking BatchBacking TotalsExact BooksAgree
  ReplayProtection
PROPERTIES ProvenanceFixed ImplementsBackedClaims
