\* Three keys, so that a batch can meet two requests, with every choice of
\* warehouse, certificate, receipt and token id.
CONSTANTS
  Keys = {k1, k2, k3}
  Farm = farm
  Warehouses = {w1, w2}
  MaxKg = 2
  Certs = {c1, c2}
  EthTxs = {e1, e2}
  NftIds = {n1, n2}
  MintTerms = {m1}
  MaxEvents = 3
  Null = Null
SYMMETRY Symmetry
CONSTRAINT FewProducts
SPECIFICATION Spec
INVARIANTS TypeOK RequestsFaithful NFTStateAgrees
PROPERTIES CottonLifecycle AcknowledgmentsFinal
CHECK_DEADLOCK FALSE
