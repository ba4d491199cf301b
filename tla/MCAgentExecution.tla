--------------------------- MODULE MCAgentExecution ---------------------------
EXTENDS AgentExecution, TLC

\* Two purchases of one COT fit each by itself, and together exceed the exposure.
OneBook ==
  {[answer |-> 20, updatedAt |-> 1, cot |-> 2, usd |-> 170,
    allowance |-> [cot |-> 1, usd |-> 100], poolCot |-> 3, poolUsd |-> 60,
    mirrored |-> TRUE]}

Symmetry == Permutations(Runs)
=============================================================================
