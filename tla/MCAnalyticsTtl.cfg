\* A product read ages while batch metrics are stored again and again.
CONSTANTS
  TTLs = {2, 3}
  ReadTime = 1
  MaxCalls = 2
  MaxTime = 5
SPECIFICATION Spec
INVARIANTS MetricsFresh
CHECK_DEADLOCK FALSE
