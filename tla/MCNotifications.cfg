\* Two connections and two of the five channels.
CONSTANTS
  Clients = {1, 2}
  Channels = {"batches", "system"}
  MaxHistory = 2
  MaxSent = 3
SPECIFICATION Spec
INVARIANT BroadcastReachesAll
CHECK_DEADLOCK FALSE
