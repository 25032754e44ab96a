\* The clients of a name, the life of an application, one per behaviour;
\* liveness under the fairness of the event loop, the network and Nest. A service may stop.
SPECIFICATION MCSpec
CONSTANTS
  Parts = {"clients", "app"}
  None = None
  Client = {1, 2}
  Caller = {"c1", "c2"}
  MaxAttempts = 2
  MaxBackoff = 1
  GivesUp = TRUE
  Outages = 1
  Drops = 1
INVARIANTS ClientsUsable StartsInOrder
PROPERTIES Recovers AppStops
CHECK_DEADLOCK FALSE
