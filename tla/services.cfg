\* The smaller parts outside the cache, one per behaviour: connections and plugins as they are
\* configured, guarded methods, subscriptions, metrics and traces, the in-memory driver (its
\* streams and bus), failures on their way to whoever called, and the two circuit breakers on the
\* same calls with equal clocks.
SPECIFICATION MCSpec
CONSTANTS
  Parts = {"setup", "options", "guards", "subscriptions", "observability", "streamvalue", "bus", "failures", "mirror"}
  None = None
  GuardedCall = {1, 2}
  LockKey = {"a", "b"}
  Nobody = Nobody
  CallStacks <- GuardStacks
  GuardFaults = 1
  MetricName = {"hits"}
  ProcessName = {"cpu"}
  RedisClient = {"k1"}
  RedisCommand = {"c1"}
  Mutex = {"l1"}
  MaxStarts = 2
  MaxGauge = 1
  i1 = i1
  i2 = i2
  i3 = i3
  Id = {i1, i2, i3}
  FailureThreshold = 2
  Window = 2
  OpenDuration = 2
  HalfOpenMaxCalls = 2
  SuccessThreshold = 2
  ProbeTimeout = 3
  Skew = 0
  IdleSlack = 1
  MaxPause = 2
  Horizon = 8
INVARIANTS SameDecision SameSnapshot ConfiguredAsMeant SettledLeavesNothing Delivered Observed ErrorsExplained
CHECK_DEADLOCK FALSE
