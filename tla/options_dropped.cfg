\* The options of every plugin, from the application to the services that read them: two of the
\* cache plugin do not arrive.
SPECIFICATION MCSpec
CONSTANTS
  Parts = {"options"}
  None = None
  GuardedCall = {1, 2}
  LockKey = {"a", "b"}
  Nobody = Nobody
  CallStacks <- GuardStacks
  GuardFaults = 1
  MetricName = {"hits"}
  ProcessName = {"cpu"}
  RedisClient = {"k1", "k2"}
  RedisCommand = {"c1"}
  Mutex = {"l1"}
  MaxStarts = 2
  MaxGauge = 1
  i1 = i1
  i2 = i2
  i3 = i3
  Id = {i1, i2, i3}
  FailureThreshold = 2
  Window = 2
  OpenDuration = 2
  HalfOpenMaxCalls = 2
  SuccessThreshold = 2
  ProbeTimeout = 3
  Skew = 0
  IdleSlack = 1
  MaxPause = 2
  Horizon = 8
INVARIANT OptionsArrive
CHECK_DEADLOCK FALSE
