\* Idempotency keys, and the rate limit of one key, one per behaviour.
\* Three requests, the third with another payload, fail-open, one lost command or crash;
\* skewless clocks, and handlers that may or may not end inside the lock window. Three requests
\* to a route with the guard bound twice; half seconds, scripts up to half a second late.
SPECIFICATION MCSpec
CONSTANTS
  Parts = {"keys", "rates"}
  r1 = r1
  r2 = r2
  r3 = r3
  p1 = p1
  p2 = p2
  NoReq = NoReq
  Req = {r1, r2, r3}
  Payload <- ThirdDiffers
  Sorted = {}
  Past = {}
  Skew <- NoSkew
  LockTimeout = 3
  WaitTimeout = 3
  PollEvery = 1
  CompleteTtl = 4
  FailTtl = 3
  Validate = TRUE
  FailOpen = TRUE
  Rtt = 1
  HandlerTime = 1
  MaxFaults = 1
  Horizon = 6
  None = None
  Caller = {1, 2, 3}
  Algorithms = {"fixed", "sliding", "token"}
  Policies = {"open", "closed"}
  Limits = {2}
  Duration = 2
  Rate = 3
  PeekRate = 2
  Per = 2
  S = 2
  Lag = 1
  Bindings = 2
  MaxTime = 4
  Faults = 1
  Resets = 1
SYMMETRY FirstTwo
INVARIANTS RecordExpires NoParallelRuns NeverOverLimit AnswersHonest
PROPERTIES OneWinnerPerWindow AnswersFinal
CHECK_DEADLOCK FALSE
