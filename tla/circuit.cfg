\* Two callers and a reporter with calls much shorter than cooldown and probe timeout,
\* fail-open, one lost command or crash.
SPECIFICATION FairSpec
CONSTANTS
  Callers = {c1, c2}
  Reporters = {h}
  FailureThreshold = 2
  Window = 2
  OpenDuration = 4
  HalfOpenMaxCalls = 1
  SuccessThreshold = 1
  ProbeTimeout = 6
  MaxDelay = 1
  MaxRun = 1
  MaxIdle = 2
  IdleSlack = 1
  FailOpen = TRUE
  Faults = 1
INVARIANT ProbesDecide
PROPERTIES OpenHolds Recovers
