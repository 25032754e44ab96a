\* Calls for one key with stampede protection, or three calls on two keys in mode l1-only.
\* Three calls, two of them in one process: one loader that hangs, one lost command, one
\* deletion. Calls end, so the instance stops.
SPECIFICATION MCSpec
CONSTANTS
  Parts = {"stampede", "local"}
  c1 = c1
  c2 = c2
  c3 = c3
  p = p
  q = q
  None = None
  Key = {"x", "y"}
  Tagged = {"x", "y"}
  LocalCall = {1, 2, 3}
  Nothing = Nothing
  Call = {c1, c2, c3}
  Process = {p, q}
  Home <- ThreeHomes
  LockTimeout = 1
  WaitTimeout = 3
  Fallback = "load"
  WritesShared = TRUE
  MaxDelay = 0
  MaxLoad = 0
  Hangs = 1
  Faults = 1
  Versions = 2
  Drops = 1
INVARIANTS FlightsSound RemovedForGood
PROPERTY LoadsCovered
CHECK_DEADLOCK FALSE
