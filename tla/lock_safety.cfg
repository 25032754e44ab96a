\* Two handles of one process, one of them renewed, arbitrary delays, one fault: every
\* interleaving of acquire, renewal, release, shutdown, crash and forced release.
SPECIFICATION Spec
CONSTANTS
  Service = {s1}
  Handle = {h1, h2}
  Home <- OneProcess
  Scoped = {h1}
  Retrying = {h1, h2}
  Renewed = {h1}
  Extending = {}
  NoOwner = NoOwner
  Ttl = 2
  ExtendTtls = {}
  RenewEvery = 1
  MaxRetries = 1
  InitialDelay = 1
  MaxDelay = 1
  Multiplier = 2
  WaitTimeout = 2
  MaxFaults = 1
  Rtt = 0
  Lag = 0
INVARIANTS LeaseHeld ReleasedNeverOwns
PROPERTY ImplementsLease
