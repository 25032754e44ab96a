\* One handle that is renewed and extended: a TTL of 3 renewed every 1, timers up to 1
\* late. The renewal keeps the lock; a key its holder abandoned lapses.
SPECIFICATION FairSpec
CONSTANTS
  Service = {s1}
  Handle = {h1}
  Home <- OneProcess
  Scoped = {h1}
  Retrying = {h1}
  Renewed = {h1}
  Extending = {h1}
  NoOwner = NoOwner
  Ttl = 3
  ExtendTtls = {3}
  RenewEvery = 1
  MaxRetries = 0
  InitialDelay = 1
  MaxDelay = 1
  Multiplier = 2
  WaitTimeout = 0
  MaxFaults = 1
  Rtt = 0
  Lag = 1
PROPERTY AbandonedLockLapses
INVARIANT RenewalKeepsLock

