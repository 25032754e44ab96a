\* The seven smaller parts of the cache, one per behaviour: three calls in two processes on an
\* entry that goes stale; a memory of three places and four keys; four decorated methods; keys
\* with a context; two deliveries of events; three strategies; values, lifetimes and tags of one
\* key, and of two in setMany().
SPECIFICATION MCSpec
CONSTANTS
  Parts = {"swr", "memory", "decorators", "keys", "events", "strategies", "values"}
  p = p
  q = q
  None = None
  Call = {1, 2, 3}
  Process = {p, q}
  Home <- TwoProcesses
  SwrOn = TRUE
  SieOn = TRUE
  Ttl = 1
  StaleTime = 1
  Window = 2
  L1Ttl = 1
  MaxDelay = 0
  MaxLoad = 1
  Versions = 2
  Faults = 1
  Hangs = 1
  Clears = 1
  k1 = k1
  k2 = k2
  k3 = k3
  k4 = k4
  v = v
  Message <- UserGone
  Rule <- ThreeRules
  Target = {"tag", "key"}
  Unresolved = Unresolved
  Worker = {"w1", "w2"}
  Amqp = TRUE
  MaxEmits = 2
  MaxMishaps = 1
  DecoratedCall = {r1, r2, w1, w2}
  Absent = Absent
  Kinds <- KindsOf
  MaxVersion = 3
  MaxErrors = 1
  r1 = r1
  r2 = r2
  w1 = w1
  w2 = w2
  Base = {"k", "bad"}
  Bad = {"bad"}
  Name = {"tenant", "locale"}
  Value = {"t1", "t_2"}
  Clean <- Cleaned
  Global = {"tenant"}
  Options <- CachedOptions
  Vary <- VaryBy
  Undefined = Undefined
  MaxEntries = 2
  Sep = ":"
  Blank = " "
  Braces = {"{", "}"}
INVARIANTS StaleBounded ReadsSeeChanges KeptAsAsked ContextKept MarkedIsDone
PROPERTY IsOrderedStore
CHECK_DEADLOCK FALSE
