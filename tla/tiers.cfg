\* Three operations: one writes or reads, one removes or reads, one of another process
\* writes, reads or deletes; a tag set outlives the copies in memory; one lost command, lost answer or crash.
\* Or, below the tiers, the commands and scripts of both drivers, or the keys of the in-memory one.
SPECIFICATION MCSpec
CONSTANTS
  Parts = {"tiers", "commands", "scripts", "keyspace"}
  k1 = k1
  k2 = k2
  g = g
  o1 = o1
  o2 = o2
  o3 = o3
  p = p
  q = q
  None = None
  Key = {k1, k2}
  Tag = {g}
  TagOf <- Tagged
  Op = {o1, o2, o3}
  Process = {p, q}
  Home <- TwoWriters
  Kinds <- KindsMixed
  Ttls = {2}
  L1Ttl = 1
  TagTtl = 3
  PatternKeys = {k1}
  PatternTags = {g}
  MaxDelay = 0
  Faults = 1
INVARIANTS ServedBriefly RemovalsReach SentAsMeant
