\* A readable message and one that is not; one of two consumers may stop or die.
SPECIFICATION FairSpec
CONSTANTS
  None = None
  Msg = {m1, bad}
  Consumer = {c1, c2}
  Poison = {bad}
  Failing = {m1}
  Mortal = {c2}
  BatchSize = 2
  Concurrency = 1
  MaxRetries = 2
  DlqEnabled = TRUE
  Faults = 0
  Crashes = 1
  Slow = 0
  Mishaps = 1
  Requeues = 0
PROPERTY EventuallySettled
