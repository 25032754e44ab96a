\* One message that may fail, one failed command, one crash, one slow handler, one requeue.
SPECIFICATION Spec
CONSTANTS
  None = None
  Msg = {m1}
  Consumer = {c1, c2}
  Poison = {}
  Failing = {m1}
  Mortal = {c2}
  BatchSize = 1
  Concurrency = 1
  MaxRetries = 2
  DlqEnabled = TRUE
  Faults = 1
  Crashes = 1
  Slow = 1
  Mishaps = 1
  Requeues = 1
INVARIANTS MessagesKept WorkBounded
