\* FAILED, and a disconnection, although the interval is acceptable.
SPECIFICATION FairSpec
CONSTANTS
  Interval = {"slow", "fast"}
  Preferred = "slow"
  Request = {}
  Notify = {}
  MaxSdEvents = 2
  MaxConn = 1
  MaxUpdateCount = 2
  CountMod = 256
  SchedQueueSize = 2
  Usages = {"firmware"}
  PromptMain = TRUE
INVARIANTS FailedOnlyWhenNotOk
