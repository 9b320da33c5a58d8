\* Liveness in the firmware configuration, over one connection.
SPECIFICATION FairSpec
CONSTANTS
  Interval = {"slow", "fast"}
  Preferred = "slow"
  Request = {}
  Notify = {}
  MaxSdEvents = 2
  MaxConn = 1
  MaxUpdateCount = 2
  CountMod = 256
  SchedQueueSize = 2
  Usages = {"firmware"}
  PromptMain = FALSE
PROPERTIES NegotiationConcludes AdvertisingResumes
