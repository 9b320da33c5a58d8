\* Negotiation on connect (main.c) or on a notification (the library): at most 1
\* update request, 2 connections, 2 unread events.
SPECIFICATION Spec
CONSTANTS
  Interval = {"slow", "fast"}
  Preferred = "slow"
  Request = {"SEC_PARAMS_REQUEST"}
  Notify = {"on", "off"}
  MaxSdEvents = 2
  MaxConn = 2
  MaxUpdateCount = 1
  CountMod = 256
  SchedQueueSize = 2
  Usages = {"firmware", "library"}
  PromptMain = FALSE
INVARIANTS TypeOK EventsAnnounced QuietAgreement AdvertisingNeverRefused NegotiationAlive FailedAfterAllAttempts
