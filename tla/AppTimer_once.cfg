\* A single-shot timer and an RTC1 handler that may be late by a whole timeout.
SPECIFICATION FairSpec
CONSTANTS
  NTimers = 1
  Periodic = {}
  Timeout = {5}
  Starter = {2}
  Stopper = {}
  AllStopper = {}
  OpQueueSize = 1
  CounterMod = 32
  CompareOffset = 3
  MinTimeout = 5
  MaxLatency = 5
  MaxLag = 15
INVARIANTS SingleShotOnce
