\* One repeating timer started by the main loop.  Nothing bounds the lag.
SPECIFICATION FairSpec
CONSTANTS
  NTimers = 1
  Periodic = {1}
  Timeout = {3}
  Starter = {2}
  Stopper = {}
  AllStopper = {}
  OpQueueSize = 1
  CounterMod = 12
  CompareOffset = 2
  MinTimeout = 3
  MaxLatency = 1
  MaxLag = 12
PROPERTIES EveryTimerExpires
