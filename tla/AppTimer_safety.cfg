\* Two timers; APP_HIGH handlers start them, the main loop stops one or all.
SPECIFICATION Spec
CONSTANTS
  NTimers = 2
  Periodic = {2}
  Timeout = {3}
  Starter = {0}
  Stopper = {2}
  AllStopper = {2}
  OpQueueSize = 1
  CounterMod = 14
  CompareOffset = 2
  MinTimeout = 3
  MaxLatency = 2
  MaxLag = 5
INVARIANTS ListIsRunning DeadlineKept CompareArmed OpsAnnounced
PROPERTIES NeverEarly
VIEW Rotated
