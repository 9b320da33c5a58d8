\* Three levels and a queue of two entries (three slots of the ring).
SPECIFICATION FairSpec
CONSTANTS
  QueueSize = 2
  IndexMod = 8
  TopLevel = 2
  Event = {a, b}
  Oversize = {big}
  Junk = Junk
INVARIANTS TypeOK NoSlotRace HandlerDataStable NoLostWakeup
PROPERTIES ImplementsQueue EveryEventServed
