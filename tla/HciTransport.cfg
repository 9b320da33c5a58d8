\* Both directions at once; the line is bad one way, and the second chip's user
\* runs in its thread, below the UART interrupt.
SPECIFICATION Spec
CONSTANTS
  first = first
  second = second
  m1 = m1
  m2 = m2
  m3 = m3
  NoPacket = NoPacket
  Peers = {first, second}
  PacketsOf <- ThreePackets
  SeqCount = 2
  MaxRetry = 1
  RxQueueSize = 1
  Preemptible = {second}
  Deferring = {second}
  Noisy = {second}
INVARIANTS TypeOK PendingHasSlip
PROPERTIES ImplementsChannel
VIEW Normal
SYMMETRY Interchangeable
