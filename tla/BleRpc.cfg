\* Two different calls, a queue of one event and one receive buffer more.
SPECIFICATION RpcFairSpec
CONSTANTS
  app = app
  conn = conn
  OpCode = {op1, op2}
  NoOpCode = NoOpCode
  NoPacket = NoPacket
  Peers = {app, conn}
  PacketsOf <- RpcPackets
  SeqCount = 2
  MaxRetry = 1
  EventQueueSize = 1
  RxQueueSize = 2
  MaxSent = 2
  Preemptible = {app, conn}
  Deferring = {conn}
  Noisy = {conn}
 
INVARIANTS ResponseClaimed BuffersOwned
CHECK_DEADLOCK FALSE
