\* Two records and one buffer, so that a report has to wait; two connections.
SPECIFICATION FairSpec
CONSTANTS
  MaxRecords = 2
  TxBuffers = 1
  ByteMod = 8
  MaxMeas = 3
  MaxEvents = 2
  TidyLinks = TRUE
INVARIANTS DbConsistent ReportInOrder NeverStranded
PROPERTIES AnswerTrue RequestsAnswered
