SPECIFICATION FairSpec
CONSTANTS
  Messages = {m1}
  Requests = {q1}
  None = None
  BatchSize = 2
  MaxReceives = 2
  MaxRestarts = 1
INVARIANTS
  TypeOK
  DeletedOnlyAfterEvaluation
  NoOrphanWaiter
PROPERTIES
  AcknowledgedIsReceived
  WaitersEnd
  UploadsReturn
CHECK_DEADLOCK FALSE
