SPECIFICATION MSpec
CONSTANTS
  m1 = m1
  q1 = q1
  Messages <- MCMessages
  Requests <- MCRequests
  Events <- MCEvents
  None = None
  Policies = {p1}
  BatchSize = 1
  MaxReceives = 2
  MaxRestarts = 1
  MaxEvents = 2
  MaxReports = 1
  MaxValues = 1
  rejectPipelineThreshold = 1
  maxPipelinesPerPolicy = 1
CONSTRAINT Bounded
INVARIANTS
  MTypeOK
  RejectedLeavesNothing
  SoftLimit
PROPERTIES
  ServesClients
  Delivers
CHECK_DEADLOCK FALSE
