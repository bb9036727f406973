SPECIFICATION FairSpec
CONSTANTS
  Events = {e1, e2, e3}
  Policies = {p1}
  None = None
  MaxReports = 2
  MaxValues = 2
  rejectPipelineThreshold = 2
  maxPipelinesPerPolicy = 1
INVARIANTS
  TypeOK
  RejectedLeavesNothing
  SoftLimit
PROPERTIES
  ServesEvents
  KeepsServing
  EveryEventAnswered
CHECK_DEADLOCK FALSE
