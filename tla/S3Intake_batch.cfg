SPECIFICATION S3Spec
CONSTANTS
  m1 = m1
  m2 = m2
  o1 = o1
  o2 = o2
  Messages <- MCMessages
  Requests = {}
  None = None
  BatchSize = 2
  MaxReceives = 2
  MaxRestarts = 1
  Objects <- MCObjects
  Records <- MCRecords
  Malformed = Malformed
  MaxVersion = 2
INVARIANTS
  S3TypeOK
  OneEventPerClient
  EvaluatedAsNotified
PROPERTIES
  AtLeastOnce
  ImplementsIntake
CHECK_DEADLOCK FALSE
