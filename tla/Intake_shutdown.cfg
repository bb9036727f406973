SPECIFICATION FairSpec
CONSTANTS
  Messages = {m1}
  Requests = {q1}
  None = None
  BatchSize = 2
  MaxReceives = 1
  MaxRestarts = 0
PROPERTIES
  ListenerStops
CHECK_DEADLOCK FALSE
