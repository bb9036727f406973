SPECIFICATION Spec
CONSTANTS
  i1 = i1
  i2 = i2
  Items <- MCItems
  NoEach = NoEach
  MaxItems = 3
  MaxBefore = 1
  maxPipelinesPerPolicy = 2
INVARIANTS
  TypeOK
  OnePipelinePerItem
  
PROPERTIES
  ImplementsScheduler
CHECK_DEADLOCK FALSE
