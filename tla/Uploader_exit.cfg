SPECIFICATION Spec
CONSTANTS
  p1 = p1
  p2 = p2
  f1 = f1
  f2 = f2
  g = g
  foo = foo
  bar = bar
  here = here
  there = there
  None = None
  Pipelines <- MCPipelines
  Files <- MCFiles
  Bases <- MCBases
  Base <- MCBase
  Prefixes <- MCPrefixes
  MaxFiles = 2
  MaxAttempts = 2
INVARIANTS
  TypeOK
  ReportsAreWhole
  ExitMeansReported
  ReportedObjectsAreOwn
CHECK_DEADLOCK FALSE
