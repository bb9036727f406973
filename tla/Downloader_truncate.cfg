SPECIFICATION Spec
CONSTANTS
  top = top
  mid = mid
  leaf = leaf
  Paths <- MCPaths
  Above <- MCAbove
  MaxLayers = 2
  MaxEntries = 2
  MaxSize = 2
INVARIANTS
  FilesAreExact
CHECK_DEADLOCK FALSE
