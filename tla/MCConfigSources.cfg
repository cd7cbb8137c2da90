SPECIFICATION SourcesSpec
CONSTANTS
  Paths <- MCPaths
  Main = "main"
  Canonical <- MCCanonical
  Trees <- MCTrees
  Naming <- MCNaming
  MaxCalls = 5
INVARIANTS SourcesExact   OverviewExact
PROPERTY WalkEnds
CHECK_DEADLOCK FALSE
