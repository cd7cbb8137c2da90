SPECIFICATION ServicesSpec
CHECK_DEADLOCK FALSE
CONSTANTS
  MaxRuns = 2
  MaxStarts = 2
  Apart = TRUE
  Conns = {"c1"}
  Servers = {"root", "s1"}
  Root = "root"
  PtySize = 1
  OutSize = 1
  InboxSize = 1
INVARIANTS
  LoopsFollowCalls
  AbortsExplained
PROPERTIES
  CallsReturn
  LookupEnds
  ShellEnds
