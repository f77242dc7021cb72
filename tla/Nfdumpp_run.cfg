\* Command lines with up to three threads, two outputs and three files.
SPECIFICATION FairSpec
CONSTANTS
  CommandLines <- MCCommandLines
  Paths <- MCPaths
  MaxThreads = 3
  Processors = 3
  AddrBits = 2
INVARIANTS EachMatchOnce SummaryRight
PROPERTIES RunEnds
CHECK_DEADLOCK FALSE
