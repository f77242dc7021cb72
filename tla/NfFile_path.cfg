CONSTANTS
  Exts <- MCExts
  Exporters = {"x"}
  Leftovers = {9}
  WriteFlags <- AllWriteFlags
  ReadFlags <- AllReadFlags
  Contents <- MCContents
  Inodes = {1, 2}
  Unset = {0, 2}
  BlockCap = 2
  MaxMaps = 5
  Limits <- MCLimits
  Faults = {"noname", "nomem"}
SPECIFICATION Spec
INVARIANTS
  FileSound ReadsFaithful MutexReturned
PROPERTIES
  LoopCatchesUp
CHECK_DEADLOCK FALSE
