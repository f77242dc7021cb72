CONSTANTS
  SetFields <- MCFields
  Values <- MCValues
  FileExts <- MCExts
  BufSizes <- MCSizes
  MaxSets = 2
  Adds <- MCAdds
  Recs <- MCRecs
  MaxAdds = 3
  MaxWrites = 2
  Faults = {"nomem"}
  MaxRead = 2
SPECIFICATION Spec
INVARIANTS
  InitReleases Arrives RecommendedSize ListsConsistent UnsetExactly RowsRight
  RowSurvivesRaw
CHECK_DEADLOCK FALSE
