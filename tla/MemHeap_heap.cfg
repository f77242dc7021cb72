\* Every mode and sort direction, four writes, one clean, malloc may fail.
SPECIFICATION Spec
CONSTANTS
  NumBuckets = 2
  Recs <- MCRecs
  RawRecs <- MCRawRecs
  Configs <- MCConfigs
  MaxWrites = 4
  MaxCleans = 1
  Faults = {"nomem"}
INVARIANTS TypeOK LookupFinds ScanComplete ScanOrdered
PROPERTIES RefinesFlowTable
