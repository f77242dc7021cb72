\* Two variables: readers, aggregated and sorted queries,
\* writers, and objects that are finished and used again.
SPECIFICATION Spec
CONSTANTS
  Objects = {o1, o2}
  Null = Null
  Undef = Undef
  Invalid = Invalid
  Options <- MCOptions
  Rows <- MCRows
  Disk <- MCDisk
  MaxInstances = 4
  AddrBits = 2
  MaxNews = 2
  MaxQueries = 2
  MaxStores = 2
INVARIANTS QueryAnswers StoredAsGiven HandlesOwned
SYMMETRY Symmetry
CHECK_DEADLOCK FALSE
