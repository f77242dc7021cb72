\* Three threads, both modes; memory may run out at any time.
SPECIFICATION FairSpec
CONSTANTS
  Threads = {t1, t2, t3}
  MaxRows = 2
  MaxThreads = 3
  Faults = {"nomem"}
INVARIANTS TypeOK ExclusiveTables NothingLost ResultComplete
PROPERTIES MergeReturns
CHECK_DEADLOCK FALSE
