\* One writer, a blocking and a non-blocking reader, conversions that may
\* fail and a writer that may be killed and restarted at any step.
SPECIFICATION Spec
CONSTANTS
  Writers = {w1}
  Readers = {r1, r2}
  Blocking = {r1}
  Records = {a, b}
  Garbled = Garbled
  Size = 2
  StuckLimit = 1
  MaxSeq = 4
  MaxStuck = 1
  Faults = {"get_raw", "set_raw", "writer_crash"}
INVARIANTS TypeOK NoOverlap ReadersCounted WindowIntact
PROPERTIES ImplementsLog
CHECK_DEADLOCK FALSE
