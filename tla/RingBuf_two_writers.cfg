\* Two writers share the ring, as libnf.h allows.
SPECIFICATION Spec
CONSTANTS
  Writers = {w1, w2}
  Readers = {r1}
  Blocking = {r1}
  Records = {a, b}
  Garbled = Garbled
  Size = 2
  StuckLimit = 1
  MaxSeq = 3
  MaxStuck = 1
  Faults = {}
PROPERTIES ImplementsLog
CHECK_DEADLOCK FALSE
