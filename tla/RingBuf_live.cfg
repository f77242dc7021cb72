\* Readers may die, or stay, anywhere: calls return, losses are reported,
\* readers catch up, and what the writer published stands.
SPECIFICATION FairSpec
CONSTANTS
  Writers = {w1}
  Readers = {r1, r2}
  Blocking = {r1}
  Records = {a}
  Garbled = Garbled
  Size = 2
  StuckLimit = 1
  MaxSeq = 4
  MaxStuck = 1
  Faults = {"reader_crash", "slow_reader"}
INVARIANTS LossIsReported
PROPERTIES WriteReturns ReaderCatchesUp
CHECK_DEADLOCK FALSE
