\* Two filters, one after the other, in one process; nothing fails.
SPECIFICATION SpecAgain
CONSTANTS
  FieldDefs <- MCFieldDefs
  OptsFlags <- MCOptsFlags
  TcpFlags <- MCTcpFlags
  Dict <- MCDict
  Wide = 4096
  Factor = 10
  OctetBits = 1
  Texts <- MCTexts
  FirstTexts = {}
  Lists = {}
  ListFields = {}
  Records <- MCRecords
  Stale <- MCStale
  Faults = {}
  MaxNodes = 6
  MaxDepth = 2
  MaxFilters = 2
INVARIANT NegationNegates
CHECK_DEADLOCK FALSE
