\* One filter, expressions of up to three leaves and two operators.
SPECIFICATION Spec
CONSTANTS
  FieldDefs <- MCFieldDefs
  OptsFlags <- MCOptsFlags
  TcpFlags <- MCTcpFlags
  Dict <- MCDict
  Wide = 4096
  Factor = 10
  OctetBits = 1
  Texts <- MCTexts
  FirstTexts <- MCFirstTexts
  Lists <- MCLists
  ListFields = {"port", "nosuch"}
  Records <- MCRecords
  Stale <- MCStale
  Faults = {"node", "value"}
  MaxNodes = 8
  MaxDepth = 2
  MaxFilters = 1
INVARIANTS EvalAgrees HeapSound
CHECK_DEADLOCK FALSE
