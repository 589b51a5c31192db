SPECIFICATION Spec
CONSTANTS
  Api <- ApiOf
  Paths <- MCPaths
  Seeds <- MCSeeds
  Operands <- MCOperands
  Names = {"id", "v"}
  MaxSize = 3
  MaxInt = 12
CHECK_DEADLOCK FALSE
INVARIANTS
  EvalIsMeaning
  CallsBeforeErrorStand
  ListsArriveWhole
