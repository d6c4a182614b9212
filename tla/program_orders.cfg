SPECIFICATION Spec
CONSTANTS
  r1 = r1
  a = a
  b = b
  c = c
  d = d
  Addresses = {r1}
  Producers = {a}
  InitialSRs = {a}
  Sizes = {0, 3}
  TxLists <- MCMixed
  PassedLists = {}
  MinDeposit <- MCMinDeposit
  FINALITY = 1
  ORDER_TTL = 0
  SR_COUNT = 1
  BYTE = 2
  VALUE_BYTES = 2
  VARINT_BITS = 1
  WORD_BITS = 2
  START = 1
  MAINTENANCE_PERIOD_BLOCK_OFFSET = 0
  MAINTENANCE_PERIOD_INTERVAL = 100
  MaxTime = 4
  MaxBlocks = 3
  MaxActions = 4
INVARIANTS
  TakenIsFinal
  ClosedOnce
  InflowWasRead
  ClosedForAReason
  ActionsCoverBlocks
CHECK_DEADLOCK FALSE
