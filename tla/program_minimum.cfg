SPECIFICATION Spec
CONSTANTS
  r1 = r1
  a = a
  b = b
  c = c
  d = d
  Addresses = {r1}
  Producers = {a}
  InitialSRs = {a}
  Sizes = {2}
  TxLists <- MCPayments
  PassedLists <- MCPassedPayments
  MinDeposit <- MCMinDeposit
  FINALITY = 1
  ORDER_TTL = 0
  SR_COUNT = 1
  BYTE = 2
  VALUE_BYTES = 2
  VARINT_BITS = 1
  WORD_BITS = 8
  START = 1
  MAINTENANCE_PERIOD_BLOCK_OFFSET = 0
  MAINTENANCE_PERIOD_INTERVAL = 100
  MaxTime = 5
  MaxBlocks = 3
  MaxActions = 3
INVARIANTS
  SmallTransfersRefused
CHECK_DEADLOCK FALSE
