SPECIFICATION SystemSpec
CONSTANTS
  r1 = r1
  a = a
  ZeroAddress = ZeroAddress
  Patched = {r1}
  Addresses = {r1, ZeroAddress}
  Producers = {a}
  InitialSRs = {a}
  Sizes = {2}
  TxLists <- MCPayments
  PassedLists <- MCPassed
  MinDeposit <- MCMinDeposit
  FINALITY = 1
  ORDER_TTL = 0
  SR_COUNT = 1
  BYTE = 2
  VALUE_BYTES = 2
  VARINT_BITS = 1
  WORD_BITS = 8
  START = 1
  MAINTENANCE_PERIOD_BLOCK_OFFSET = 0
  MAINTENANCE_PERIOD_INTERVAL = 100
  MaxTime = 3
  MaxBlocks = 3
  MaxActions = 3
  RECEIVER_TTL = 0
  MaxBatch = 1
  MaxProofs = 2
INVARIANTS
  ToldOnce
  PaidAsRead
  ProofsCoverBlocks
  ProofsStayFinal
  ToldIsSettled
PROPERTIES
  NeverBack
CHECK_DEADLOCK FALSE
