SPECIFICATION Spec
CONSTANTS
  r1 = r1
  a = a
  b = b
  c = c
  d = d
  Addresses = {r1}
  Producers = {a, b, c, d}
  InitialSRs = {a, b, c}
  Sizes = {0}
  TxLists <- MCVotes
  PassedLists <- MCPassedVotes
  MinDeposit <- MCMinDeposit
  FINALITY = 2
  ORDER_TTL = 0
  SR_COUNT = 3
  BYTE = 2
  VALUE_BYTES = 2
  VARINT_BITS = 1
  WORD_BITS = 8
  START = 1
  MAINTENANCE_PERIOD_BLOCK_OFFSET = 0
  MAINTENANCE_PERIOD_INTERVAL = 3
  MaxTime = 4
  MaxBlocks = 4
  MaxActions = 1
INVARIANTS
  TypeOK
  TakenIsFinal
  VotesMatchTron
  OwnTransactions
CHECK_DEADLOCK FALSE
