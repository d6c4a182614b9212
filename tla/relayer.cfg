SPECIFICATION Spec
CONSTANTS
  ORDER_TTL = 0
  FINALITY = 0
  ACTION_CHANNEL = 1
  ORDER_CHANNEL = 1
  FULFILL = TRUE
  MIN_ORDERS = 1
  SAME_DIRECTORY = TRUE
  Exact = {1, 2}
  MaxForks = 1
  MaxBlocks = 2
  MaxActions = 2
  MaxRuns = 2
INVARIANTS
  TypeOK
  NoGapInARun
  ProofOfWhatWasRun
  ResumesFromAProof
  OrdersHeld
PROPERTIES
  RoundEnds
  FulfillersEnd
CHECK_DEADLOCK FALSE
