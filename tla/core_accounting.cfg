SPECIFICATION Spec
CONSTANTS
  p1 = p1
  p2 = p2
  u1 = u1
  f1 = f1
  r1 = r1
  r2 = r2
  zksync = zksync
  base = base
  h1 = h1
  h2 = h2
  BP = 2
  USDT_UNIT = 2
  HostChain = zksync
  NoChain = NoChain
  OtherChains = {base}
  Routes = {base, NoChain}
  Providers = {p1, p2}
  Creators = {u1}
  Fulfillers = {f1}
  ZeroAddress = ZeroAddress
  Receivers = {r1}
  EmergencyReceivers = {}
  StateHashes = {h1}
  Transfers <- MCDirect
  Sizes = {2}
  Inflows = {0, 1, 2}
  Liquidities = {0, 2}
  Totals = {0, 2}
  Terms <- MCParTerms
  ReceiverLists <- MCList
  FeeSettings <- MCNoFees
  CoreSettings <- MCCore
  Bonuses = {0}
  ORDER_TTL = 300
  TRON_SECOND = 1000
  MaxActions = 5
  MaxTime = 2
  MaxBatch = 1
  MaxUint = 100
INVARIANTS
  TypeOK
  BusyHoldsOrder
  ChainHoldsOrder
  OrphansAnnounced
  FulfilledClaim
  ExactAccounting
PROPERTIES
  OrderLifecycle
  ImplementsBook
CHECK_DEADLOCK FALSE
