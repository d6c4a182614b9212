SPECIFICATION Spec
CONSTANTS
  p1 = p1
  p2 = p2
  u1 = u1
  f1 = f1
  r1 = r1
  r2 = r2
  zksync = zksync
  base = base
  h1 = h1
  h2 = h2
  BP = 2
  USDT_UNIT = 2
  HostChain = zksync
  NoChain = NoChain
  OtherChains = {base}
  Routes = {base, NoChain}
  Providers = {p1}
  Creators = {u1}
  Fulfillers = {f1}
  ZeroAddress = ZeroAddress
  Receivers = {r1, r2}
  EmergencyReceivers = {r1}
  StateHashes = {h1}
  Transfers <- MCTransfers
  Sizes = {2}
  Inflows = {1, 3}
  Liquidities = {0, 6}
  Totals = {0, 4}
  Terms <- MCHighTerms
  ReceiverLists <- MCPairList
  FeeSettings <- MCFees
  CoreSettings <- MCCore
  Bonuses = {0}
  ORDER_TTL = 300
  TRON_SECOND = 1000
  MaxActions = 4
  MaxTime = 1
  MaxBatch = 2
  MaxUint = 100
INVARIANTS
  BusyHoldsOrder
  FulfilledClaim
  Solvent
PROPERTIES
  FulfillCoversItself
  ImplementsBook
CHECK_DEADLOCK FALSE
