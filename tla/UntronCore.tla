----------------------------- MODULE UntronCore -----------------------------
(***************************************************************************)
(* The contract UntronCore (contracts/src/UntronCore.sol) with the modules *)
(* it inherits: providers deposit USDT L2 and own Tron receivers, creators *)
(* open orders against a provider's liquidity, fulfillers advance what an  *)
(* order asks for, and the relayer closes orders with the inflows that the *)
(* ZK program observed on Tron.  Every action is one transaction: a call   *)
(* that reverts changes nothing and is no step.                            *)
(*                                                                         *)
(* fulfill and closeOrders send an order's transfer before they update the *)
(* order, and the contract has no guard against being called back.  USDT   *)
(* and the bridge call nobody; a swap runs an executor and a token that    *)
(* the creator names.  Their calling the contract back is not modelled, so *)
(* what is said about money is said of transfers without a swap.           *)
(*                                                                         *)
(* The action chain is a hash chain, so a tip determines the sequence of   *)
(* actions behind it.  It is modelled by that sequence: the tip is its     *)
(* length, an action's hash is its position, and the ID of an order is the *)
(* position of the action that created it (0 is bytes32(0)).               *)
(*                                                                         *)
(* USDT in the hands of other accounts is not tracked: a transferFrom may  *)
(* fail for want of funds, and then the transaction reverts.               *)
(* The token is taken to accept every transfer that the balance covers.    *)
(* Init is the contract after its owner chose core variables and fees.     *)
(***************************************************************************)
EXTENDS UntronFees, UntronTransfers, Sequences, FiniteSets, FiniteSetsExt

CONSTANTS
  Providers,       \* accounts that register as liquidity providers
  Creators,        \* accounts that create orders
  Fulfillers,      \* accounts that fulfill orders
  ZeroAddress,     \* address(0)
  Receivers,       \* Tron addresses that providers register
  EmergencyReceivers, \* those the owner may patch with updateActionChain
  StateHashes,     \* hashes of states of the ZK program
  Transfers,       \* what creators ask for
  Sizes,           \* order sizes, USDT Tron
  Inflows,         \* inflows the program may report, USDT Tron
  Liquidities,     \* liquidity a provider may set, USDT L2
  Terms,           \* rate and minima a provider may set
  ReceiverLists,   \* lists of distinct receivers a provider may register
  Totals,          \* amounts a fulfiller may declare, USDT L2
  FeeSettings,     \* arguments of setFeesVariables
  CoreSettings,    \* arguments of setCoreVariables
  Bonuses,         \* what the swap router may return above the minimum
  ORDER_TTL,       \* 300
  TRON_SECOND,     \* 1000: Tron timestamps are milliseconds
  MaxActions,      \* bound: length of the action chain
  MaxTime,         \* bound: seconds
  MaxBatch,        \* bound: orders or receivers in one call
  MaxUint          \* largest value of uint256

Accounts  == Providers \cup Creators \cup Fulfillers
Addresses == Accounts \cup {ZeroAddress}
NoId      == 0
OrderIds  == 1..MaxActions
UInt      == 0..MaxUint

Provider ==
  [liquidity : UInt, rate : Nat, minOrderSize : Nat, minDeposit : Nat,
   receivers : SUBSET Receivers]

Order ==
  [timestamp : Nat, creator : Addresses, provider : Providers \cup {ZeroAddress},
   receiver : Receivers \cup {ZeroAddress}, size : Nat, rate : Nat,
   minDeposit : Nat, collateral : Nat, isFulfilled : BOOLEAN,
   transfer : TransferType(Addresses)]

Action ==
  [timestamp : Nat, receiver : Receivers \cup {ZeroAddress},
   minDeposit : Nat, size : Nat]

ASSUME CoreAssumption ==
  /\ ZeroAddress \notin Accounts \cup Receivers
  /\ EmergencyReceivers \subseteq Receivers
  /\ Transfers \subseteq TransferType(Accounts)
  /\ Sizes \subseteq Nat /\ Inflows \subseteq Nat /\ Liquidities \subseteq UInt
  /\ Totals \subseteq Nat
  /\ Bonuses \subseteq Nat
  /\ Terms \subseteq [rate : Nat, minOrderSize : Nat, minDeposit : Nat]
  /\ ReceiverLists \subseteq Seq(Receivers)
  /\ FeeSettings \subseteq [relayerFee : Nat, feePoint : Nat]
  /\ CoreSettings \subseteq [maxOrderSize : Nat, requiredCollateral : Nat]
  /\ ORDER_TTL \in Nat /\ TRON_SECOND \in Nat \ {0}
  /\ MaxActions \in Nat /\ MaxTime \in Nat /\ MaxBatch \in Nat /\ MaxUint \in Nat

\* An address is 160 bits wide.
ASSUME ProvidersAssumption == IsFiniteSet(Providers)

\* A receiver named twice is freed at its first mention only, so that a list may
\* as well name it once.
ASSUME ReceiverListsAssumption ==
  \A list \in ReceiverLists :
    /\ Len(list) <= MaxBatch
    /\ \A i, j \in DOMAIN list : i # j => list[i] # list[j]

VARIABLES
  now,              \* block.timestamp, in seconds since the origin of unixToTron
  paused,           \* the PausableUpgradeable flag
  core,             \* [maxOrderSize, requiredCollateral]
  fees,             \* [relayerFee, feePoint]
  stateHash,
  actionChain,      \* the actions behind actionChainTip, oldest first
  orders,           \* _orders
  isReceiverBusy,   \* _isReceiverBusy
  receiverOwners,   \* _receiverOwners
  providers,        \* _providers
  usdt              \* usdt.balanceOf(address(this))

settings == <<paused, core, fees>>
books    == <<orders, isReceiverBusy, actionChain>>
vars     == <<now, settings, stateHash, books, receiverOwners, providers, usdt>>

-----------------------------------------------------------------------------
(***************************************************************************)
(* Storage that was never written, or was deleted, reads as zero.          *)
(***************************************************************************)
NoTransfer ==
  [recipient |-> ZeroAddress, chainId |-> NoChain, doSwap |-> FALSE,
   fixedOutput |-> FALSE, minOutputPerUSDT |-> 0, acrossFee |-> 0]

NoOrder ==
  [timestamp |-> 0, creator |-> ZeroAddress, provider |-> ZeroAddress,
   receiver |-> ZeroAddress, size |-> 0, rate |-> 0, minDeposit |-> 0,
   collateral |-> 0, isFulfilled |-> FALSE, transfer |-> NoTransfer]

NoProvider ==
  [liquidity |-> 0, rate |-> 0, minOrderSize |-> 0, minDeposit |-> 0,
   receivers |-> {}]

Init ==
  /\ now = 1
  /\ paused = FALSE
  /\ core \in CoreSettings
  /\ fees \in FeeSettings
  /\ stateHash \in StateHashes
  /\ actionChain = <<>>
  /\ orders = [id \in OrderIds |-> NoOrder]
  /\ isReceiverBusy = [r \in Receivers \cup {ZeroAddress} |-> NoId]
  /\ receiverOwners = [r \in Receivers |-> ZeroAddress]
  /\ providers = [p \in Providers \cup {ZeroAddress} |-> NoProvider]
  /\ usdt = 0

-----------------------------------------------------------------------------
(* Helpers of the handlers. *)

unixToTron(t) == t * TRON_SECOND

\* The IDs that exist on chain: positions of the actions so far.
actions == DOMAIN actionChain

\* An order past its time to live no longer keeps its receiver.
IsExpired(id) == orders[id].timestamp + ORDER_TTL < unixToTron(now)

ActionOf(receiver, minDeposit, size) ==
  [timestamp |-> unixToTron(now), receiver |-> receiver,
   minDeposit |-> minDeposit, size |-> size]

\* The closure actions that _freeReceiver appends for a list of receivers.
FreeActions(receivers) ==
  [i \in DOMAIN receivers |-> ActionOf(receivers[i], 0, 0)]

\* isReceiverBusy once the receivers in a set were freed.
Freed_KeepsBusy(receivers) == isReceiverBusy

Freed(receivers) ==
  [r \in DOMAIN isReceiverBusy |->
     IF r \in receivers THEN NoId ELSE isReceiverBusy[r]]

RangeOf(s) == {s[i] : i \in DOMAIN s}

\* The lists of distinct IDs a batch call may name.
IdLists ==
  {ids \in UNION {[1..n -> actions] : n \in 0..MaxBatch} :
     \A i, j \in DOMAIN ids : i # j => ids[i] # ids[j]}

\* The elements of a set of positions, listed in increasing order.
InOrder(S) ==
  {s \in [1..Cardinality(S) -> S] :
     /\ RangeOf(s) = S
     /\ \A k, l \in DOMAIN s : k < l => s[k] < s[l]}

\* Bound: the chain has room for n more actions.
HasRoom(n) == Len(actionChain) + n <= MaxActions

-----------------------------------------------------------------------------
(* Order creators. *)

\* Taking over a receiver whose order expired frees it first.
Takeover_NotAnnounced(receiver) == <<>>

Takeover(receiver) ==
  IF isReceiverBusy[receiver] = NoId THEN <<>> ELSE FreeActions(<<receiver>>)

\* The ID of a new order: the tip after the actions of a takeover and its own.
NewOrderId_StaleTip(takeover) == Len(actionChain) + 1

NewOrderId(takeover) == Len(actionChain) + Len(takeover) + 1

HasLiquidity_Unchecked(provider, amount) == TRUE

HasLiquidity(provider, amount) == amount <= providers[provider].liquidity

\* The rate argument must match the provider's rate, so it is no parameter.
createOrder(creator, provider, receiver, size, transfer) ==
  LET amount   == Converted(size, providers[provider].rate)
      takeover == Takeover(receiver)
      orderId  == NewOrderId(takeover)
  IN
  /\ ~paused
  /\ isReceiverBusy[receiver] # NoId => IsExpired(isReceiverBusy[receiver])
  /\ receiverOwners[receiver] = provider
  /\ HasLiquidity(provider, amount)
  /\ providers[provider].minOrderSize <= size
  /\ size <= core.maxOrderSize
  /\ usdt + core.requiredCollateral \in UInt
  /\ HasRoom(Len(takeover) + 1)
  /\ usdt' = usdt + core.requiredCollateral
  /\ providers' = [providers EXCEPT ![provider].liquidity = @ - amount]
  /\ actionChain' = (actionChain \o takeover)
                      \o <<ActionOf(receiver, providers[provider].minDeposit, size)>>
  /\ isReceiverBusy' = [isReceiverBusy EXCEPT ![receiver] = orderId]
  /\ orders' = [orders EXCEPT ![orderId] =
       [timestamp |-> unixToTron(now), creator |-> creator,
        provider |-> provider, receiver |-> receiver, size |-> size,
        rate |-> providers[provider].rate,
        minDeposit |-> providers[provider].minDeposit,
        collateral |-> core.requiredCollateral,
        isFulfilled |-> FALSE, transfer |-> transfer]]
  /\ UNCHANGED <<now, settings, stateHash, receiverOwners>>

changeOrder_EvenFulfilled(sender, id, transfer) ==
  /\ orders[id].creator = sender
  /\ orders' = [orders EXCEPT ![id].transfer = transfer]
  /\ UNCHANGED <<now, settings, stateHash, isReceiverBusy, actionChain,
                 receiverOwners, providers, usdt>>

changeOrder(sender, id, transfer) ==
  /\ orders[id].creator = sender
  /\ ~orders[id].isFulfilled
  /\ orders' = [orders EXCEPT ![id].transfer = transfer]
  /\ UNCHANGED <<now, settings, stateHash, isReceiverBusy, actionChain,
                 receiverOwners, providers, usdt>>

\* The provider is credited with the order's size.
stopOrder(sender, id) ==
  LET o == orders[id] IN
  /\ ~paused
  /\ o.creator = sender
  /\ ~o.isFulfilled
  /\ providers[o.provider].liquidity + o.size \in UInt
  /\ usdt - o.collateral \in UInt
  /\ HasRoom(1)
  /\ isReceiverBusy' = Freed({o.receiver})
  /\ actionChain' = actionChain \o FreeActions(<<o.receiver>>)
  /\ providers' = [providers EXCEPT ![o.provider].liquidity = @ + o.size]
  /\ usdt' = usdt - o.collateral
  /\ orders' = [orders EXCEPT ![id] = NoOrder]
  /\ UNCHANGED <<now, settings, stateHash, receiverOwners>>

-----------------------------------------------------------------------------
(* Fulfillers. *)

\* _getAmountAndFee: what the fulfiller sends for an order.
AmountToFulfill(o) ==
  conversion(o.size, o.rate,
             calculateFee(fees.feePoint, o.transfer.doSwap,
                          o.transfer.chainId = HostChain),
             fees.relayerFee)

TotalToFulfill_LastOnly(ids) ==
  IF ids = <<>> THEN 0 ELSE AmountToFulfill(orders[ids[Len(ids)]]).value

\* calculateFulfillerTotal: what the fulfiller sends for a list of orders.
TotalToFulfill(ids) ==
  SumFunction([i \in DOMAIN ids |-> AmountToFulfill(orders[ids[i]]).value])

FulfilledBy_KeepsCollateral(o, sender) ==
  [o EXCEPT !.creator = sender, !.isFulfilled = TRUE,
            !.transfer.recipient = sender, !.transfer.chainId = HostChain,
            !.transfer.doSwap = FALSE]

FulfilledBy_KeepsChain(o, sender) ==
  [o EXCEPT !.creator = sender, !.isFulfilled = TRUE, !.collateral = 0,
            !.transfer.recipient = sender, !.transfer.doSwap = FALSE]

\* After it is fulfilled, an order's proceeds go to the fulfiller, on the host
\* chain and without a swap.
FulfilledBy(o, sender) ==
  [o EXCEPT !.creator = sender, !.isFulfilled = TRUE, !.collateral = 0,
            !.transfer.recipient = sender, !.transfer.chainId = HostChain,
            !.transfer.doSwap = FALSE]

\* An ID named twice reverts: the second time the order is already fulfilled.
fulfill(sender, ids, total, bonus) ==
  LET order(i)  == orders[ids[i]]
      amount(i) == AmountToFulfill(order(i))
      sent(i)   == smartTransfer(order(i).transfer, amount(i).value, bonus)
      expectedTotal == TotalToFulfill(ids)
      refunded  == IF expectedTotal < total THEN total - expectedTotal ELSE 0
      paid      == SumFunction([i \in DOMAIN ids |-> sent(i).spent + order(i).collateral])
      freed     == [i \in DOMAIN ids |-> order(i).receiver]
  IN
  /\ ~paused
  /\ \A i \in DOMAIN ids :
       ~order(i).isFulfilled /\ amount(i).ok /\ sent(i).ok
  /\ total >= expectedTotal
  /\ usdt + total - paid - refunded \in UInt
  /\ HasRoom(Len(ids))
  /\ usdt' = usdt + total - paid - refunded
  /\ actionChain' = actionChain \o FreeActions(freed)
  /\ isReceiverBusy' = Freed(RangeOf(freed))
  /\ orders' = [id \in OrderIds |-> IF id \in RangeOf(ids)
                                    THEN FulfilledBy(orders[id], sender)
                                    ELSE orders[id]]
  /\ UNCHANGED <<now, settings, stateHash, receiverOwners, providers>>

-----------------------------------------------------------------------------
(* The relayer. *)

\* The part of a reported inflow that the order can take.
MinInflow(o, inflow) == IF inflow < o.size THEN inflow ELSE o.size

\* The payout of an order that received an inflow.
Payout(o, inflow) == conversion(MinInflow(o, inflow), o.rate, 0, fees.relayerFee)

Remaining_WholeSize(o, inflow) == Converted(o.size, o.rate)

\* The liquidity that goes back to the provider.
Remaining(o, inflow) == Converted(o.size - MinInflow(o, inflow), o.rate)

\* What was not paid out of the orders of a provider in a batch.
Returned(p, ids, inflow) ==
  SumFunctionOnSet([i \in DOMAIN ids |-> Remaining(orders[ids[i]], inflow[i])],
                   {i \in DOMAIN ids : orders[ids[i]].provider = p})

\* The proof covers the public values: the state it starts from and the state
\* it reaches, the last action it took in, and the closed orders, each with
\* its inflow.  fixedOutput is cleared before the transfer.
closeOrders(oldHash, newHash, latestIncludedAction, ids, inflow, bonus) ==
  LET order(i)  == orders[ids[i]]
      payout(i) == Payout(order(i), inflow[i])
      sent(i)   == smartTransfer([order(i).transfer EXCEPT !.fixedOutput = FALSE],
                                 payout(i).value, bonus)
      paid      == SumFunction([i \in DOMAIN ids |->
                     sent(i).spent + order(i).collateral + payout(i).fee])
      open      == {i \in DOMAIN ids : ~order(i).isFulfilled}
      freed     == [i \in DOMAIN ids |-> order(i).receiver]
  IN
  /\ ~paused
  /\ oldHash = stateHash
  /\ latestIncludedAction \in actions
  /\ \A i \in DOMAIN ids : payout(i).ok /\ sent(i).ok
  /\ usdt - paid \in UInt
  /\ \A p \in DOMAIN providers :
       providers[p].liquidity + Returned(p, ids, inflow) \in UInt
  /\ stateHash' = newHash
  /\ usdt' = usdt - paid
  /\ \E s \in InOrder(open) :
       /\ HasRoom(Len(s))
       /\ actionChain' = actionChain \o FreeActions([k \in DOMAIN s |-> freed[s[k]]])
  /\ isReceiverBusy' = Freed({freed[i] : i \in open})
  /\ providers' = [p \in DOMAIN providers |->
       [providers[p] EXCEPT !.liquidity = @ + Returned(p, ids, inflow)]]
  /\ orders' = [id \in OrderIds |-> IF id \in RangeOf(ids)
                                    THEN NoOrder ELSE orders[id]]
  /\ UNCHANGED <<now, settings, receiverOwners>>

-----------------------------------------------------------------------------
(* Providers. *)

\* Registers the sender with a liquidity, terms and a list of receivers.  The
\* liquidity is an absolute amount: the difference is paid in or out, and a
\* paused contract refuses the payment only.
setProvider(sender, liquidity, terms, receivers) ==
  LET busy    == {i \in DOMAIN receivers : isReceiverBusy[receivers[i]] # NoId}
      cleared == {receivers[i] : i \in busy}
  IN
  /\ paused => liquidity = providers[sender].liquidity
  /\ terms.minDeposit <= terms.minOrderSize
  /\ \A r \in cleared : IsExpired(isReceiverBusy[r])
  /\ \A r \in RangeOf(receivers) \ cleared :
       receiverOwners[r] \in {ZeroAddress, sender}
  /\ usdt + liquidity - providers[sender].liquidity \in UInt
  /\ usdt' = usdt + liquidity - providers[sender].liquidity
  /\ providers' = [providers EXCEPT ![sender] =
       [liquidity |-> liquidity, rate |-> terms.rate,
        minOrderSize |-> terms.minOrderSize, minDeposit |-> terms.minDeposit,
        receivers |-> RangeOf(receivers)]]
  /\ \E s \in InOrder(busy) :
       /\ HasRoom(Len(s))
       /\ actionChain' = actionChain \o FreeActions([k \in DOMAIN s |-> receivers[s[k]]])
  /\ isReceiverBusy' = Freed(cleared)
  /\ receiverOwners' = [r \in Receivers |-> IF r \in RangeOf(receivers)
                                            THEN sender ELSE receiverOwners[r]]
  /\ UNCHANGED <<now, settings, stateHash, orders>>

-----------------------------------------------------------------------------
(* The owner of the contract, and time. *)

\* "An illegitimate action chain update": touches the chain and nothing else.
updateActionChain(receiver, minDeposit, size) ==
  /\ HasRoom(1)
  /\ actionChain' = Append(actionChain, ActionOf(receiver, minDeposit, size))
  /\ UNCHANGED <<now, settings, stateHash, orders, isReceiverBusy,
                 receiverOwners, providers, usdt>>

setCoreVariables(new) ==
  /\ core' = new
  /\ UNCHANGED <<now, paused, fees, stateHash, books, receiverOwners,
                 providers, usdt>>

setFeesVariables(new) ==
  /\ fees' = new
  /\ UNCHANGED <<now, paused, core, stateHash, books, receiverOwners,
                 providers, usdt>>

\* pause requires a contract that is not paused, unpause one that is.
SetPaused(flag) ==
  /\ paused # flag
  /\ paused' = flag
  /\ UNCHANGED <<now, core, fees, stateHash, books, receiverOwners,
                 providers, usdt>>

\* A block with a later timestamp.
Tick ==
  /\ now < MaxTime
  /\ now' = now + 1
  /\ UNCHANGED <<settings, stateHash, books, receiverOwners, providers, usdt>>

-----------------------------------------------------------------------------
CreatorNext ==
  \E sender \in Creators, provider \in Providers \cup {ZeroAddress},
     receiver \in Receivers, size \in Sizes, transfer \in Transfers :
    createOrder(sender, provider, receiver, size, transfer)

\* The creator of an order calls these; after fulfill that is the fulfiller.
HolderNext ==
  \E sender \in Creators \cup Fulfillers, id \in actions :
    \/ \E transfer \in Transfers : changeOrder(sender, id, transfer)
    \/ stopOrder(sender, id)

FulfillerNext ==
  \E sender \in Fulfillers, ids \in IdLists, total \in Totals, bonus \in Bonuses :
    fulfill(sender, ids, total, bonus)

\* Any action on the chain may be the latest included; the tip stands for all.
RelayerNext ==
  \E oldHash, newHash \in StateHashes, latest \in {Len(actionChain)},
     ids \in IdLists, bonus \in Bonuses :
    \E inflow \in [DOMAIN ids -> Inflows] :
      closeOrders(oldHash, newHash, latest, ids, inflow, bonus)

ProviderNext ==
  \E sender \in Providers, liquidity \in Liquidities, terms \in Terms,
     receivers \in ReceiverLists : setProvider(sender, liquidity, terms, receivers)

OwnerNext ==
  \/ \E receiver \in EmergencyReceivers, size \in Sizes :
       updateActionChain(receiver, 0, size)
  \/ \E new \in CoreSettings : setCoreVariables(new)
  \/ \E new \in FeeSettings : setFeesVariables(new)
  \/ \E flag \in BOOLEAN : SetPaused(flag)

Next ==
  \/ CreatorNext \/ HolderNext \/ FulfillerNext \/ RelayerNext \/ ProviderNext \/ OwnerNext
  \/ Tick

Spec == Init /\ [][Next]_vars

-----------------------------------------------------------------------------
(* Properties. *)

\* Every variable has its type: the balances and liquidities are uint256
\* values that never went below zero, and the chain grows within its bound.
TypeOK ==
  /\ now \in Nat
  /\ paused \in BOOLEAN
  /\ core \in [maxOrderSize : Nat, requiredCollateral : Nat]
  /\ fees \in [relayerFee : Nat, feePoint : Nat]
  /\ stateHash \in StateHashes
  /\ actionChain \in Seq(Action) /\ Len(actionChain) <= MaxActions
  /\ orders \in [OrderIds -> Order]
  /\ isReceiverBusy \in [Receivers \cup {ZeroAddress} -> {NoId} \cup OrderIds]
  /\ receiverOwners \in [Receivers -> Providers \cup {ZeroAddress}]
  /\ providers \in [Providers \cup {ZeroAddress} -> Provider]
  /\ usdt \in UInt

\* An order that was created (or, under a phantom ID, fulfilled) and not deleted.
IsStored(id) == orders[id].creator # ZeroAddress
IsOpen(id)   == IsStored(id) /\ ~orders[id].isFulfilled

\* A busy receiver is held by an order that is open, asks for this receiver and
\* belongs to the provider who owns it: no handler leaves a receiver pointing
\* at an order that was stopped, fulfilled, closed or taken over.
BusyHoldsOrder ==
  \A r \in Receivers : isReceiverBusy[r] # NoId =>
    LET id == isReceiverBusy[r] IN
    /\ id \in actions
    /\ IsOpen(id)
    /\ orders[id].receiver = r
    /\ orders[id].provider = receiverOwners[r]

\* The action chain tells the ZK program the same story: the last action on a
\* busy receiver is the creation of the order that holds it (unless the owner
\* patched the chain).
ChainHoldsOrder ==
  \A r \in Receivers \ EmergencyReceivers : isReceiverBusy[r] # NoId =>
    LET id == isReceiverBusy[r] IN
    /\ actionChain[id] = [timestamp |-> orders[id].timestamp, receiver |-> r,
                          minDeposit |-> orders[id].minDeposit,
                          size |-> orders[id].size]
    /\ \A j \in actions : j > id => actionChain[j].receiver # r

\* An open order that lost its receiver (it expired and another took its place,
\* or somebody freed the receiver) has a closure action on the chain: the
\* program is told to stop listening, and the order can be closed.
OrphansAnnounced ==
  \A id \in actions : IsOpen(id) /\ isReceiverBusy[orders[id].receiver] # id =>
    \E j \in actions : j > id /\ actionChain[j].receiver = orders[id].receiver
                       /\ actionChain[j].size = 0 /\ actionChain[j].minDeposit = 0

\* Once an order is fulfilled its proceeds belong to the fulfiller: on the host
\* chain, without a swap, with no collateral left to refund twice, and without
\* a receiver that a later closure would free again.
FulfilledClaim ==
  \A id \in actions : orders[id].isFulfilled =>
    LET o == orders[id] IN
    /\ o.creator \in Fulfillers
    /\ o.transfer.recipient = o.creator
    /\ o.transfer.chainId = HostChain /\ ~o.transfer.doSwap
    /\ o.collateral = 0
    /\ isReceiverBusy[o.receiver] # id

\* What a step may do to the orders that exist.
KeepsTerms ==
  \A id \in actions :
    LET o == orders[id]
        n == orders'[id]
    IN \/ n = NoOrder
       \/ ~IsStored(id) /\ n.size = 0 /\ n.collateral = 0
       \/ /\ IsStored(id)
          /\ o.isFulfilled => n = o
          /\ <<n.timestamp, n.provider, n.receiver, n.size, n.rate>>
               = <<o.timestamp, o.provider, o.receiver, o.size, o.rate>>
          /\ n.collateral \in {0, o.collateral}

\* The terms of a stored order stay what they were until it is deleted, a
\* fulfilled order does not change at all, and an ID whose order was settled
\* never locks liquidity or collateral again.
OrderLifecycle == [][KeepsTerms]_vars

\* The order book behind the contract: the record of an order is what the action
\* that created it says, and the state of an ID is one of three.
Status(id) ==
  IF orders[id].isFulfilled THEN "fulfilled" ELSE IF IsOpen(id) THEN "open" ELSE "none"

Book == INSTANCE OrderBook WITH
  now    <- unixToTron(now),
  chain  <- [i \in actions |-> [timestamp |-> actionChain[i].timestamp,
                                address   |-> actionChain[i].receiver,
                                size      |-> actionChain[i].size]],
  status <- [id \in OrderIds |-> Status(id)],
  busy   <- isReceiverBusy,
  proven <- stateHash

\* Whatever the accounts do with money, terms and settings, everybody else sees an
\* order book: receivers are held, freed and announced as OrderBook says, by the
\* receiver and the age that the chain gives for an order.
ImplementsBook == Book!Spec

\* The liquidity that an order locks, and the USDT that is there for it.
Locked(o) == Converted(o.size, o.rate)
Held(o)   == Locked(o) + o.collateral

\* What the contract owes: the liquidity of the providers, and what it holds for
\* the orders.
Liabilities ==
  SumFunction([p \in Providers |-> providers[p].liquidity])
    + SumFunction([id \in OrderIds |-> Held(orders[id])])

\* The contract holds the USDT it owes.
Solvent == usdt >= Liabilities

\* With every rate at 100% there is no rounding: the contract holds exactly
\* what it owes, so no USDT is ever stuck in it either.
ExactAccounting == usdt = Liabilities

\* "This number must be equal to total": what the fulfiller declares pays for
\* what fulfill sends, so the contract's own USDT falls by the collateral that
\* goes back to the creators and by nothing else.
FulfillCoversItself ==
  [][LET done == {id \in actions : ~orders[id].isFulfilled /\ orders'[id].isFulfilled}
     IN done # {} =>
          usdt - usdt' = SumFunction([id \in done |-> orders[id].collateral])]_vars

\* "Returns the remaining liquidity to the provider": when orders end, their
\* provider is credited with no more than creating them had taken.
ReturnsWhatItTook ==
  [][\A p \in Providers :
       LET ended == {id \in actions :
                       IsStored(id) /\ orders[id].provider = p /\ orders'[id] = NoOrder}
       IN ended # {} =>
            providers'[p].liquidity - providers[p].liquidity
              <= SumFunction([id \in ended |-> Locked(orders[id])])]_vars

\* "Set the receiver as busy to prevent double orders": of two open orders on
\* one receiver, the older one had expired when the newer one was created.
NoDoubleOrders ==
  \A i, j \in actions :
    i < j /\ IsOpen(i) /\ IsOpen(j) /\ orders[i].receiver = orders[j].receiver
      => orders[i].timestamp + ORDER_TTL < orders[j].timestamp
=============================================================================
