-------------------------- MODULE UntronCoreProofs --------------------------
(***************************************************************************)
(* Theorems about the contract, for every value of the constants that      *)
(* satisfies CoreAssumption and BPAssumption.                              *)
(***************************************************************************)
EXTENDS UntronCore, FiniteSetTheorems, TLAPS

-----------------------------------------------------------------------------
(* Lemmas about the operators the handlers are built from. *)

\* A conversion of naturals is a natural.
LEMMA ConvertedType ==
  ASSUME NEW size \in Nat, NEW rate \in Nat
  PROVE  Converted(size, rate) \in Nat
<1>1. size * rate \in Nat
  OBVIOUS
<1>2. QED
  BY <1>1, BPAssumption DEF Converted

\* A listing of a finite set of positions is a sequence of its elements.
LEMMA InOrderType ==
  ASSUME NEW S, IsFiniteSet(S), NEW s \in InOrder(S)
  PROVE  /\ s \in Seq(S)
         /\ Len(s) = Cardinality(S) /\ DOMAIN s = 1..Len(s)
         /\ \A i \in S : \E k \in DOMAIN s : s[k] = i
<1>1. Cardinality(S) \in Nat
  BY FS_CardinalityType
<1>2. s \in [1..Cardinality(S) -> S] /\ RangeOf(s) = S
  BY DEF InOrder
<1>3. s \in Seq(S) /\ Len(s) = Cardinality(S) /\ DOMAIN s = 1..Len(s)
  BY <1>1, <1>2
<1>4. \A i \in S : \E k \in DOMAIN s : s[k] = i
  BY <1>2 DEF RangeOf
<1>5. QED
  BY <1>3, <1>4

\* A listing of positions of a list visits each of them.
LEMMA ListingType ==
  ASSUME NEW m \in Nat, NEW S \in SUBSET (1..m), NEW s \in InOrder(S)
  PROVE  /\ Len(s) \in Nat /\ DOMAIN s = 1..Len(s)
         /\ \A k \in DOMAIN s : s[k] \in S
         /\ \A i \in S : \E k \in DOMAIN s : s[k] = i
<1>1. IsFiniteSet(S)
  <2>1. IsFiniteSet(1..m)
    BY FS_Interval
  <2>2. QED
    BY <2>1, FS_Subset
<1>2. /\ s \in Seq(S) /\ DOMAIN s = 1..Len(s) /\ Len(s) \in Nat
      /\ \A i \in S : \E k \in DOMAIN s : s[k] = i
  BY <1>1, InOrderType
<1>3. \A k \in DOMAIN s : s[k] \in S
  BY <1>2
<1>4. QED
  BY <1>2, <1>3

\* Closure actions are well-formed, one for each receiver of the list.
LEMMA FreeActionsType ==
  ASSUME NEW n \in Nat, NEW rs \in [1..n -> Receivers \cup {ZeroAddress}], now \in Nat
  PROVE  /\ FreeActions(rs) \in Seq(Action)
         /\ Len(FreeActions(rs)) = n
         /\ \A k \in 1..n : /\ FreeActions(rs)[k].receiver = rs[k]
                            /\ FreeActions(rs)[k].size = 0
                            /\ FreeActions(rs)[k].minDeposit = 0
<1>1. unixToTron(now) \in Nat
  BY CoreAssumption DEF unixToTron
<1>2. \A k \in 1..n : ActionOf(rs[k], 0, 0) \in Action
  BY <1>1 DEF ActionOf, Action
<1>3. FreeActions(rs) = [k \in 1..n |-> ActionOf(rs[k], 0, 0)]
  BY DEF FreeActions
<1>4. FreeActions(rs) \in [1..n -> Action]
  BY <1>2, <1>3
<1>5. FreeActions(rs) \in Seq(Action) /\ Len(FreeActions(rs)) = n
  BY <1>4
<1>6. QED
  BY <1>3, <1>5 DEF ActionOf

\* Appending to the chain keeps the actions that are on it.
LEMMA ChainGrows ==
  ASSUME NEW c \in Seq(Action), NEW d \in Seq(Action)
  PROVE  /\ c \o d \in Seq(Action)
         /\ Len(c \o d) = Len(c) + Len(d)
         /\ DOMAIN c \subseteq DOMAIN (c \o d)
         /\ \A j \in DOMAIN c : (c \o d)[j] = c[j]
         /\ \A k \in 1..Len(d) : /\ Len(c) + k \in DOMAIN (c \o d)
                                 /\ (c \o d)[Len(c) + k] = d[k]
         /\ \A j \in DOMAIN (c \o d) : j \notin DOMAIN c =>
              j - Len(c) \in 1..Len(d) /\ (c \o d)[j] = d[j - Len(c)]
OBVIOUS

\* The chain after a handler appended a list of closure actions.
LEMMA ChainWithFrees ==
  ASSUME actionChain \in Seq(Action), now \in Nat,
         NEW n \in Nat, NEW rs \in [1..n -> Receivers \cup {ZeroAddress}],
         actionChain' = actionChain \o FreeActions(rs)
  PROVE  /\ actionChain' \in Seq(Action)
         /\ Len(actionChain') = Len(actionChain) + n
         /\ actions \subseteq actions'
         /\ \A j \in actions : actionChain'[j] = actionChain[j]
         /\ \A k \in 1..n :
              LET j == Len(actionChain) + k IN
              /\ j \in actions'
              /\ actionChain'[j].receiver = rs[k]
              /\ actionChain'[j].size = 0 /\ actionChain'[j].minDeposit = 0
         /\ \A j \in actions' \ actions :
              \E k \in 1..n : j = Len(actionChain) + k /\ actionChain'[j].receiver = rs[k]
<1>. DEFINE d == FreeActions(rs)
<1>1. /\ d \in Seq(Action) /\ Len(d) = n
      /\ \A k \in 1..n : d[k].receiver = rs[k] /\ d[k].size = 0 /\ d[k].minDeposit = 0
  BY FreeActionsType
<1>. HIDE DEF d
<1>2. actionChain' = actionChain \o d
  BY DEF d
<1>3. /\ actionChain' \in Seq(Action)
      /\ Len(actionChain') = Len(actionChain) + n
      /\ actions \subseteq actions'
      /\ \A j \in actions : actionChain'[j] = actionChain[j]
      /\ \A k \in 1..n : /\ Len(actionChain) + k \in actions'
                         /\ actionChain'[Len(actionChain) + k] = d[k]
      /\ \A j \in actions' \ actions :
           j - Len(actionChain) \in 1..n /\ actionChain'[j] = d[j - Len(actionChain)]
  <2>. DEFINE c == actionChain
              e == c \o d
  <2>1. /\ e \in Seq(Action)
        /\ Len(e) = Len(c) + Len(d)
        /\ DOMAIN c \subseteq DOMAIN e
        /\ \A j \in DOMAIN c : e[j] = c[j]
        /\ \A k \in 1..Len(d) : Len(c) + k \in DOMAIN e /\ e[Len(c) + k] = d[k]
        /\ \A j \in DOMAIN e : j \notin DOMAIN c =>
             j - Len(c) \in 1..Len(d) /\ e[j] = d[j - Len(c)]
    BY <1>1, ChainGrows
  <2>2. actionChain' = e /\ c = actionChain
    BY <1>2
  <2>. HIDE DEF c, e
  <2>3. QED
    BY <1>1, <2>1, <2>2 DEF actions
<1>4. \A j \in actions' \ actions :
        \E k \in 1..n : j = Len(actionChain) + k /\ actionChain'[j].receiver = rs[k]
  <2>. TAKE j \in actions' \ actions
  <2>1. j \in Int /\ Len(actionChain) \in Int
    BY <1>3 DEF actions
  <2>2. j - Len(actionChain) \in 1..n /\ j = Len(actionChain) + (j - Len(actionChain))
    BY <1>3, <2>1
  <2>3. actionChain'[j].receiver = rs[j - Len(actionChain)]
    BY <1>1, <1>3, <2>2
  <2>4. QED
    BY <2>2, <2>3
<1>5. QED
  BY <1>1, <1>3, <1>4

-----------------------------------------------------------------------------
(* Type correctness. *)

\* The contract starts with every variable of its type.
LEMMA InitType == Init => TypeOK
<1>. SUFFICES ASSUME Init PROVE TypeOK
  OBVIOUS
<1>1. /\ now \in Nat /\ paused \in BOOLEAN /\ stateHash \in StateHashes
  BY DEF Init
<1>2. /\ core \in [maxOrderSize : Nat, requiredCollateral : Nat]
      /\ fees \in [relayerFee : Nat, feePoint : Nat]
  BY CoreAssumption DEF Init
<1>3. /\ actionChain \in Seq(Action) /\ Len(actionChain) <= MaxActions
      /\ usdt \in UInt
  BY CoreAssumption DEF Init, UInt
<1>4. NoOrder \in Order
  BY DEF NoOrder, NoTransfer, Order, TransferType, Addresses
<1>5. orders \in [OrderIds -> Order]
  BY <1>4 DEF Init
<1>6. NoProvider \in Provider
  BY CoreAssumption DEF NoProvider, Provider, UInt
<1>7. /\ isReceiverBusy \in [Receivers \cup {ZeroAddress} -> {NoId} \cup OrderIds]
      /\ receiverOwners \in [Receivers -> Providers \cup {ZeroAddress}]
      /\ providers \in [Providers \cup {ZeroAddress} -> Provider]
  BY <1>6 DEF Init
<1>8. QED
  BY <1>1, <1>2, <1>3, <1>5, <1>7 DEF TypeOK

\* Freeing receivers keeps the type of isReceiverBusy.
LEMMA FreedType ==
  ASSUME TypeOK, NEW R
  PROVE  Freed(R) \in [Receivers \cup {ZeroAddress} -> {NoId} \cup OrderIds]
BY DEF Freed, TypeOK

\* A deleted order reads as a record of the right type.
LEMMA NoOrderType == NoOrder \in Order
BY DEF NoOrder, NoTransfer, Order, TransferType, Addresses

\* createOrder: the liquidity it takes is there, its ID fits the bound.
LEMMA CreateOrderType ==
  ASSUME TypeOK,
         NEW creator \in Creators, NEW provider \in Providers \cup {ZeroAddress},
         NEW receiver \in Receivers, NEW size \in Sizes, NEW transfer \in Transfers,
         createOrder(creator, provider, receiver, size, transfer)
  PROVE  TypeOK'
<1>. DEFINE takeover == Takeover(receiver)
            a        == ActionOf(receiver, providers[provider].minDeposit, size)
            amount   == Converted(size, providers[provider].rate)
            id       == NewOrderId(takeover)
<1>1. /\ providers[provider] \in Provider /\ size \in Nat /\ unixToTron(now) \in Nat
      /\ core.requiredCollateral \in Nat
  BY CoreAssumption DEF TypeOK, unixToTron
<1>2. a \in Action
  BY <1>1 DEF ActionOf, Action, Provider
<1>3. takeover \in Seq(Action) /\ Len(takeover) \in {0, 1}
  <2>1. CASE isReceiverBusy[receiver] = NoId
    BY <2>1 DEF Takeover
  <2>2. CASE isReceiverBusy[receiver] # NoId
    <3>1. <<receiver>> \in [1..1 -> Receivers \cup {ZeroAddress}]
      OBVIOUS
    <3>2. FreeActions(<<receiver>>) \in Seq(Action) /\ Len(FreeActions(<<receiver>>)) = 1
      BY <3>1, FreeActionsType DEF TypeOK
    <3>3. QED
      BY <2>2, <3>2 DEF Takeover
  <2>3. QED
    BY <2>1, <2>2
<1>4. actionChain' = (actionChain \o takeover) \o <<a>>
  BY DEF createOrder
<1>. HIDE DEF a, takeover
<1>5. /\ actionChain' \in Seq(Action)
      /\ Len(actionChain') = Len(actionChain) + Len(takeover) + 1
  BY <1>2, <1>3, <1>4 DEF TypeOK
<1>6. Len(actionChain') <= MaxActions /\ id \in OrderIds
  <2>1. Len(actionChain) + (Len(takeover) + 1) <= MaxActions
    BY DEF createOrder, HasRoom, takeover
  <2>2. Len(actionChain) \in Nat
    BY DEF TypeOK
  <2>3. QED
    BY <1>3, <1>5, <2>1, <2>2, CoreAssumption DEF NewOrderId, OrderIds
<1>7. amount \in Nat /\ amount <= providers[provider].liquidity
  BY <1>1, ConvertedType DEF createOrder, HasLiquidity, Provider
<1>8. providers' \in [Providers \cup {ZeroAddress} -> Provider]
  <2>1. providers[provider].liquidity - amount \in UInt
    BY <1>1, <1>7, CoreAssumption DEF Provider, UInt
  <2>2. [providers[provider] EXCEPT !.liquidity = @ - amount] \in Provider
    BY <1>1, <2>1 DEF Provider
  <2>3. QED
    BY <2>2 DEF TypeOK, createOrder
<1>9. isReceiverBusy' \in [Receivers \cup {ZeroAddress} -> {NoId} \cup OrderIds]
  BY <1>6 DEF TypeOK, createOrder, takeover
<1>10. orders' \in [OrderIds -> Order]
  <2>1. transfer \in TransferType(Addresses)
    BY CoreAssumption DEF TransferType, Addresses
  <2>2. [timestamp |-> unixToTron(now), creator |-> creator,
        provider |-> provider, receiver |-> receiver, size |-> size,
        rate |-> providers[provider].rate,
        minDeposit |-> providers[provider].minDeposit,
        collateral |-> core.requiredCollateral,
        isFulfilled |-> FALSE, transfer |-> transfer] \in Order
    BY <1>1, <2>1 DEF Order, Provider, Addresses, Accounts
  <2>3. QED
    BY <2>2, <1>6 DEF TypeOK, createOrder, takeover
<1>11. QED
  BY <1>5, <1>6, <1>8, <1>9, <1>10 DEF TypeOK, createOrder, settings

\* changeOrder replaces a transfer by a transfer.
LEMMA ChangeOrderType ==
  ASSUME TypeOK, NEW sender \in Creators \cup Fulfillers, NEW id \in actions,
         NEW transfer \in Transfers, changeOrder(sender, id, transfer)
  PROVE  TypeOK'
<1>1. id \in OrderIds /\ orders[id] \in Order
  BY CoreAssumption DEF actions, TypeOK, OrderIds
<1>2. transfer \in TransferType(Addresses)
  BY CoreAssumption DEF TransferType, Addresses
<1>3. [orders[id] EXCEPT !.transfer = transfer] \in Order
  BY <1>1, <1>2 DEF Order
<1>4. orders' \in [OrderIds -> Order]
  BY <1>1, <1>3 DEF changeOrder, TypeOK
<1>5. QED
  BY <1>4 DEF changeOrder, TypeOK, settings

\* stopOrder: what it credits and pays out stays in uint256.
LEMMA StopOrderType ==
  ASSUME TypeOK, NEW sender \in Creators \cup Fulfillers, NEW id \in actions,
         stopOrder(sender, id)
  PROVE  TypeOK'
<1>1. id \in OrderIds /\ orders[id] \in Order
  BY CoreAssumption DEF actions, TypeOK, OrderIds
<1>. DEFINE r == orders[id].receiver
            p == orders[id].provider
<1>2. /\ r \in Receivers \cup {ZeroAddress} /\ p \in Providers \cup {ZeroAddress}
      /\ orders[id].size \in Nat
  BY <1>1 DEF Order
<1>3. <<r>> \in [1..1 -> Receivers \cup {ZeroAddress}]
  BY <1>2
<1>4. actionChain' \in Seq(Action) /\ Len(actionChain') = Len(actionChain) + 1
  BY <1>3, ChainWithFrees DEF TypeOK, stopOrder
<1>5. Len(actionChain') <= MaxActions
  BY <1>4 DEF stopOrder, HasRoom
<1>6. isReceiverBusy' \in [Receivers \cup {ZeroAddress} -> {NoId} \cup OrderIds]
  BY FreedType DEF stopOrder
<1>7. providers' \in [Providers \cup {ZeroAddress} -> Provider]
  <2>1. providers[p] \in Provider /\ providers[p].liquidity + orders[id].size \in UInt
    BY <1>2 DEF TypeOK, stopOrder
  <2>2. [providers[p] EXCEPT !.liquidity = @ + orders[id].size] \in Provider
    BY <2>1 DEF Provider
  <2>3. QED
    BY <2>2 DEF TypeOK, stopOrder
<1>8. orders' \in [OrderIds -> Order]
  BY NoOrderType DEF TypeOK, stopOrder
<1>9. usdt' \in UInt
  BY DEF stopOrder
<1>10. QED
  BY <1>4, <1>5, <1>6, <1>7, <1>8, <1>9 DEF TypeOK, stopOrder, settings

\* What the IDs of a batch are.
LEMMA IdListsType ==
  ASSUME TypeOK, NEW ids \in IdLists
  PROVE  /\ DOMAIN ids = 1..Len(ids) /\ Len(ids) \in Nat
         /\ \A i \in DOMAIN ids : ids[i] \in actions /\ ids[i] \in OrderIds
                                  /\ orders[ids[i]] \in Order
<1>1. PICK n \in 0..MaxBatch : ids \in [1..n -> actions]
  BY DEF IdLists
<1>2. n \in Nat /\ Len(ids) = n
  BY <1>1, CoreAssumption
<1>3. actions \subseteq OrderIds
  BY CoreAssumption DEF actions, TypeOK, OrderIds
<1>4. QED
  BY <1>1, <1>2, <1>3 DEF TypeOK

\* fulfill: the balance after a batch stays in uint256.
LEMMA FulfillType ==
  ASSUME TypeOK, NEW sender \in Fulfillers, NEW ids \in IdLists,
         NEW total \in Totals, NEW bonus \in Bonuses,
         fulfill(sender, ids, total, bonus)
  PROVE  TypeOK'
<1>. DEFINE rs == [i \in DOMAIN ids |-> orders[ids[i]].receiver]
<1>1. rs \in [1..Len(ids) -> Receivers \cup {ZeroAddress}] /\ Len(ids) \in Nat
  BY IdListsType DEF Order
<1>2. actionChain' = actionChain \o FreeActions(rs)
  BY DEF fulfill
<1>3. actionChain' \in Seq(Action) /\ Len(actionChain') = Len(actionChain) + Len(ids)
  BY <1>1, <1>2, ChainWithFrees DEF TypeOK
<1>4. Len(actionChain') <= MaxActions
  BY <1>3 DEF fulfill, HasRoom
<1>5. isReceiverBusy' \in [Receivers \cup {ZeroAddress} -> {NoId} \cup OrderIds]
  BY FreedType DEF fulfill
<1>6. orders' \in [OrderIds -> Order]
  <2>1. \A o \in Order : FulfilledBy(o, sender) \in Order
    <3>. TAKE o \in Order
    <3>1. o.transfer \in TransferType(Addresses) /\ sender \in Addresses
      BY DEF Order, Addresses, Accounts
    <3>2. [o.transfer EXCEPT !.recipient = sender, !.chainId = HostChain,
                             !.doSwap = FALSE] \in TransferType(Addresses)
      BY <3>1 DEF TransferType
    <3>3. QED
      BY <3>1, <3>2 DEF FulfilledBy, Order, TransferType
  <2>2. QED
    BY <2>1 DEF TypeOK, fulfill
<1>7. usdt' \in UInt
  BY DEF fulfill
<1>8. QED
  BY <1>3, <1>4, <1>5, <1>6, <1>7 DEF TypeOK, fulfill, settings

\* closeOrders: the balance and every credited liquidity stay in uint256.
LEMMA CloseOrdersType ==
  ASSUME TypeOK, NEW oldHash \in StateHashes, NEW newHash \in StateHashes,
         NEW latest, NEW ids \in IdLists, NEW bonus \in Bonuses,
         NEW inflow \in [DOMAIN ids -> Inflows],
         closeOrders(oldHash, newHash, latest, ids, inflow, bonus)
  PROVE  TypeOK'
<1>. DEFINE freed == [i \in DOMAIN ids |-> orders[ids[i]].receiver]
            open  == {i \in DOMAIN ids : ~orders[ids[i]].isFulfilled}
<1>1. PICK s \in InOrder(open) :
        /\ HasRoom(Len(s))
        /\ actionChain' = actionChain \o FreeActions([k \in DOMAIN s |-> freed[s[k]]])
  BY DEF closeOrders
<1>. DEFINE rs == [k \in DOMAIN s |-> freed[s[k]]]
<1>2. open \in SUBSET (1..Len(ids)) /\ Len(ids) \in Nat
  BY IdListsType
<1>3. freed \in [1..Len(ids) -> Receivers \cup {ZeroAddress}]
  BY IdListsType DEF Order
<1>4. rs \in [1..Len(s) -> Receivers \cup {ZeroAddress}] /\ Len(s) \in Nat
  <2>1. /\ Len(s) \in Nat /\ DOMAIN s = 1..Len(s)
        /\ \A k \in DOMAIN s : s[k] \in 1..Len(ids)
    <3>. HIDE DEF open
    <3>1. QED
      BY <1>2, ListingType
  <2>. HIDE DEF freed
  <2>2. QED
    BY <1>3, <2>1
<1>5. actionChain' \in Seq(Action) /\ Len(actionChain') = Len(actionChain) + Len(s)
  BY <1>1, <1>4, ChainWithFrees DEF TypeOK
<1>6. Len(actionChain') <= MaxActions
  BY <1>1, <1>5 DEF HasRoom
<1>7. isReceiverBusy' \in [Receivers \cup {ZeroAddress} -> {NoId} \cup OrderIds]
  BY FreedType DEF closeOrders
<1>8. providers' \in [Providers \cup {ZeroAddress} -> Provider]
  <2>1. \A p \in DOMAIN providers :
          /\ providers[p] \in Provider
          /\ providers[p].liquidity + Returned(p, ids, inflow) \in UInt
    BY DEF TypeOK, closeOrders
  <2>2. \A p \in DOMAIN providers :
          [providers[p] EXCEPT !.liquidity = @ + Returned(p, ids, inflow)] \in Provider
    BY <2>1 DEF Provider
  <2>3. QED
    BY <2>2 DEF TypeOK, closeOrders
<1>9. orders' \in [OrderIds -> Order]
  BY NoOrderType DEF TypeOK, closeOrders
<1>10. usdt' \in UInt /\ stateHash' \in StateHashes
  BY DEF closeOrders
<1>11. QED
  BY <1>5, <1>6, <1>7, <1>8, <1>9, <1>10 DEF TypeOK, closeOrders, settings

\* The positions of the busy receivers that setProvider frees.
LEMMA ClearedType ==
  ASSUME TypeOK, NEW receivers \in ReceiverLists
  PROVE  /\ {i \in DOMAIN receivers : isReceiverBusy[receivers[i]] # NoId}
              \in SUBSET (1..Len(receivers))
         /\ Len(receivers) \in Nat
         /\ receivers \in [1..Len(receivers) -> Receivers \cup {ZeroAddress}]
BY CoreAssumption

\* setProvider: the liquidity is absolute and the payment stays in uint256.
LEMMA SetProviderType ==
  ASSUME TypeOK, NEW sender \in Providers, NEW liquidity \in Liquidities,
         NEW terms \in Terms, NEW receivers \in ReceiverLists,
         setProvider(sender, liquidity, terms, receivers)
  PROVE  TypeOK'
<1>. DEFINE busy == {i \in DOMAIN receivers : isReceiverBusy[receivers[i]] # NoId}
<1>1. PICK s \in InOrder(busy) :
        /\ HasRoom(Len(s))
        /\ actionChain' = actionChain \o FreeActions([k \in DOMAIN s |-> receivers[s[k]]])
  BY DEF setProvider
<1>. DEFINE rs == [k \in DOMAIN s |-> receivers[s[k]]]
<1>2. rs \in [1..Len(s) -> Receivers \cup {ZeroAddress}] /\ Len(s) \in Nat
  <2>1. /\ busy \in SUBSET (1..Len(receivers)) /\ Len(receivers) \in Nat
        /\ receivers \in [1..Len(receivers) -> Receivers \cup {ZeroAddress}]
    BY ClearedType
  <2>2. /\ Len(s) \in Nat /\ DOMAIN s = 1..Len(s)
        /\ \A k \in DOMAIN s : s[k] \in 1..Len(receivers)
    <3>. HIDE DEF busy
    <3>1. QED
      BY <2>1, ListingType
  <2>3. QED
    BY <2>1, <2>2
<1>3. actionChain' \in Seq(Action) /\ Len(actionChain') = Len(actionChain) + Len(s)
  BY <1>1, <1>2, ChainWithFrees DEF TypeOK
<1>4. Len(actionChain') <= MaxActions
  BY <1>1, <1>3 DEF HasRoom
<1>5. isReceiverBusy' \in [Receivers \cup {ZeroAddress} -> {NoId} \cup OrderIds]
  BY FreedType DEF setProvider
<1>6. receiverOwners' \in [Receivers -> Providers \cup {ZeroAddress}]
  BY DEF TypeOK, setProvider
<1>7. providers' \in [Providers \cup {ZeroAddress} -> Provider]
  <2>1. RangeOf(receivers) \subseteq Receivers
    BY CoreAssumption DEF RangeOf
  <2>2. [liquidity |-> liquidity, rate |-> terms.rate,
        minOrderSize |-> terms.minOrderSize, minDeposit |-> terms.minDeposit,
        receivers |-> RangeOf(receivers)] \in Provider
    BY <2>1, CoreAssumption DEF Provider
  <2>3. QED
    BY <2>2 DEF TypeOK, setProvider
<1>8. usdt' \in UInt
  BY DEF setProvider
<1>9. QED
  BY <1>3, <1>4, <1>5, <1>6, <1>7, <1>8 DEF TypeOK, setProvider, settings

\* updateActionChain appends one well-formed action.
LEMMA UpdateActionChainType ==
  ASSUME TypeOK, NEW receiver \in EmergencyReceivers, NEW size \in Sizes,
         updateActionChain(receiver, 0, size)
  PROVE  TypeOK'
<1>1. ActionOf(receiver, 0, size) \in Action
  BY CoreAssumption DEF TypeOK, ActionOf, Action, unixToTron
<1>2. /\ actionChain' \in Seq(Action)
      /\ Len(actionChain') = Len(actionChain) + 1
  BY <1>1 DEF TypeOK, updateActionChain
<1>3. Len(actionChain') <= MaxActions
  BY <1>2 DEF updateActionChain, HasRoom
<1>4. QED
  BY <1>2, <1>3 DEF TypeOK, updateActionChain, settings

\* The setters, the pause switch and the clock.
Administration ==
  \/ \E new \in CoreSettings : setCoreVariables(new)
  \/ \E new \in FeeSettings : setFeesVariables(new)
  \/ \E flag \in BOOLEAN : SetPaused(flag)
  \/ Tick
  \/ UNCHANGED vars

\* The settings of the owner and the clock keep their types.
LEMMA AdministrationType ==
  ASSUME TypeOK, Administration
  PROVE  TypeOK'
<1>1. ASSUME NEW new \in CoreSettings, setCoreVariables(new) PROVE TypeOK'
  BY <1>1, CoreAssumption DEF setCoreVariables, TypeOK, books
<1>2. ASSUME NEW new \in FeeSettings, setFeesVariables(new) PROVE TypeOK'
  BY <1>2, CoreAssumption DEF setFeesVariables, TypeOK, books
<1>3. ASSUME NEW flag \in BOOLEAN, SetPaused(flag) PROVE TypeOK'
  BY <1>3 DEF SetPaused, TypeOK, books
<1>4. CASE Tick
  BY <1>4 DEF Tick, TypeOK, books, settings
<1>5. CASE UNCHANGED vars
  BY <1>5 DEF vars, TypeOK, books, settings
<1>6. QED
  BY <1>1, <1>2, <1>3, <1>4, <1>5 DEF Administration

\* The books do not change in these steps.
LEMMA AdministrationBooks ==
  ASSUME Administration
  PROVE  UNCHANGED <<books, receiverOwners>>
BY DEF Administration, setCoreVariables, setFeesVariables, SetPaused, Tick, vars

\* Every transaction keeps the types.
LEMMA NextType == TypeOK /\ [Next]_vars => TypeOK'
<1>. SUFFICES ASSUME TypeOK, [Next]_vars PROVE TypeOK'
  OBVIOUS
<1>1. CASE CreatorNext
  BY <1>1, CreateOrderType DEF CreatorNext
<1>2. CASE HolderNext
  BY <1>2, ChangeOrderType, StopOrderType DEF HolderNext
<1>3. CASE FulfillerNext
  BY <1>3, FulfillType DEF FulfillerNext
<1>4. CASE RelayerNext
  BY <1>4, CloseOrdersType DEF RelayerNext
<1>5. CASE ProviderNext
  BY <1>5, SetProviderType DEF ProviderNext
<1>6. CASE OwnerNext \/ Tick \/ UNCHANGED vars
  BY <1>6, UpdateActionChainType, AdministrationType DEF OwnerNext, Administration
<1>7. QED
  BY <1>1, <1>2, <1>3, <1>4, <1>5, <1>6 DEF Next

\* Every variable of the contract keeps its type: in particular no balance or
\* liquidity leaves the range of uint256 in any sequence of transactions.
THEOREM TypeCorrect == Spec => []TypeOK
BY InitType, NextType, PTL DEF Spec

-----------------------------------------------------------------------------
(***************************************************************************)
(* The receivers and the chain.  BusyHoldsOrder is what the contract       *)
(* relies on, ChainHoldsOrder and OrphansAnnounced are what the ZK program *)
(* relies on.  They are inductive together with the fact that an ID is     *)
(* not written before its action exists.                                   *)
(***************************************************************************)
Unwritten == \A id \in OrderIds \ actions : orders[id] = NoOrder

BooksInv ==
  TypeOK /\ Unwritten /\ BusyHoldsOrder /\ ChainHoldsOrder /\ OrphansAnnounced

\* Two versions of an order that ask for the same thing.
SameTerms(o, p) ==
  /\ o.receiver = p.receiver /\ o.provider = p.provider
  /\ o.timestamp = p.timestamp /\ o.minDeposit = p.minDeposit /\ o.size = p.size

\* The books are empty at the start.
LEMMA InitBooks == Init => BooksInv
<1>. SUFFICES ASSUME Init PROVE BooksInv
  OBVIOUS
<1>1. TypeOK
  BY InitType
<1>2. actions = {}
  BY DEF Init, actions
<1>3. \A r \in Receivers : isReceiverBusy[r] = NoId
  BY DEF Init
<1>4. Unwritten
  BY DEF Init, Unwritten
<1>5. QED
  BY <1>1, <1>2, <1>3, <1>4
     DEF BooksInv, BusyHoldsOrder, ChainHoldsOrder, OrphansAnnounced

\* The argument that stopOrder, fulfill, closeOrders and setProvider share: a
\* step that frees a set R of receivers, announces each of them on the chain,
\* ends only orders whose receiver is in R and keeps the terms of the others.
LEMMA FreeingKeepsBooks ==
  ASSUME BooksInv, TypeOK',
         NEW n \in Nat, NEW rs \in [1..n -> Receivers \cup {ZeroAddress}],
         NEW R,
         \A k \in 1..n : rs[k] \in R,
         \A r \in R : \E k \in 1..n : rs[k] = r,
         actionChain' = actionChain \o FreeActions(rs),
         isReceiverBusy' = Freed(R),
         \A id \in OrderIds \ actions : orders'[id] = orders[id],
         \A id \in actions : IsOpen(id)' =>
           IsOpen(id) /\ SameTerms(orders'[id], orders[id]),
         \A id \in actions : IsOpen(id) /\ orders[id].receiver \notin R =>
           IsOpen(id)',
         \A r \in Receivers \ R : isReceiverBusy[r] # NoId =>
           receiverOwners'[r] = receiverOwners[r]
  PROVE  BooksInv'
<1>1. /\ actions \subseteq actions'
      /\ \A j \in actions : actionChain'[j] = actionChain[j]
      /\ \A k \in 1..n : LET j == Len(actionChain) + k IN
           /\ j \in actions'
           /\ actionChain'[j].receiver = rs[k]
           /\ actionChain'[j].size = 0 /\ actionChain'[j].minDeposit = 0
      /\ \A j \in actions' \ actions :
           \E k \in 1..n : j = Len(actionChain) + k /\ actionChain'[j].receiver = rs[k]
  <2>1. actionChain \in Seq(Action) /\ now \in Nat
    BY DEF BooksInv, TypeOK
  <2>2. QED
    BY <2>1, ChainWithFrees
<1>2. /\ actions = 1..Len(actionChain) /\ Len(actionChain) \in Nat
      /\ actions \subseteq OrderIds /\ actions' \subseteq OrderIds
  <2>1. actionChain \in Seq(Action) /\ Len(actionChain) <= MaxActions
    BY DEF BooksInv, TypeOK
  <2>2. actionChain' \in Seq(Action) /\ Len(actionChain') <= MaxActions
    BY DEF TypeOK
  <2>3. QED
    BY <2>1, <2>2, CoreAssumption DEF actions, OrderIds
<1>3. \A r \in Receivers : /\ r \in R => isReceiverBusy'[r] = NoId
                           /\ r \notin R => isReceiverBusy'[r] = isReceiverBusy[r]
  BY DEF Freed, BooksInv, TypeOK
<1>4. \A j \in actions' \ actions : actionChain'[j].receiver \in R
  BY <1>1
<1>5. Unwritten'
  BY <1>1 DEF BooksInv, Unwritten
<1>6. BusyHoldsOrder'
  <2>. SUFFICES ASSUME NEW r \in Receivers, isReceiverBusy'[r] # NoId
                PROVE  (LET id == isReceiverBusy[r] IN
                        /\ id \in actions
                        /\ IsOpen(id)
                        /\ orders[id].receiver = r
                        /\ orders[id].provider = receiverOwners[r])'
    BY DEF BusyHoldsOrder
  <2>1. r \notin R /\ isReceiverBusy'[r] = isReceiverBusy[r]
    BY <1>3
  <2>. DEFINE id == isReceiverBusy[r]
  <2>2. /\ id \in actions /\ IsOpen(id)
        /\ orders[id].receiver = r /\ orders[id].provider = receiverOwners[r]
    BY <2>1 DEF BooksInv, BusyHoldsOrder
  <2>3. IsOpen(id)'
    BY <2>1, <2>2
  <2>4. SameTerms(orders'[id], orders[id]) /\ receiverOwners'[r] = receiverOwners[r]
    BY <2>1, <2>2, <2>3
  <2>5. QED
    BY <1>1, <2>1, <2>2, <2>3, <2>4 DEF SameTerms
<1>7. ChainHoldsOrder'
  <2>. SUFFICES ASSUME NEW r \in Receivers \ EmergencyReceivers,
                       isReceiverBusy'[r] # NoId
                PROVE  LET id == isReceiverBusy'[r] IN
                       /\ actionChain'[id] =
                            [timestamp |-> orders'[id].timestamp, receiver |-> r,
                             minDeposit |-> orders'[id].minDeposit,
                             size |-> orders'[id].size]
                       /\ \A j \in actions' : j > id => actionChain'[j].receiver # r
    BY DEF ChainHoldsOrder
  <2>1. r \notin R /\ isReceiverBusy'[r] = isReceiverBusy[r]
    BY <1>3
  <2>. DEFINE id == isReceiverBusy[r]
  <2>2. /\ id \in actions /\ IsOpen(id) /\ orders[id].receiver = r
        /\ actionChain[id] = [timestamp |-> orders[id].timestamp, receiver |-> r,
                              minDeposit |-> orders[id].minDeposit,
                              size |-> orders[id].size]
        /\ \A j \in actions : j > id => actionChain[j].receiver # r
    BY <2>1 DEF BooksInv, BusyHoldsOrder, ChainHoldsOrder
  <2>3. SameTerms(orders'[id], orders[id])
    BY <2>1, <2>2
  <2>4. ASSUME NEW j \in actions', j > id PROVE actionChain'[j].receiver # r
    <3>1. CASE j \in actions
      <4>1. actionChain'[j] = actionChain[j] /\ actionChain[j].receiver # r
        BY <1>1, <2>2, <2>4, <3>1
      <4>2. QED
        BY <4>1
    <3>2. CASE j \notin actions
      <4>1. j \in actions' \ actions
        BY <2>4, <3>2
      <4>2. actionChain'[j].receiver \in R
        BY <1>4, <4>1
      <4>3. QED
        BY <2>1, <4>2
    <3>3. QED
      BY <3>1, <3>2
  <2>5. actionChain'[id] = [timestamp |-> orders'[id].timestamp, receiver |-> r,
                            minDeposit |-> orders'[id].minDeposit,
                            size |-> orders'[id].size]
    BY <1>1, <2>2, <2>3 DEF SameTerms
  <2>. HIDE DEF id
  <2>6. isReceiverBusy'[r] = id
    BY <2>1 DEF id
  <2>7. QED
    BY <2>4, <2>5, <2>6
<1>8. OrphansAnnounced'
  <2>. SUFFICES ASSUME NEW id \in actions', IsOpen(id)',
                       isReceiverBusy'[orders'[id].receiver] # id
                PROVE  \E j \in actions' :
                         /\ j > id /\ actionChain'[j].receiver = orders'[id].receiver
                         /\ actionChain'[j].size = 0 /\ actionChain'[j].minDeposit = 0
    BY DEF OrphansAnnounced
  <2>1. id \in actions
    <3>1. id \notin actions => orders'[id] = NoOrder
      BY <1>2, <1>5 DEF BooksInv, Unwritten
    <3>2. QED
      BY <3>1 DEF IsOpen, IsStored, NoOrder
  <2>2. IsOpen(id) /\ orders'[id].receiver = orders[id].receiver
    BY <2>1 DEF SameTerms
  <2>. DEFINE r == orders[id].receiver
  <2>3. CASE r \in R
    <3>1. PICK k \in 1..n : rs[k] = r
      BY <2>3
    <3>2. Len(actionChain) + k > id
      BY <1>2, <2>1
    <3>. DEFINE j == Len(actionChain) + k
    <3>3. /\ j \in actions' /\ j > id
          /\ actionChain'[j].receiver = rs[k]
          /\ actionChain'[j].size = 0 /\ actionChain'[j].minDeposit = 0
      BY <1>1, <3>2
    <3>. HIDE DEF j
    <3>4. QED
      BY <2>2, <3>1, <3>3
  <2>4. CASE r \notin R
    <3>1. r \in Receivers \cup {ZeroAddress}
      BY <1>2, <2>1 DEF BooksInv, TypeOK, Order
    <3>2. isReceiverBusy'[r] = isReceiverBusy[r]
      BY <2>4, <3>1 DEF Freed, BooksInv, TypeOK
    <3>3. PICK j \in actions :
            /\ j > id /\ actionChain[j].receiver = r
            /\ actionChain[j].size = 0 /\ actionChain[j].minDeposit = 0
      BY <2>1, <2>2, <3>2 DEF BooksInv, OrphansAnnounced
    <3>4. QED
      BY <1>1, <2>2, <3>3
  <2>5. QED
    BY <2>3, <2>4
<1>9. QED
  BY <1>5, <1>6, <1>7, <1>8 DEF BooksInv

\* What the IDs on the chain are.
LEMMA ActionsType ==
  ASSUME TypeOK
  PROVE  /\ actions = 1..Len(actionChain) /\ Len(actionChain) \in Nat
         /\ actions \subseteq OrderIds
         /\ \A id \in actions : orders[id] \in Order
<1>1. actions = 1..Len(actionChain) /\ Len(actionChain) \in Nat
      /\ actions \subseteq OrderIds
  BY CoreAssumption DEF TypeOK, actions, OrderIds
<1>2. QED
  BY <1>1 DEF TypeOK

\* stopOrder ends one order and frees its receiver.
LEMMA StopOrderBooks ==
  ASSUME BooksInv, NEW sender \in Creators \cup Fulfillers, NEW id \in actions,
         stopOrder(sender, id)
  PROVE  BooksInv'
<1>. DEFINE R  == {orders[id].receiver}
            rs == <<orders[id].receiver>>
            n  == 1
<1>1. TypeOK /\ TypeOK'
  BY StopOrderType DEF BooksInv
<1>2. id \in OrderIds /\ orders[id] \in Order
  BY <1>1, ActionsType
<1>3. n \in Nat /\ rs \in [1..n -> Receivers \cup {ZeroAddress}]
  BY <1>2 DEF Order
<1>4. (\A k \in 1..n : rs[k] \in R) /\ \A r \in R : \E k \in 1..n : rs[k] = r
  OBVIOUS
<1>5. /\ actionChain' = actionChain \o FreeActions(rs)
      /\ isReceiverBusy' = Freed(R)
      /\ receiverOwners' = receiverOwners
      /\ orders' = [orders EXCEPT ![id] = NoOrder]
  BY DEF stopOrder
<1>6. ~IsOpen(id)'
  BY <1>1, <1>2, <1>5 DEF TypeOK, IsOpen, IsStored, NoOrder
<1>7. \A i \in OrderIds : i # id => orders'[i] = orders[i]
  BY <1>1, <1>5 DEF TypeOK
<1>8. \A i \in actions : IsOpen(i)' => IsOpen(i) /\ SameTerms(orders'[i], orders[i])
  BY <1>1, <1>6, <1>7, ActionsType DEF IsOpen, IsStored, SameTerms
<1>9. \A i \in actions : IsOpen(i) /\ orders[i].receiver \notin R => IsOpen(i)'
  BY <1>1, <1>7, ActionsType DEF IsOpen, IsStored
<1>10. \A i \in OrderIds \ actions : orders'[i] = orders[i]
  BY <1>7
<1>. HIDE DEF R, rs, n
<1>11. \A r \in Receivers \ R : isReceiverBusy[r] # NoId =>
         receiverOwners'[r] = receiverOwners[r]
  BY <1>5
<1>12. actionChain' = actionChain \o FreeActions(rs) /\ isReceiverBusy' = Freed(R)
  BY <1>5
<1>13. QED
  BY <1>1, <1>3, <1>4, <1>8, <1>9, <1>10, <1>11, <1>12, FreeingKeepsBooks

\* fulfill frees the receivers of its batch and keeps the terms.
LEMMA FulfillBooks ==
  ASSUME BooksInv, NEW sender \in Fulfillers, NEW ids \in IdLists,
         NEW total \in Totals, NEW bonus \in Bonuses,
         fulfill(sender, ids, total, bonus)
  PROVE  BooksInv'
<1>. DEFINE rs == [i \in DOMAIN ids |-> orders[ids[i]].receiver]
            R  == RangeOf(rs)
            n  == Len(ids)
<1>1. TypeOK /\ TypeOK'
  BY FulfillType DEF BooksInv
<1>2. /\ n \in Nat /\ DOMAIN ids = 1..n
      /\ rs \in [1..n -> Receivers \cup {ZeroAddress}]
  BY <1>1, IdListsType DEF Order
<1>3. (\A k \in 1..n : rs[k] \in R) /\ \A r \in R : \E k \in 1..n : rs[k] = r
  BY <1>2 DEF RangeOf
<1>4. /\ actionChain' = actionChain \o FreeActions(rs)
      /\ isReceiverBusy' = Freed(R)
      /\ receiverOwners' = receiverOwners
      /\ orders' = [i \in OrderIds |-> IF i \in RangeOf(ids)
                                       THEN FulfilledBy(orders[i], sender) ELSE orders[i]]
  BY DEF fulfill
<1>5. \A i \in OrderIds : i \notin RangeOf(ids) => orders'[i] = orders[i]
  BY <1>4
<1>6. \A i \in RangeOf(ids) : i \in actions /\ orders[i].receiver \in R
  BY <1>1, IdListsType DEF RangeOf
<1>7. \A i \in RangeOf(ids) : ~IsOpen(i)'
  <2>1. \A i \in RangeOf(ids) : i \in OrderIds /\ orders[i] \in Order
    BY <1>1, <1>6, ActionsType
  <2>2. \A o \in Order : FulfilledBy(o, sender).isFulfilled
    BY DEF FulfilledBy, Order
  <2>3. QED
    BY <1>4, <2>1, <2>2 DEF IsOpen
<1>8. \A i \in actions : IsOpen(i)' => IsOpen(i) /\ SameTerms(orders'[i], orders[i])
  BY <1>1, <1>5, <1>7, ActionsType DEF IsOpen, IsStored, SameTerms
<1>9. \A i \in actions : IsOpen(i) /\ orders[i].receiver \notin R => IsOpen(i)'
  BY <1>1, <1>5, <1>6, ActionsType DEF IsOpen, IsStored
<1>. HIDE DEF R, rs, n
<1>10. \A i \in OrderIds \ actions : orders'[i] = orders[i]
  BY <1>5, <1>6
<1>11. \A r \in Receivers \ R : isReceiverBusy[r] # NoId =>
         receiverOwners'[r] = receiverOwners[r]
  BY <1>4
<1>12. actionChain' = actionChain \o FreeActions(rs) /\ isReceiverBusy' = Freed(R)
  BY <1>4
<1>13. QED
  BY <1>1, <1>2, <1>3, <1>8, <1>9, <1>10, <1>11, <1>12, FreeingKeepsBooks

\* closeOrders frees the receivers of those orders that were still open.
LEMMA CloseOrdersBooks ==
  ASSUME BooksInv, NEW oldHash \in StateHashes, NEW newHash \in StateHashes,
         NEW latest, NEW ids \in IdLists, NEW bonus \in Bonuses,
         NEW inflow \in [DOMAIN ids -> Inflows],
         closeOrders(oldHash, newHash, latest, ids, inflow, bonus)
  PROVE  BooksInv'
<1>. DEFINE freed == [i \in DOMAIN ids |-> orders[ids[i]].receiver]
            open  == {i \in DOMAIN ids : ~orders[ids[i]].isFulfilled}
            R     == {freed[i] : i \in open}
<1>1. TypeOK /\ TypeOK'
  BY CloseOrdersType DEF BooksInv
<1>2. PICK s \in InOrder(open) :
        actionChain' = actionChain \o FreeActions([k \in DOMAIN s |-> freed[s[k]]])
  BY DEF closeOrders
<1>. DEFINE rs == [k \in DOMAIN s |-> freed[s[k]]]
            n  == Len(s)
<1>3. open \in SUBSET (1..Len(ids)) /\ Len(ids) \in Nat
  BY <1>1, IdListsType
<1>4. freed \in [1..Len(ids) -> Receivers \cup {ZeroAddress}]
  BY <1>1, IdListsType DEF Order
<1>5. /\ rs \in [1..n -> Receivers \cup {ZeroAddress}] /\ n \in Nat
      /\ \A k \in 1..n : rs[k] \in R
      /\ \A r \in R : \E k \in 1..n : rs[k] = r
  <2>1. /\ n \in Nat /\ DOMAIN s = 1..n
        /\ \A k \in DOMAIN s : s[k] \in open
        /\ \A i \in open : \E k \in DOMAIN s : s[k] = i
    <3>. HIDE DEF open
    <3>1. QED
      BY <1>3, ListingType
  <2>. HIDE DEF freed, open
  <2>2. rs \in [1..n -> Receivers \cup {ZeroAddress}]
    BY <1>3, <1>4, <2>1
  <2>3. /\ \A k \in 1..n : rs[k] \in R
        /\ \A r \in R : \E k \in 1..n : rs[k] = r
    BY <2>1
  <2>4. QED
    BY <2>1, <2>2, <2>3
<1>7. /\ isReceiverBusy' = Freed(R)
      /\ receiverOwners' = receiverOwners
      /\ orders' = [i \in OrderIds |-> IF i \in RangeOf(ids) THEN NoOrder ELSE orders[i]]
  BY DEF closeOrders
<1>8. \A i \in OrderIds : i \notin RangeOf(ids) => orders'[i] = orders[i]
  BY <1>7
<1>9. \A i \in RangeOf(ids) : /\ i \in actions /\ i \in OrderIds
                              /\ IsOpen(i) => orders[i].receiver \in R
  BY <1>1, IdListsType DEF RangeOf, IsOpen
<1>10. \A i \in RangeOf(ids) : ~IsOpen(i)'
  BY <1>7, <1>9 DEF IsOpen, IsStored, NoOrder
<1>11. \A i \in actions : IsOpen(i)' => IsOpen(i) /\ SameTerms(orders'[i], orders[i])
  BY <1>1, <1>8, <1>10, ActionsType DEF IsOpen, IsStored, SameTerms
<1>12. \A i \in actions : IsOpen(i) /\ orders[i].receiver \notin R => IsOpen(i)'
  BY <1>1, <1>8, <1>9, ActionsType DEF IsOpen, IsStored
<1>13. actionChain' = actionChain \o FreeActions(rs)
  BY <1>2
<1>. HIDE DEF R, rs, n
<1>14. \A i \in OrderIds \ actions : orders'[i] = orders[i]
  BY <1>8, <1>9
<1>15. \A r \in Receivers \ R : isReceiverBusy[r] # NoId =>
         receiverOwners'[r] = receiverOwners[r]
  BY <1>7
<1>16. isReceiverBusy' = Freed(R)
  BY <1>7
<1>17. QED
  BY <1>1, <1>5, <1>11, <1>12, <1>13, <1>14, <1>15, <1>16, FreeingKeepsBooks

\* setProvider frees expired receivers and hands free ones to the sender.
LEMMA SetProviderBooks ==
  ASSUME BooksInv, NEW sender \in Providers, NEW liquidity \in Liquidities,
         NEW terms \in Terms, NEW receivers \in ReceiverLists,
         setProvider(sender, liquidity, terms, receivers)
  PROVE  BooksInv'
<1>. DEFINE busy == {i \in DOMAIN receivers : isReceiverBusy[receivers[i]] # NoId}
            R    == {receivers[i] : i \in busy}
<1>1. TypeOK /\ TypeOK'
  BY SetProviderType DEF BooksInv
<1>2. PICK s \in InOrder(busy) :
        actionChain' = actionChain \o FreeActions([k \in DOMAIN s |-> receivers[s[k]]])
  BY DEF setProvider
<1>. DEFINE rs == [k \in DOMAIN s |-> receivers[s[k]]]
            n  == Len(s)
<1>3. /\ busy \in SUBSET (1..Len(receivers)) /\ Len(receivers) \in Nat
      /\ receivers \in [1..Len(receivers) -> Receivers \cup {ZeroAddress}]
  BY <1>1, ClearedType
<1>4. /\ rs \in [1..n -> Receivers \cup {ZeroAddress}] /\ n \in Nat
      /\ \A k \in 1..n : rs[k] \in R
      /\ \A r \in R : \E k \in 1..n : rs[k] = r
  <2>1. /\ n \in Nat /\ DOMAIN s = 1..n
        /\ \A k \in DOMAIN s : s[k] \in busy
        /\ \A i \in busy : \E k \in DOMAIN s : s[k] = i
    <3>. HIDE DEF busy
    <3>1. QED
      BY <1>3, ListingType
  <2>. HIDE DEF busy
  <2>2. rs \in [1..n -> Receivers \cup {ZeroAddress}]
    BY <1>3, <2>1
  <2>3. /\ \A k \in 1..n : rs[k] \in R
        /\ \A r \in R : \E k \in 1..n : rs[k] = r
    BY <2>1
  <2>4. QED
    BY <2>1, <2>2, <2>3
<1>5. /\ isReceiverBusy' = Freed(R)
      /\ orders' = orders
      /\ receiverOwners' = [r \in Receivers |-> IF r \in RangeOf(receivers)
                                                THEN sender ELSE receiverOwners[r]]
  BY DEF setProvider
<1>6. \A r \in Receivers \ R : isReceiverBusy[r] # NoId =>
        receiverOwners'[r] = receiverOwners[r]
  BY <1>5 DEF RangeOf
<1>7. \A i \in actions : /\ IsOpen(i)' <=> IsOpen(i)
                         /\ SameTerms(orders'[i], orders[i])
  BY <1>5 DEF IsOpen, IsStored, SameTerms
<1>8. actionChain' = actionChain \o FreeActions(rs)
  BY <1>2
<1>. HIDE DEF R, rs, n
<1>9. QED
  BY <1>1, <1>4, <1>5, <1>6, <1>7, <1>8, FreeingKeepsBooks

\* Changing a transfer leaves everything the books say alone.
LEMMA ChangeOrderBooks ==
  ASSUME BooksInv, NEW sender \in Creators \cup Fulfillers, NEW id \in actions,
         NEW transfer \in Transfers, changeOrder(sender, id, transfer)
  PROVE  BooksInv'
<1>1. TypeOK /\ TypeOK'
  BY ChangeOrderType DEF BooksInv
<1>2. id \in OrderIds /\ orders[id] \in Order
  BY <1>1, ActionsType
<1>3. /\ orders' = [orders EXCEPT ![id].transfer = transfer]
      /\ actionChain' = actionChain /\ isReceiverBusy' = isReceiverBusy
      /\ receiverOwners' = receiverOwners
  BY DEF changeOrder
<1>4. actions' = actions
  BY <1>3 DEF actions
<1>5. \A i \in OrderIds : i # id => orders'[i] = orders[i]
  BY <1>1, <1>3 DEF TypeOK
<1>6. \A i \in OrderIds : /\ IsOpen(i)' <=> IsOpen(i)
                          /\ SameTerms(orders'[i], orders[i])
  <2>1. orders'[id] = [orders[id] EXCEPT !.transfer = transfer]
    BY <1>1, <1>2, <1>3 DEF TypeOK
  <2>2. (IsOpen(id)' <=> IsOpen(id)) /\ SameTerms(orders'[id], orders[id])
    BY <1>2, <2>1 DEF IsOpen, IsStored, SameTerms, Order
  <2>3. QED
    BY <1>5, <2>2 DEF IsOpen, IsStored, SameTerms
<1>7. Unwritten'
  BY <1>2, <1>4, <1>5 DEF BooksInv, Unwritten
<1>8. BusyHoldsOrder'
  BY <1>1, <1>3, <1>4, <1>6, ActionsType DEF BooksInv, BusyHoldsOrder, SameTerms
<1>9. ChainHoldsOrder'
  <2>1. \A r \in Receivers : isReceiverBusy[r] # NoId => isReceiverBusy[r] \in OrderIds
    BY <1>1 DEF TypeOK
  <2>2. QED
    BY <1>3, <1>4, <1>6, <2>1 DEF BooksInv, ChainHoldsOrder, SameTerms
<1>10. OrphansAnnounced'
  <2>1. actions \subseteq OrderIds
    BY <1>1, ActionsType
  <2>2. QED
    BY <1>3, <1>4, <1>6, <2>1 DEF BooksInv, OrphansAnnounced, SameTerms
<1>11. QED
  BY <1>1, <1>7, <1>8, <1>9, <1>10 DEF BooksInv

\* The owner's patch of the chain names an emergency receiver.
LEMMA UpdateActionChainBooks ==
  ASSUME BooksInv, NEW receiver \in EmergencyReceivers, NEW size \in Sizes,
         updateActionChain(receiver, 0, size)
  PROVE  BooksInv'
<1>. DEFINE a == ActionOf(receiver, 0, size)
            L == Len(actionChain)
<1>1. TypeOK /\ TypeOK'
  BY UpdateActionChainType DEF BooksInv
<1>2. a.receiver = receiver
  BY DEF ActionOf
<1>3. /\ actionChain' = Append(actionChain, a)
      /\ orders' = orders /\ isReceiverBusy' = isReceiverBusy
      /\ receiverOwners' = receiverOwners
  BY DEF updateActionChain
<1>. HIDE DEF a
<1>4. /\ L \in Nat /\ actions = 1..L /\ actions' = 1..(L + 1)
      /\ \A j \in actions : actionChain'[j] = actionChain[j]
      /\ actionChain'[L + 1] = a
  <2>1. actionChain \in Seq(Action)
    BY <1>1 DEF TypeOK
  <2>2. QED
    BY <1>3, <2>1 DEF actions
<1>5. Unwritten'
  BY <1>3, <1>4 DEF BooksInv, Unwritten
<1>6. BusyHoldsOrder'
  BY <1>3, <1>4 DEF BooksInv, BusyHoldsOrder, IsOpen, IsStored
<1>7. ChainHoldsOrder'
  <2>. SUFFICES ASSUME NEW r \in Receivers \ EmergencyReceivers,
                       isReceiverBusy[r] # NoId
                PROVE  LET id == isReceiverBusy[r] IN
                       /\ actionChain'[id] =
                            [timestamp |-> orders[id].timestamp, receiver |-> r,
                             minDeposit |-> orders[id].minDeposit,
                             size |-> orders[id].size]
                       /\ \A j \in actions' : j > id => actionChain'[j].receiver # r
    BY <1>3 DEF ChainHoldsOrder
  <2>. DEFINE id == isReceiverBusy[r]
  <2>1. /\ id \in actions
        /\ actionChain[id] = [timestamp |-> orders[id].timestamp, receiver |-> r,
                              minDeposit |-> orders[id].minDeposit,
                              size |-> orders[id].size]
        /\ \A j \in actions : j > id => actionChain[j].receiver # r
    BY DEF BooksInv, BusyHoldsOrder, ChainHoldsOrder
  <2>2. receiver # r
    OBVIOUS
  <2>. HIDE DEF id
  <2>3. \A j \in actions' : j > id => actionChain'[j].receiver # r
    <3>. TAKE j \in actions'
    <3>1. j \in actions \/ j = L + 1
      BY <1>4
    <3>2. QED
      BY <1>2, <1>4, <2>1, <2>2, <3>1
  <2>4. actionChain'[id] = actionChain[id]
    BY <1>4, <2>1
  <2>5. QED
    BY <2>1, <2>3, <2>4 DEF id
<1>8. OrphansAnnounced'
  <2>. SUFFICES ASSUME NEW id \in actions', IsOpen(id)',
                       isReceiverBusy[orders[id].receiver] # id
                PROVE  \E j \in actions' :
                         /\ j > id /\ actionChain'[j].receiver = orders[id].receiver
                         /\ actionChain'[j].size = 0 /\ actionChain'[j].minDeposit = 0
    BY <1>3 DEF OrphansAnnounced
  <2>1. IsOpen(id)
    BY <1>3 DEF IsOpen, IsStored
  <2>2. id \in actions
    <3>1. id \in OrderIds
      <4>1. actionChain' \in Seq(Action) /\ Len(actionChain') <= MaxActions
        BY <1>1 DEF TypeOK
      <4>2. actions' \subseteq OrderIds
        BY <4>1, CoreAssumption DEF actions, OrderIds
      <4>3. QED
        BY <4>2
    <3>2. QED
      BY <2>1, <3>1 DEF BooksInv, Unwritten, IsOpen, IsStored, NoOrder
  <2>3. PICK j \in actions :
          /\ j > id /\ actionChain[j].receiver = orders[id].receiver
          /\ actionChain[j].size = 0 /\ actionChain[j].minDeposit = 0
    BY <2>1, <2>2 DEF BooksInv, OrphansAnnounced
  <2>4. j \in actions' /\ actionChain'[j] = actionChain[j]
    BY <1>4
  <2>5. QED
    BY <2>3, <2>4
<1>9. QED
  BY <1>1, <1>5, <1>6, <1>7, <1>8 DEF BooksInv

\* The chain after createOrder: a closure action when the receiver is taken
\* over, then the creation.
LEMMA CreateOrderChain ==
  ASSUME TypeOK,
         NEW creator \in Creators, NEW provider \in Providers \cup {ZeroAddress},
         NEW receiver \in Receivers, NEW size \in Sizes, NEW transfer \in Transfers,
         createOrder(creator, provider, receiver, size, transfer)
  PROVE  LET L  == Len(actionChain)
             id == NewOrderId(Takeover(receiver))
         IN
         /\ id \in Nat /\ id > L
         /\ actions = 1..L /\ actions' = 1..id
         /\ \A j \in actions : actionChain'[j] = actionChain[j]
         /\ \A j \in actions' \ actions : actionChain'[j].receiver = receiver
         /\ actionChain'[id] = ActionOf(receiver, providers[provider].minDeposit, size)
         /\ isReceiverBusy[receiver] # NoId =>
              /\ L + 1 \in actions'
              /\ actionChain'[L + 1].receiver = receiver
              /\ actionChain'[L + 1].size = 0 /\ actionChain'[L + 1].minDeposit = 0
<1>. DEFINE t  == Takeover(receiver)
            a  == ActionOf(receiver, providers[provider].minDeposit, size)
            L  == Len(actionChain)
            id == NewOrderId(t)
<1>1. /\ actionChain \in Seq(Action) /\ L \in Nat /\ actions = 1..L /\ now \in Nat
  BY DEF TypeOK, actions
<1>2. /\ t \in Seq(Action)
      /\ isReceiverBusy[receiver] = NoId => Len(t) = 0
      /\ isReceiverBusy[receiver] # NoId =>
           /\ Len(t) = 1
           /\ t[1].receiver = receiver /\ t[1].size = 0 /\ t[1].minDeposit = 0
  <2>1. CASE isReceiverBusy[receiver] = NoId
    BY <2>1 DEF Takeover
  <2>2. CASE isReceiverBusy[receiver] # NoId
    <3>1. <<receiver>> \in [1..1 -> Receivers \cup {ZeroAddress}]
      OBVIOUS
    <3>. DEFINE f == FreeActions(<<receiver>>)
    <3>2. /\ f \in Seq(Action) /\ Len(f) = 1
          /\ \A k \in 1..1 : /\ f[k].receiver = <<receiver>>[k]
                             /\ f[k].size = 0 /\ f[k].minDeposit = 0
      BY <1>1, <3>1, FreeActionsType
    <3>3. t = f
      BY <2>2 DEF Takeover
    <3>. HIDE DEF f, t
    <3>4. QED
      BY <2>2, <3>2, <3>3
  <2>3. QED
    BY <2>1, <2>2
<1>3. a \in Action /\ a.receiver = receiver
  <2>1. providers[provider] \in Provider /\ unixToTron(now) \in Nat
    BY CoreAssumption DEF TypeOK, unixToTron
  <2>2. QED
    BY <2>1, CoreAssumption DEF ActionOf, Action, Provider
<1>4. actionChain' = (actionChain \o t) \o <<a>> /\ id = L + Len(t) + 1
  BY DEF createOrder, NewOrderId
<1>. HIDE DEF t, a, id
<1>5. /\ id \in Nat /\ id > L /\ actions' = 1..id
      /\ \A j \in actions : actionChain'[j] = actionChain[j]
      /\ \A j \in 1..Len(t) : actionChain'[L + j] = t[j]
      /\ actionChain'[id] = a
  BY <1>1, <1>2, <1>3, <1>4 DEF actions
<1>6. isReceiverBusy[receiver] # NoId =>
        /\ L + 1 \in actions'
        /\ actionChain'[L + 1].receiver = receiver
        /\ actionChain'[L + 1].size = 0 /\ actionChain'[L + 1].minDeposit = 0
  BY <1>1, <1>2, <1>4, <1>5
<1>7. \A j \in actions' \ actions : actionChain'[j].receiver = receiver
  <2>. TAKE j \in actions' \ actions
  <2>1. CASE isReceiverBusy[receiver] = NoId
    <3>1. j = id
      BY <1>1, <1>2, <1>4, <1>5, <2>1
    <3>2. QED
      BY <1>3, <1>5, <3>1
  <2>2. CASE isReceiverBusy[receiver] # NoId
    <3>1. id = L + 2 /\ L \in Nat
      <4>1. Len(t) = 1
        BY <1>2, <2>2
      <4>2. QED
        BY <1>1, <1>4, <4>1
    <3>2. j \in 1..(L + 2) /\ j \notin 1..L
      BY <1>1, <1>5, <3>1
    <3>3. j = id \/ j = L + 1
      BY <3>1, <3>2
    <3>4. QED
      BY <1>3, <1>5, <1>6, <2>2, <3>3
  <2>3. QED
    BY <2>1, <2>2
<1>8. QED
  BY <1>1, <1>5, <1>6, <1>7 DEF t, a, id

\* createOrder, with or without a takeover, gives the receiver to the new order.
LEMMA CreateOrderBooks ==
  ASSUME BooksInv,
         NEW creator \in Creators, NEW provider \in Providers \cup {ZeroAddress},
         NEW receiver \in Receivers, NEW size \in Sizes, NEW transfer \in Transfers,
         createOrder(creator, provider, receiver, size, transfer)
  PROVE  BooksInv'
<1>. DEFINE L  == Len(actionChain)
            id == NewOrderId(Takeover(receiver))
            minDeposit == providers[provider].minDeposit
            new == [timestamp |-> unixToTron(now), creator |-> creator,
                    provider |-> provider, receiver |-> receiver, size |-> size,
                    rate |-> providers[provider].rate, minDeposit |-> minDeposit,
                    collateral |-> core.requiredCollateral,
                    isFulfilled |-> FALSE, transfer |-> transfer]
<1>1. TypeOK /\ TypeOK'
  BY CreateOrderType DEF BooksInv
<1>2. /\ id \in Nat /\ id > L
      /\ actions = 1..L /\ actions' = 1..id
      /\ \A j \in actions : actionChain'[j] = actionChain[j]
      /\ \A j \in actions' \ actions : actionChain'[j].receiver = receiver
      /\ actionChain'[id] = ActionOf(receiver, minDeposit, size)
      /\ isReceiverBusy[receiver] # NoId =>
           /\ L + 1 \in actions'
           /\ actionChain'[L + 1].receiver = receiver
           /\ actionChain'[L + 1].size = 0 /\ actionChain'[L + 1].minDeposit = 0
  BY <1>1, CreateOrderChain
<1>3. /\ orders' = [orders EXCEPT ![id] = new]
      /\ isReceiverBusy' = [isReceiverBusy EXCEPT ![receiver] = id]
      /\ receiverOwners' = receiverOwners /\ receiverOwners[receiver] = provider
  BY DEF createOrder
<1>4. /\ new.timestamp = unixToTron(now) /\ new.creator = creator
      /\ new.provider = provider /\ new.receiver = receiver /\ new.size = size
      /\ new.minDeposit = minDeposit /\ new.isFulfilled = FALSE
      /\ creator # ZeroAddress
  BY CoreAssumption DEF Accounts
<1>5. L \in Nat /\ id # NoId /\ actions \subseteq OrderIds /\ actions' \subseteq OrderIds
  <2>1. L \in Nat /\ Len(actionChain') <= MaxActions /\ actionChain' \in Seq(Action)
    BY <1>1 DEF TypeOK
  <2>2. actions' \subseteq OrderIds
    BY <2>1, CoreAssumption DEF actions, OrderIds
  <2>3. QED
    BY <1>1, <1>2, <2>1, <2>2, ActionsType DEF NoId
<1>. HIDE DEF id, new, L
<1>6. /\ id \in OrderIds /\ id \in actions' /\ id \notin actions
      /\ \A j \in actions' : j <= id
  BY <1>2, <1>5 DEF NoId
<1>7. /\ orders'[id] = new
      /\ \A i \in OrderIds : i # id => orders'[i] = orders[i]
  BY <1>1, <1>3, <1>6 DEF TypeOK
<1>8. /\ isReceiverBusy'[receiver] = id
      /\ \A r \in Receivers \cup {ZeroAddress} :
           r # receiver => isReceiverBusy'[r] = isReceiverBusy[r]
  BY <1>1, <1>3 DEF TypeOK
<1>9. Unwritten'
  BY <1>2, <1>5, <1>6, <1>7 DEF BooksInv, Unwritten
<1>10. BusyHoldsOrder'
  <2>. SUFFICES ASSUME NEW r \in Receivers, isReceiverBusy'[r] # NoId
                PROVE  (LET k == isReceiverBusy[r] IN
                        /\ k \in actions
                        /\ IsOpen(k)
                        /\ orders[k].receiver = r
                        /\ orders[k].provider = receiverOwners[r])'
    BY DEF BusyHoldsOrder
  <2>1. CASE r = receiver
    BY <1>3, <1>4, <1>6, <1>7, <1>8, <2>1 DEF IsOpen, IsStored
  <2>2. CASE r # receiver
    <3>. DEFINE k == isReceiverBusy[r]
    <3>1. isReceiverBusy'[r] = k /\ k # NoId
      BY <1>8, <2>2
    <3>2. /\ k \in actions /\ IsOpen(k) /\ orders[k].receiver = r
          /\ orders[k].provider = receiverOwners[r]
      BY <3>1 DEF BooksInv, BusyHoldsOrder
    <3>. HIDE DEF k
    <3>3. orders'[k] = orders[k] /\ k \in actions'
      BY <1>2, <1>5, <1>6, <1>7, <3>2
    <3>4. QED
      BY <1>3, <3>1, <3>2, <3>3 DEF IsOpen, IsStored
  <2>3. QED
    BY <2>1, <2>2
<1>11. ChainHoldsOrder'
  <2>. SUFFICES ASSUME NEW r \in Receivers \ EmergencyReceivers,
                       isReceiverBusy'[r] # NoId
                PROVE  LET k == isReceiverBusy'[r] IN
                       /\ actionChain'[k] =
                            [timestamp |-> orders'[k].timestamp, receiver |-> r,
                             minDeposit |-> orders'[k].minDeposit,
                             size |-> orders'[k].size]
                       /\ \A j \in actions' : j > k => actionChain'[j].receiver # r
    BY DEF ChainHoldsOrder
  <2>1. CASE r = receiver
    <3>1. \A j \in actions' : ~(j > id)
      BY <1>2, <1>6
    <3>2. actionChain'[id] =
            [timestamp |-> orders'[id].timestamp, receiver |-> r,
             minDeposit |-> orders'[id].minDeposit, size |-> orders'[id].size]
      BY <1>2, <1>4, <1>7, <2>1 DEF ActionOf
    <3>3. isReceiverBusy'[r] = id
      BY <1>8, <2>1
    <3>4. QED
      BY <3>1, <3>2, <3>3
  <2>2. CASE r # receiver
    <3>. DEFINE k == isReceiverBusy[r]
    <3>1. isReceiverBusy'[r] = k /\ k # NoId
      BY <1>8, <2>2
    <3>2. k \in actions
      BY <3>1 DEF BooksInv, BusyHoldsOrder
    <3>3. /\ actionChain[k] = [timestamp |-> orders[k].timestamp, receiver |-> r,
                               minDeposit |-> orders[k].minDeposit,
                               size |-> orders[k].size]
          /\ \A j \in actions : j > k => actionChain[j].receiver # r
      BY <3>1 DEF BooksInv, ChainHoldsOrder
    <3>. HIDE DEF k
    <3>4. orders'[k] = orders[k] /\ actionChain'[k] = actionChain[k]
      BY <1>2, <1>5, <1>6, <1>7, <3>2
    <3>5. ASSUME NEW j \in actions', j > k PROVE actionChain'[j].receiver # r
      <4>1. CASE j \in actions
        BY <1>2, <3>3, <3>5, <4>1
      <4>2. CASE j \notin actions
        BY <1>2, <2>2, <3>5, <4>2
      <4>3. QED
        BY <4>1, <4>2
    <3>6. QED
      BY <3>1, <3>3, <3>4, <3>5
  <2>3. QED
    BY <2>1, <2>2
<1>12. OrphansAnnounced'
  <2>. SUFFICES ASSUME NEW i \in actions', IsOpen(i)',
                       isReceiverBusy'[orders'[i].receiver] # i
                PROVE  \E j \in actions' :
                         /\ j > i /\ actionChain'[j].receiver = orders'[i].receiver
                         /\ actionChain'[j].size = 0 /\ actionChain'[j].minDeposit = 0
    BY DEF OrphansAnnounced
  <2>1. i # id
    BY <1>4, <1>7, <1>8
  <2>2. orders'[i] = orders[i] /\ i \in OrderIds
    BY <1>5, <1>7, <2>1
  <2>3. IsOpen(i)
    BY <2>2 DEF IsOpen, IsStored
  <2>4. i \in actions
    BY <2>2, <2>3 DEF BooksInv, Unwritten, IsOpen, IsStored, NoOrder
  <2>. DEFINE r == orders[i].receiver
  <2>5. r \in Receivers \cup {ZeroAddress}
    BY <1>1, <2>2 DEF TypeOK, Order
  <2>6. CASE isReceiverBusy[r] = i
    <3>1. r = receiver
      BY <1>8, <2>2, <2>5, <2>6
    <3>2. isReceiverBusy[receiver] # NoId
      BY <1>2, <2>4, <2>6, <3>1 DEF NoId
    <3>3. L + 1 > i
      BY <1>2, <1>5, <2>4
    <3>4. QED
      BY <1>2, <2>2, <3>1, <3>2, <3>3
  <2>7. CASE isReceiverBusy[r] # i
    <3>1. PICK j \in actions :
            /\ j > i /\ actionChain[j].receiver = r
            /\ actionChain[j].size = 0 /\ actionChain[j].minDeposit = 0
      BY <2>3, <2>4, <2>7 DEF BooksInv, OrphansAnnounced
    <3>2. j \in actions' /\ actionChain'[j] = actionChain[j]
      BY <1>2, <1>5
    <3>3. QED
      BY <2>2, <3>1, <3>2
  <2>8. QED
    BY <2>6, <2>7
<1>13. QED
  BY <1>1, <1>9, <1>10, <1>11, <1>12 DEF BooksInv

\* Every transaction keeps the books.
LEMMA NextBooks == BooksInv /\ [Next]_vars => BooksInv'
<1>. SUFFICES ASSUME BooksInv, [Next]_vars PROVE BooksInv'
  OBVIOUS
<1>1. CASE CreatorNext
  BY <1>1, CreateOrderBooks DEF CreatorNext
<1>2. CASE HolderNext
  BY <1>2, ChangeOrderBooks, StopOrderBooks DEF HolderNext
<1>3. CASE FulfillerNext
  BY <1>3, FulfillBooks DEF FulfillerNext
<1>4. CASE RelayerNext
  BY <1>4, CloseOrdersBooks DEF RelayerNext
<1>5. CASE ProviderNext
  BY <1>5, SetProviderBooks DEF ProviderNext
<1>6. CASE Administration
  <2>1. UNCHANGED <<books, receiverOwners>>
    BY <1>6, AdministrationBooks
  <2>2. TypeOK'
    BY NextType DEF BooksInv
  <2>3. /\ orders' = orders /\ isReceiverBusy' = isReceiverBusy
        /\ actionChain' = actionChain /\ receiverOwners' = receiverOwners
    BY <2>1 DEF books
  <2>4. actions' = actions
    BY <2>3 DEF actions
  <2>5. Unwritten' /\ BusyHoldsOrder'
    BY <2>3, <2>4 DEF BooksInv, Unwritten, BusyHoldsOrder, IsOpen, IsStored
  <2>6. ChainHoldsOrder' /\ OrphansAnnounced'
    BY <2>3, <2>4 DEF BooksInv, ChainHoldsOrder, OrphansAnnounced, IsOpen, IsStored
  <2>7. QED
    BY <2>2, <2>5, <2>6 DEF BooksInv
<1>7. CASE OwnerNext /\ ~Administration
  BY <1>7, UpdateActionChainBooks DEF OwnerNext, Administration
<1>8. Next \/ UNCHANGED vars
  OBVIOUS
<1>9. QED
  BY <1>1, <1>2, <1>3, <1>4, <1>5, <1>6, <1>7, <1>8 DEF Next, Administration

\* The inductive invariant of the books holds in every sequence of
\* transactions: it is what the three theorems after it are read off from.
THEOREM BooksCorrect == Spec => []BooksInv
BY InitBooks, NextBooks, PTL DEF Spec

\* A busy receiver is held by an open order that asks for it and belongs to the
\* provider who owns it, whatever transactions are sent in whatever order.
THEOREM BusyReceivers == Spec => []BusyHoldsOrder
<1>1. BooksInv => BusyHoldsOrder
  BY DEF BooksInv
<1>2. QED
  BY <1>1, BooksCorrect, PTL

\* The action chain, which is all that the ZK program sees of the contract,
\* ends for a busy receiver with the creation of the order that holds it.
THEOREM ChainTellsOrders == Spec => []ChainHoldsOrder
<1>1. BooksInv => ChainHoldsOrder
  BY DEF BooksInv
<1>2. QED
  BY <1>1, BooksCorrect, PTL

\* An open order that lost its receiver has a closure action on the chain.
THEOREM OrphansClosed == Spec => []OrphansAnnounced
<1>1. BooksInv => OrphansAnnounced
  BY DEF BooksInv
<1>2. QED
  BY <1>1, BooksCorrect, PTL

-----------------------------------------------------------------------------
(***************************************************************************)
(* The life of an order.  Apart from its creation, a transaction may leave *)
(* an order, delete it, change the transfer of an open one, or fulfill one *)
(* that is not fulfilled and free its receiver.                            *)
(***************************************************************************)
Evolves(id) ==
  \/ orders'[id] = orders[id]
  \/ orders'[id] = NoOrder
  \/ /\ IsOpen(id)
     /\ \E t \in Transfers : orders'[id] = [orders[id] EXCEPT !.transfer = t]
  \/ /\ ~orders[id].isFulfilled
     /\ \E f \in Fulfillers : orders'[id] = FulfilledBy(orders[id], f)
     /\ isReceiverBusy'[orders[id].receiver] = NoId

\* Storage is read as zero unless somebody is its creator.
NothingElseStored == \A id \in OrderIds : ~IsStored(id) => orders[id] = NoOrder

LifeInv == BooksInv /\ NothingElseStored /\ FulfilledClaim

\* What follows from it for the invariants and for OrderLifecycle.
LEMMA EvolutionKeepsLife ==
  ASSUME LifeInv, BooksInv',
         \A id \in OrderIds : Evolves(id),
         \A r \in Receivers \cup {ZeroAddress} :
           isReceiverBusy'[r] \in {NoId, isReceiverBusy[r]}
  PROVE  LifeInv' /\ KeepsTerms
<1>1. TypeOK /\ TypeOK'
  BY DEF LifeInv, BooksInv
<1>2. /\ actions \subseteq OrderIds /\ actions' \subseteq OrderIds
      /\ \A id \in OrderIds : orders[id] \in Order /\ id # NoId
  <2>1. actionChain' \in Seq(Action) /\ Len(actionChain') <= MaxActions
    BY <1>1 DEF TypeOK
  <2>2. actions' \subseteq OrderIds
    BY <2>1, CoreAssumption DEF actions, OrderIds
  <2>3. \A id \in OrderIds : id # NoId
    BY CoreAssumption DEF OrderIds, NoId
  <2>4. \A id \in OrderIds : orders[id] \in Order
    BY <1>1 DEF TypeOK
  <2>5. QED
    BY <1>1, <2>2, <2>3, <2>4, ActionsType
<1>3. \A f \in Fulfillers : f # ZeroAddress
  BY CoreAssumption DEF Accounts
<1>4. \A o \in Order, f \in Fulfillers :
        LET n == FulfilledBy(o, f) IN
        /\ n.creator = f /\ n.isFulfilled /\ n.collateral = 0
        /\ n.transfer.recipient = f /\ n.transfer.chainId = HostChain
        /\ ~n.transfer.doSwap
        /\ n.timestamp = o.timestamp /\ n.provider = o.provider
        /\ n.receiver = o.receiver /\ n.size = o.size /\ n.rate = o.rate
  <2>. TAKE o \in Order, f \in Fulfillers
  <2>. DEFINE t == [o.transfer EXCEPT !.recipient = f, !.chainId = HostChain,
                                      !.doSwap = FALSE]
              n == FulfilledBy(o, f)
  <2>1. o.transfer \in TransferType(Addresses)
    BY DEF Order
  <2>2. t.recipient = f /\ t.chainId = HostChain /\ ~t.doSwap
    BY <2>1 DEF TransferType
  <2>3. n = [o EXCEPT !.creator = f, !.isFulfilled = TRUE, !.collateral = 0,
                      !.transfer = t]
    BY <2>1 DEF FulfilledBy, Order, TransferType
  <2>. HIDE DEF t, n
  <2>4. n.transfer = t
    BY <2>3 DEF Order
  <2>5. /\ n.creator = f /\ n.isFulfilled /\ n.collateral = 0
        /\ n.timestamp = o.timestamp /\ n.provider = o.provider
        /\ n.receiver = o.receiver /\ n.size = o.size /\ n.rate = o.rate
    BY <2>3 DEF Order
  <2>6. QED
    BY <2>2, <2>4, <2>5 DEF n
<1>5. \A o \in Order, t \in Transfers :
        LET n == [o EXCEPT !.transfer = t] IN
        /\ n.creator = o.creator /\ n.isFulfilled = o.isFulfilled
        /\ n.collateral = o.collateral
        /\ n.timestamp = o.timestamp /\ n.provider = o.provider
        /\ n.receiver = o.receiver /\ n.size = o.size /\ n.rate = o.rate
  BY DEF Order
<1>6. NothingElseStored'
  <2>. SUFFICES ASSUME NEW id \in OrderIds, orders'[id].creator = ZeroAddress
                PROVE  orders'[id] = NoOrder
    BY DEF NothingElseStored, IsStored
  <2>1. CASE orders'[id] = orders[id]
    BY <2>1 DEF LifeInv, NothingElseStored, IsStored
  <2>2. ~ \E f \in Fulfillers : orders'[id] = FulfilledBy(orders[id], f)
    BY <1>2, <1>3, <1>4
  <2>3. ASSUME IsOpen(id), NEW t \in Transfers,
               orders'[id] = [orders[id] EXCEPT !.transfer = t]
        PROVE  FALSE
    <3>1. orders'[id].creator = orders[id].creator
      BY <1>2, <1>5, <2>3
    <3>2. QED
      BY <2>3, <3>1 DEF IsOpen, IsStored
  <2>4. QED
    BY <2>1, <2>2, <2>3 DEF Evolves
<1>7. FulfilledClaim'
  <2>. SUFFICES ASSUME NEW id \in OrderIds, orders'[id].isFulfilled
                PROVE  LET o == orders'[id] IN
                       /\ o.creator \in Fulfillers
                       /\ o.transfer.recipient = o.creator
                       /\ o.transfer.chainId = HostChain /\ ~o.transfer.doSwap
                       /\ o.collateral = 0
                       /\ isReceiverBusy'[o.receiver] # id
    BY <1>2 DEF FulfilledClaim
  <2>1. CASE orders'[id] = orders[id]
    <3>1. id \in actions
      BY <2>1 DEF LifeInv, BooksInv, Unwritten, NoOrder
    <3>2. /\ orders[id].creator \in Fulfillers
          /\ orders[id].transfer.recipient = orders[id].creator
          /\ orders[id].transfer.chainId = HostChain /\ ~orders[id].transfer.doSwap
          /\ orders[id].collateral = 0
          /\ isReceiverBusy[orders[id].receiver] # id
      BY <2>1, <3>1 DEF LifeInv, FulfilledClaim
    <3>3. orders[id].receiver \in Receivers \cup {ZeroAddress}
      BY <1>2 DEF Order
    <3>4. QED
      BY <1>2, <2>1, <3>2, <3>3
  <2>2. CASE \E f \in Fulfillers : orders'[id] = FulfilledBy(orders[id], f)
    <3>1. PICK f \in Fulfillers : orders'[id] = FulfilledBy(orders[id], f)
      BY <2>2
    <3>2. QED
      <4>1. CASE orders'[id] = orders[id]
        BY <2>1, <4>1
      <4>2. CASE orders'[id] # orders[id]
        <5>1. orders'[id] # NoOrder
          BY DEF NoOrder
        <5>2. /\ orders'[id].creator = f
              /\ orders'[id].transfer.recipient = f
              /\ orders'[id].transfer.chainId = HostChain
              /\ ~orders'[id].transfer.doSwap
              /\ orders'[id].collateral = 0
              /\ orders'[id].receiver = orders[id].receiver
          BY <1>2, <1>4, <3>1
        <5>3. isReceiverBusy'[orders[id].receiver] = NoId
          <6>1. ASSUME IsOpen(id), NEW t \in Transfers,
                       orders'[id] = [orders[id] EXCEPT !.transfer = t]
                PROVE  FALSE
            <7>1. orders[id] \in Order /\ ~orders[id].isFulfilled
              BY <1>2, <6>1 DEF IsOpen
            <7>2. ~[orders[id] EXCEPT !.transfer = t].isFulfilled
              BY <7>1 DEF Order
            <7>3. QED
              BY <6>1, <7>2
          <6>2. QED
            BY <4>2, <5>1, <6>1 DEF Evolves
        <5>4. QED
          BY <1>2, <5>2, <5>3
      <4>3. QED
        BY <4>1, <4>2
  <2>3. CASE IsOpen(id) /\ \E t \in Transfers :
               orders'[id] = [orders[id] EXCEPT !.transfer = t]
    BY <1>2, <1>5, <2>3 DEF IsOpen
  <2>4. orders'[id] # NoOrder
    BY DEF NoOrder
  <2>5. QED
    BY <2>1, <2>2, <2>3, <2>4 DEF Evolves
<1>8. KeepsTerms
  <2>. SUFFICES ASSUME NEW id \in actions
                PROVE  LET o == orders[id]
                           n == orders'[id]
                       IN \/ n = NoOrder
                          \/ ~IsStored(id) /\ n.size = 0 /\ n.collateral = 0
                          \/ /\ IsStored(id)
                             /\ o.isFulfilled => n = o
                             /\ <<n.timestamp, n.provider, n.receiver, n.size, n.rate>>
                                  = <<o.timestamp, o.provider, o.receiver, o.size, o.rate>>
                             /\ n.collateral \in {0, o.collateral}
    BY DEF KeepsTerms
  <2>1. id \in OrderIds /\ orders[id] \in Order
    BY <1>2
  <2>2. ~IsStored(id) => orders[id] = NoOrder
    BY <2>1 DEF LifeInv, NothingElseStored
  <2>3. CASE orders'[id] = orders[id]
    BY <2>2, <2>3
  <2>4. CASE IsOpen(id) /\ \E t \in Transfers :
               orders'[id] = [orders[id] EXCEPT !.transfer = t]
    BY <1>5, <2>1, <2>4 DEF IsOpen
  <2>5. CASE ~orders[id].isFulfilled
             /\ \E f \in Fulfillers : orders'[id] = FulfilledBy(orders[id], f)
    <3>1. orders[id] = NoOrder => orders[id].size = 0
      BY DEF NoOrder
    <3>2. QED
      BY <1>4, <2>1, <2>2, <2>5, <3>1
  <2>6. QED
    BY <2>1, <2>3, <2>4, <2>5 DEF Evolves
<1>9. QED
  BY <1>6, <1>7, <1>8 DEF LifeInv

\* Freeing never makes a receiver busy.
LEMMA FreedShrinks ==
  ASSUME TypeOK, NEW R, isReceiverBusy' = Freed(R)
  PROVE  \A r \in Receivers \cup {ZeroAddress} :
           /\ isReceiverBusy'[r] \in {NoId, isReceiverBusy[r]}
           /\ r \in R => isReceiverBusy'[r] = NoId
BY DEF TypeOK, Freed

\* changeOrder: only the transfer of an open order changes.
LEMMA ChangeOrderLife ==
  ASSUME LifeInv, NEW sender \in Creators \cup Fulfillers, NEW id \in actions,
         NEW transfer \in Transfers, changeOrder(sender, id, transfer)
  PROVE  LifeInv' /\ KeepsTerms
<1>1. TypeOK /\ BooksInv'
  BY ChangeOrderBooks DEF LifeInv, BooksInv
<1>2. orders' = [orders EXCEPT ![id].transfer = transfer]
      /\ isReceiverBusy' = isReceiverBusy
  BY DEF changeOrder
<1>3. IsOpen(id)
  <2>1. orders[id].creator = sender /\ ~orders[id].isFulfilled
    BY DEF changeOrder
  <2>2. sender # ZeroAddress
    BY CoreAssumption DEF Accounts
  <2>3. QED
    BY <2>1, <2>2 DEF IsOpen, IsStored
<1>4. \A i \in OrderIds : Evolves(i)
  BY <1>1, <1>2, <1>3 DEF TypeOK, Evolves
<1>5. QED
  BY <1>1, <1>2, <1>4, EvolutionKeepsLife

\* stopOrder deletes one open order.
LEMMA StopOrderLife ==
  ASSUME LifeInv, NEW sender \in Creators \cup Fulfillers, NEW id \in actions,
         stopOrder(sender, id)
  PROVE  LifeInv' /\ KeepsTerms
<1>1. TypeOK /\ BooksInv'
  BY StopOrderBooks DEF LifeInv, BooksInv
<1>2. orders' = [orders EXCEPT ![id] = NoOrder]
      /\ isReceiverBusy' = Freed({orders[id].receiver})
  BY DEF stopOrder
<1>3. \A i \in OrderIds : Evolves(i)
  BY <1>1, <1>2 DEF TypeOK, Evolves
<1>4. QED
  BY <1>1, <1>2, <1>3, FreedShrinks, EvolutionKeepsLife

\* fulfill turns the orders of its batch into claims of the sender.
LEMMA FulfillLife ==
  ASSUME LifeInv, NEW sender \in Fulfillers, NEW ids \in IdLists,
         NEW total \in Totals, NEW bonus \in Bonuses,
         fulfill(sender, ids, total, bonus)
  PROVE  LifeInv' /\ KeepsTerms
<1>. DEFINE rs == [i \in DOMAIN ids |-> orders[ids[i]].receiver]
            R  == RangeOf(rs)
<1>1. TypeOK /\ BooksInv'
  BY FulfillBooks DEF LifeInv, BooksInv
<1>2. /\ isReceiverBusy' = Freed(R)
      /\ orders' = [i \in OrderIds |-> IF i \in RangeOf(ids)
                                       THEN FulfilledBy(orders[i], sender) ELSE orders[i]]
      /\ \A i \in DOMAIN ids : ~orders[ids[i]].isFulfilled
  <2>1. isReceiverBusy' = Freed(R)
    BY DEF fulfill
  <2>2. orders' = [i \in OrderIds |-> IF i \in RangeOf(ids)
                                      THEN FulfilledBy(orders[i], sender) ELSE orders[i]]
    BY DEF fulfill
  <2>3. \A i \in DOMAIN ids : ~orders[ids[i]].isFulfilled
    BY DEF fulfill
  <2>4. QED
    BY <2>1, <2>2, <2>3
<1>3. \A i \in RangeOf(ids) : /\ ~orders[i].isFulfilled
                              /\ orders[i].receiver \in R
                              /\ orders[i].receiver \in Receivers \cup {ZeroAddress}
  <2>1. \A i \in DOMAIN ids : orders[ids[i]] \in Order
    BY <1>1, IdListsType
  <2>2. QED
    BY <1>2, <2>1 DEF RangeOf, Order
<1>. HIDE DEF R, rs
<1>4. \A r \in Receivers \cup {ZeroAddress} :
        /\ isReceiverBusy'[r] \in {NoId, isReceiverBusy[r]}
        /\ r \in R => isReceiverBusy'[r] = NoId
  BY <1>1, <1>2, FreedShrinks
<1>5. \A i \in OrderIds : Evolves(i)
  <2>. TAKE i \in OrderIds
  <2>1. CASE i \in RangeOf(ids)
    <3>1. orders'[i] = FulfilledBy(orders[i], sender)
      BY <1>2, <2>1
    <3>2. isReceiverBusy'[orders[i].receiver] = NoId /\ ~orders[i].isFulfilled
      BY <1>3, <1>4, <2>1
    <3>3. QED
      BY <3>1, <3>2 DEF Evolves
  <2>2. CASE i \notin RangeOf(ids)
    BY <1>2, <2>2 DEF Evolves
  <2>3. QED
    BY <2>1, <2>2
<1>6. QED
  BY <1>1, <1>4, <1>5, EvolutionKeepsLife

\* closeOrders deletes the orders of its batch.
LEMMA CloseOrdersLife ==
  ASSUME LifeInv, NEW oldHash \in StateHashes, NEW newHash \in StateHashes,
         NEW latest, NEW ids \in IdLists, NEW bonus \in Bonuses,
         NEW inflow \in [DOMAIN ids -> Inflows],
         closeOrders(oldHash, newHash, latest, ids, inflow, bonus)
  PROVE  LifeInv' /\ KeepsTerms
<1>. DEFINE freed == [i \in DOMAIN ids |-> orders[ids[i]].receiver]
            R == {freed[i] : i \in {j \in DOMAIN ids : ~orders[ids[j]].isFulfilled}}
<1>1. TypeOK /\ BooksInv'
  BY CloseOrdersBooks DEF LifeInv, BooksInv
<1>2. /\ isReceiverBusy' = Freed(R)
      /\ orders' = [i \in OrderIds |-> IF i \in RangeOf(ids) THEN NoOrder ELSE orders[i]]
  <2>1. isReceiverBusy' = Freed(R)
    BY DEF closeOrders
  <2>2. orders' = [i \in OrderIds |-> IF i \in RangeOf(ids) THEN NoOrder ELSE orders[i]]
    BY DEF closeOrders
  <2>3. QED
    BY <2>1, <2>2
<1>. HIDE DEF R, freed
<1>3. \A i \in OrderIds : Evolves(i)
  BY <1>2 DEF Evolves
<1>4. \A r \in Receivers \cup {ZeroAddress} :
        isReceiverBusy'[r] \in {NoId, isReceiverBusy[r]}
  BY <1>1, <1>2, FreedShrinks
<1>5. QED
  BY <1>1, <1>3, <1>4, EvolutionKeepsLife

\* setProvider frees receivers and leaves the orders alone.
LEMMA SetProviderLife ==
  ASSUME LifeInv, NEW sender \in Providers, NEW liquidity \in Liquidities,
         NEW terms \in Terms, NEW receivers \in ReceiverLists,
         setProvider(sender, liquidity, terms, receivers)
  PROVE  LifeInv' /\ KeepsTerms
<1>. DEFINE R == {receivers[i] : i \in {j \in DOMAIN receivers :
                                          isReceiverBusy[receivers[j]] # NoId}}
<1>1. TypeOK /\ BooksInv'
  BY SetProviderBooks DEF LifeInv, BooksInv
<1>2. isReceiverBusy' = Freed(R) /\ orders' = orders
  BY DEF setProvider
<1>. HIDE DEF R
<1>3. \A i \in OrderIds : Evolves(i)
  BY <1>2 DEF Evolves
<1>4. \A r \in Receivers \cup {ZeroAddress} :
        isReceiverBusy'[r] \in {NoId, isReceiverBusy[r]}
  BY <1>1, <1>2, FreedShrinks
<1>5. QED
  BY <1>1, <1>3, <1>4, EvolutionKeepsLife

\* A new order takes an ID nobody used, and a receiver no fulfilled order holds.
LEMMA CreateOrderLife ==
  ASSUME LifeInv,
         NEW creator \in Creators, NEW provider \in Providers \cup {ZeroAddress},
         NEW receiver \in Receivers, NEW size \in Sizes, NEW transfer \in Transfers,
         createOrder(creator, provider, receiver, size, transfer)
  PROVE  LifeInv' /\ KeepsTerms
<1>. DEFINE id == NewOrderId(Takeover(receiver))
<1>1. TypeOK /\ TypeOK' /\ BooksInv'
  BY CreateOrderBooks DEF LifeInv, BooksInv
<1>2. /\ id \in Nat /\ id \notin actions /\ id \in actions' /\ actions \subseteq actions'
  <2>1. /\ id \in Nat /\ id > Len(actionChain)
        /\ actions = 1..Len(actionChain) /\ actions' = 1..id
    BY <1>1, CreateOrderChain
  <2>2. Len(actionChain) \in Nat
    BY <1>1, ActionsType
  <2>. HIDE DEF id
  <2>3. QED
    BY <2>1, <2>2
<1>3. /\ DOMAIN orders = OrderIds /\ actions \subseteq OrderIds
      /\ actions' \subseteq OrderIds /\ id \in OrderIds
  <2>1. actionChain' \in Seq(Action) /\ Len(actionChain') <= MaxActions
    BY <1>1 DEF TypeOK
  <2>2. actions' \subseteq OrderIds
    BY <2>1, CoreAssumption DEF actions, OrderIds
  <2>3. QED
    BY <1>1, <1>2, <2>2 DEF TypeOK
<1>4. /\ orders'[id].creator = creator /\ orders'[id].isFulfilled = FALSE
      /\ \A i \in OrderIds : i # id => orders'[i] = orders[i]
  BY <1>3 DEF createOrder
<1>5. /\ isReceiverBusy'[receiver] = id
      /\ \A r \in Receivers \cup {ZeroAddress} :
           r # receiver => isReceiverBusy'[r] = isReceiverBusy[r]
  BY <1>1 DEF TypeOK, createOrder
<1>. HIDE DEF id
<1>6. creator # ZeroAddress
  BY CoreAssumption DEF Accounts
<1>7. NothingElseStored'
  BY <1>4, <1>6 DEF LifeInv, NothingElseStored, IsStored
<1>8. FulfilledClaim'
  <2>. SUFFICES ASSUME NEW i \in OrderIds, orders'[i].isFulfilled
                PROVE  LET o == orders'[i] IN
                       /\ o.creator \in Fulfillers
                       /\ o.transfer.recipient = o.creator
                       /\ o.transfer.chainId = HostChain /\ ~o.transfer.doSwap
                       /\ o.collateral = 0
                       /\ isReceiverBusy'[o.receiver] # i
    BY <1>3 DEF FulfilledClaim
  <2>1. i # id /\ orders'[i] = orders[i]
    BY <1>4
  <2>2. i \in actions
    BY <2>1 DEF LifeInv, BooksInv, Unwritten, NoOrder
  <2>3. /\ orders[i].creator \in Fulfillers
        /\ orders[i].transfer.recipient = orders[i].creator
        /\ orders[i].transfer.chainId = HostChain /\ ~orders[i].transfer.doSwap
        /\ orders[i].collateral = 0
        /\ isReceiverBusy[orders[i].receiver] # i
    BY <2>1, <2>2 DEF LifeInv, FulfilledClaim
  <2>4. orders[i].receiver \in Receivers \cup {ZeroAddress}
    BY <1>1 DEF TypeOK, Order
  <2>5. isReceiverBusy'[orders[i].receiver] # i
    BY <1>5, <2>1, <2>3, <2>4
  <2>6. QED
    BY <2>1, <2>3, <2>5
<1>9. KeepsTerms
  <2>. SUFFICES ASSUME NEW i \in actions, orders'[i] = orders[i], orders[i] \in Order,
                       ~IsStored(i) => orders[i] = NoOrder
                PROVE  \/ orders'[i] = NoOrder
                       \/ /\ IsStored(i)
                          /\ orders[i].isFulfilled => orders'[i] = orders[i]
                          /\ orders'[i].collateral \in {0, orders[i].collateral}
    BY <1>1, <1>2, <1>3, <1>4 DEF KeepsTerms, LifeInv, NothingElseStored, TypeOK
  <2>1. QED
    OBVIOUS
<1>10. QED
  BY <1>1, <1>7, <1>8, <1>9 DEF LifeInv

\* Nothing is stored at the start.
LEMMA InitLife == Init => LifeInv
<1>. SUFFICES ASSUME Init PROVE LifeInv
  OBVIOUS
<1>1. BooksInv
  BY InitBooks
<1>2. actions = {} /\ \A id \in OrderIds : orders[id] = NoOrder
  BY DEF Init, actions
<1>3. QED
  BY <1>1, <1>2 DEF LifeInv, NothingElseStored, FulfilledClaim

\* Every transaction keeps what is stored in order.
LEMMA NextLife == LifeInv /\ [Next]_vars => LifeInv' /\ [KeepsTerms]_vars
<1>. SUFFICES ASSUME LifeInv, [Next]_vars PROVE LifeInv' /\ KeepsTerms
  OBVIOUS
<1>1. CASE CreatorNext
  BY <1>1, CreateOrderLife DEF CreatorNext
<1>2. CASE HolderNext
  BY <1>2, ChangeOrderLife, StopOrderLife DEF HolderNext
<1>3. CASE FulfillerNext
  BY <1>3, FulfillLife DEF FulfillerNext
<1>4. CASE RelayerNext
  BY <1>4, CloseOrdersLife DEF RelayerNext
<1>5. CASE ProviderNext
  BY <1>5, SetProviderLife DEF ProviderNext
<1>6. CASE OwnerNext \/ Tick \/ UNCHANGED vars
  <2>1. orders' = orders /\ isReceiverBusy' = isReceiverBusy
    <3>1. CASE Administration
      BY <3>1, AdministrationBooks DEF books
    <3>2. CASE \E receiver \in EmergencyReceivers, size \in Sizes :
                 updateActionChain(receiver, 0, size)
      BY <3>2 DEF updateActionChain
    <3>3. QED
      BY <1>6, <3>1, <3>2 DEF OwnerNext, Administration
  <2>2. BooksInv'
    BY NextBooks DEF LifeInv
  <2>3. \A i \in OrderIds : Evolves(i)
    BY <2>1 DEF Evolves
  <2>4. \A r \in Receivers \cup {ZeroAddress} :
          isReceiverBusy'[r] \in {NoId, isReceiverBusy[r]}
    BY <2>1
  <2>5. QED
    BY <2>2, <2>3, <2>4, EvolutionKeepsLife
<1>7. QED
  BY <1>1, <1>2, <1>3, <1>4, <1>5, <1>6 DEF Next

\* The proceeds of a fulfilled order belong to its fulfiller, whatever happens
\* to the order, its receiver or the settings after fulfill.
THEOREM FulfillersClaim == Spec => []FulfilledClaim
<1>1. LifeInv => FulfilledClaim
  BY DEF LifeInv
<1>2. QED
  BY <1>1, InitLife, NextLife, PTL DEF Spec

\* No transaction rewrites the terms of a stored order, touches a fulfilled one
\* other than to delete it, or brings a settled ID back with a claim.
THEOREM OrdersLiveOnce == Spec => OrderLifecycle
BY InitLife, NextLife, PTL DEF Spec, OrderLifecycle
=============================================================================
