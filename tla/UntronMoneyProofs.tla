-------------------------- MODULE UntronMoneyProofs --------------------------
(***************************************************************************)
(* Theorems about the money of the contract, for every value of the        *)
(* constants that satisfies the assumptions of UntronCore and UntronFees.  *)
(***************************************************************************)
EXTENDS UntronCoreProofs, UntronSums

-----------------------------------------------------------------------------
(* The arithmetic of a conversion. *)

\* What division rounds down to.
LEMMA Quotient ==
  ASSUME NEW n \in Nat, NEW d \in Nat \ {0}
  PROVE  /\ n \div d \in Nat /\ d * (n \div d) <= n /\ n < d * (n \div d) + d
<1>. DEFINE q == n \div d
            m == n % d
<1>1. q \in Int /\ m \in 0..(d - 1)
  OBVIOUS
<1>2. n = d * q + m
  OBVIOUS
<1>3. q \in Nat
  OBVIOUS
<1>4. d * q \in Int
  BY <1>1
<1>. HIDE DEF q, m
<1>5. d * q <= n /\ n < d * q + d
  BY <1>1, <1>2, <1>4
<1>6. QED
  BY <1>3, <1>5 DEF q

\* A number whose multiple fits is no more than the quotient.
LEMMA QuotientLargest ==
  ASSUME NEW n \in Nat, NEW d \in Nat \ {0}, NEW k \in Nat, d * k <= n
  PROVE  k <= n \div d
<1>. DEFINE q == n \div d
<1>1. q \in Nat /\ n < d * q + d
  BY Quotient
<1>. HIDE DEF q
<1>2. SUFFICES ASSUME q + 1 <= k PROVE FALSE
  BY <1>1 DEF q
<1>3. PICK e \in Nat : k = (q + 1) + e
  <2>1. k - (q + 1) \in Nat /\ k = (q + 1) + (k - (q + 1))
    BY <1>1, <1>2
  <2>2. QED
    BY <2>1
<1>4. d * k = (d * q + d) + d * e
  BY <1>1, <1>3
<1>5. d * e \in Nat /\ d * q \in Nat
  BY <1>1, <1>3
<1>6. d * k >= d * q + d
  BY <1>4, <1>5
<1>7. d * k \in Nat
  OBVIOUS
<1>8. QED
  BY <1>1, <1>5, <1>6, <1>7

\* Converting a size in two parts gives no more than converting it at once.
LEMMA ConvertedSplit ==
  ASSUME NEW a \in Nat, NEW b \in Nat, NEW rate \in Nat
  PROVE  Converted(a, rate) + Converted(b, rate) <= Converted(a + b, rate)
<1>. DEFINE x == a * rate
            y == b * rate
            k == x \div BP
            l == y \div BP
<1>1. x \in Nat /\ y \in Nat /\ (a + b) * rate = x + y
  OBVIOUS
<1>. HIDE DEF x, y
<1>2. k \in Nat /\ BP * k <= x /\ l \in Nat /\ BP * l <= y
  BY <1>1, Quotient, BPAssumption
<1>. HIDE DEF k, l
<1>3. BP * (k + l) = BP * k + BP * l /\ BP * k \in Nat /\ BP * l \in Nat
  BY <1>2, BPAssumption
<1>4. BP * (k + l) <= x + y
  BY <1>1, <1>2, <1>3
<1>5. k + l <= (x + y) \div BP
  BY <1>1, <1>2, <1>4, QuotientLargest, BPAssumption
<1>6. QED
  BY <1>1, <1>5 DEF Converted, k, l, x, y

\* Above 100% nothing is lost, and at 100% nothing is gained.
LEMMA ConvertedHigh ==
  ASSUME NEW size \in Nat, NEW rate \in Nat, rate >= BP
  PROVE  size <= Converted(size, rate)
<1>1. BP \in Nat \ {0}
  BY BPAssumption
<1>2. PICK e \in Nat : rate = BP + e
  <2>1. rate - BP \in Nat /\ rate = BP + (rate - BP)
    BY <1>1
  <2>2. QED
    BY <2>1
<1>3. size * rate = BP * size + size * e
  BY <1>1, <1>2
<1>4. size * e \in Nat /\ BP * size \in Nat /\ size * rate \in Nat
  BY <1>1, <1>2
<1>5. BP * size <= size * rate
  BY <1>3, <1>4
<1>6. QED
  BY <1>1, <1>4, <1>5, QuotientLargest DEF Converted

\* A conversion at par gives the size itself.
LEMMA ConvertedAtPar ==
  ASSUME NEW size \in Nat
  PROVE  Converted(size, BP) = size
<1>. DEFINE q == (size * BP) \div BP
<1>1. BP \in Nat \ {0} /\ size * BP \in Nat
  BY BPAssumption
<1>2. q \in Nat /\ BP * q <= size * BP
  BY <1>1, Quotient
<1>3. size <= q
  BY <1>1, QuotientLargest
<1>. HIDE DEF q
<1>4. SUFFICES ASSUME size + 1 <= q PROVE FALSE
  BY <1>2, <1>3 DEF q, Converted
<1>5. PICK e \in Nat : q = (size + 1) + e
  <2>1. q - (size + 1) \in Nat /\ q = (size + 1) + (q - (size + 1))
    BY <1>2, <1>4
  <2>2. QED
    BY <2>1
<1>6. BP * q = size * BP + (BP + BP * e) /\ BP * e \in Nat
  BY <1>1, <1>5
<1>7. QED
  BY <1>1, <1>2, <1>6

\* A conversion of nothing, or at rate zero, gives nothing.
LEMMA ConvertedNothing ==
  ASSUME NEW n \in Nat
  PROVE  Converted(n, 0) = 0 /\ Converted(0, n) = 0
<1>1. n * 0 = 0 /\ 0 * n = 0 /\ BP \in Nat \ {0}
  BY BPAssumption
<1>2. 0 \div BP = 0
  BY <1>1
<1>3. QED
  BY <1>1, <1>2 DEF Converted

-----------------------------------------------------------------------------
(***************************************************************************)
(* Where the rates and the swaps of the orders come from.                  *)
(***************************************************************************)

\* The rates that providers may set.
OfferedRates == {t.rate : t \in Terms}

\* The rate of an order is one that its provider offered: nobody ever sets a rate
\* for address(0), which owns every receiver that no provider registered.
RatesKept ==
  /\ providers[ZeroAddress].rate = 0
  /\ \A r \in Receivers :
       receiverOwners[r] \in Providers =>
         providers[receiverOwners[r]].rate \in OfferedRates
  /\ \A id \in OrderIds :
       orders[id].rate \in IF orders[id].provider \in Providers
                           THEN OfferedRates ELSE {0}

\* An order that swaps does so by a transfer that a creator asked for.
SwapsAsked ==
  \A id \in OrderIds :
    orders[id].transfer.doSwap => orders[id].transfer \in Transfers

MoneyInv == TypeOK /\ RatesKept /\ SwapsAsked

\* A contract without orders keeps no rate.
LEMMA InitMoney == Init => MoneyInv
<1>. SUFFICES ASSUME Init PROVE MoneyInv
  OBVIOUS
<1>1. TypeOK
  BY InitType
<1>2. ZeroAddress \notin Providers
  BY CoreAssumption DEF Accounts
<1>3. providers[ZeroAddress].rate = 0
  BY DEF Init, NoProvider
<1>4. \A id \in OrderIds : orders[id] = NoOrder
  BY DEF Init
<1>5. \A r \in Receivers : receiverOwners[r] = ZeroAddress
  BY DEF Init
<1>6. RatesKept
  BY <1>2, <1>3, <1>4, <1>5 DEF RatesKept, NoOrder
<1>7. SwapsAsked
  BY <1>4 DEF SwapsAsked, NoOrder, NoTransfer
<1>8. QED
  BY <1>1, <1>6, <1>7 DEF MoneyInv

\* A handler that leaves the rates of the providers alone, and deletes orders or
\* keeps their providers and rates.
LEMMA SameRates ==
  ASSUME RatesKept,
         \A p \in Providers \cup {ZeroAddress} : providers'[p].rate = providers[p].rate,
         receiverOwners \in [Receivers -> Providers \cup {ZeroAddress}],
         receiverOwners' = receiverOwners,
         \A id \in OrderIds :
           \/ orders'[id] = NoOrder
           \/ /\ orders'[id].rate = orders[id].rate
              /\ orders'[id].provider = orders[id].provider
  PROVE  RatesKept'
<1>1. ZeroAddress \notin Providers
  BY CoreAssumption DEF Accounts
<1>2. providers'[ZeroAddress].rate = 0
  BY DEF RatesKept
<1>3. ASSUME NEW r \in Receivers, receiverOwners'[r] \in Providers
      PROVE  providers'[receiverOwners'[r]].rate \in OfferedRates
  BY <1>3 DEF RatesKept
<1>4. ASSUME NEW id \in OrderIds
      PROVE  orders'[id].rate \in IF orders'[id].provider \in Providers
                                  THEN OfferedRates ELSE {0}
  <2>1. CASE orders'[id] = NoOrder
    BY <1>1, <2>1 DEF NoOrder
  <2>2. CASE /\ orders'[id].rate = orders[id].rate
             /\ orders'[id].provider = orders[id].provider
    BY <2>2 DEF RatesKept
  <2>3. QED
    BY <2>1, <2>2
<1>5. QED
  BY <1>2, <1>3, <1>4 DEF RatesKept

\* createOrder takes the rate of the provider who owns the receiver.
LEMMA CreateOrderRates ==
  ASSUME MoneyInv, TypeOK',
         NEW creator \in Creators, NEW provider \in Providers \cup {ZeroAddress},
         NEW receiver \in Receivers, NEW size \in Sizes, NEW transfer \in Transfers,
         createOrder(creator, provider, receiver, size, transfer)
  PROVE  RatesKept' /\ SwapsAsked'
<1>. DEFINE id == NewOrderId(Takeover(receiver))
            o == [timestamp |-> unixToTron(now), creator |-> creator,
                  provider |-> provider, receiver |-> receiver, size |-> size,
                  rate |-> providers[provider].rate,
                  minDeposit |-> providers[provider].minDeposit,
                  collateral |-> core.requiredCollateral,
                  isFulfilled |-> FALSE, transfer |-> transfer]
            amount == Converted(size, providers[provider].rate)
<1>1. orders' = [orders EXCEPT ![id] = o] /\ orders \in [OrderIds -> Order]
  BY DEF createOrder, MoneyInv, TypeOK
<1>2. providers' = [providers EXCEPT ![provider].liquidity = @ - amount]
      /\ providers \in [Providers \cup {ZeroAddress} -> Provider]
  BY DEF createOrder, MoneyInv, TypeOK
<1>3. receiverOwners' = receiverOwners /\ receiverOwners[receiver] = provider
      /\ receiverOwners \in [Receivers -> Providers \cup {ZeroAddress}]
  BY DEF createOrder, MoneyInv, TypeOK
<1>4. o.rate = providers[provider].rate /\ o.provider = provider /\ o.transfer = transfer
  OBVIOUS
<1>. HIDE DEF amount, o, id
<1>5. \A p \in Providers \cup {ZeroAddress} : providers'[p].rate = providers[p].rate
  BY <1>2 DEF Provider
<1>6. ZeroAddress \notin Providers
  BY CoreAssumption DEF Accounts
<1>7. o.rate \in IF o.provider \in Providers THEN OfferedRates ELSE {0}
  BY <1>3, <1>4 DEF MoneyInv, RatesKept
<1>8. \A i \in OrderIds : orders'[i] = o \/ orders'[i] = orders[i]
  BY <1>1
<1>9. /\ providers'[ZeroAddress].rate = 0
      /\ \A r \in Receivers : receiverOwners'[r] \in Providers =>
           providers'[receiverOwners'[r]].rate \in OfferedRates
  BY <1>3, <1>5 DEF MoneyInv, RatesKept
<1>10. \A i \in OrderIds :
         orders'[i].rate \in IF orders'[i].provider \in Providers
                             THEN OfferedRates ELSE {0}
  BY <1>7, <1>8 DEF MoneyInv, RatesKept
<1>11. RatesKept'
  BY <1>9, <1>10 DEF RatesKept
<1>12. SwapsAsked'
  BY <1>4, <1>8 DEF SwapsAsked, MoneyInv
<1>13. QED
  BY <1>11, <1>12

\* setProvider gives the sender, and the receivers it registers, a rate it offers.
LEMMA SetProviderRates ==
  ASSUME MoneyInv, NEW sender \in Providers, NEW liquidity \in Liquidities,
         NEW terms \in Terms, NEW receivers \in ReceiverLists,
         setProvider(sender, liquidity, terms, receivers)
  PROVE  RatesKept' /\ SwapsAsked'
<1>. DEFINE pr == [liquidity |-> liquidity, rate |-> terms.rate,
                   minOrderSize |-> terms.minOrderSize, minDeposit |-> terms.minDeposit,
                   receivers |-> RangeOf(receivers)]
<1>1. providers' = [providers EXCEPT ![sender] = pr]
      /\ providers \in [Providers \cup {ZeroAddress} -> Provider]
  BY DEF setProvider, MoneyInv, TypeOK
<1>2. receiverOwners' = [r \in Receivers |-> IF r \in RangeOf(receivers)
                                             THEN sender ELSE receiverOwners[r]]
  BY DEF setProvider
<1>3. orders' = orders
  BY DEF setProvider
<1>4. pr.rate \in OfferedRates
  BY DEF OfferedRates
<1>. HIDE DEF pr
<1>5. ZeroAddress \notin Providers
  BY CoreAssumption DEF Accounts
<1>6. providers'[sender] = pr
      /\ \A p \in Providers \cup {ZeroAddress} : p # sender => providers'[p] = providers[p]
  BY <1>1
<1>7. providers'[ZeroAddress].rate = 0
  BY <1>5, <1>6 DEF MoneyInv, RatesKept
<1>8. ASSUME NEW r \in Receivers, receiverOwners'[r] \in Providers
      PROVE  providers'[receiverOwners'[r]].rate \in OfferedRates
  <2>1. CASE receiverOwners'[r] = sender
    BY <1>4, <1>6, <2>1
  <2>2. CASE receiverOwners'[r] # sender
    <3>1. receiverOwners'[r] = receiverOwners[r]
      BY <1>2, <2>2
    <3>2. QED
      BY <1>6, <1>8, <2>2, <3>1 DEF MoneyInv, RatesKept
  <2>3. QED
    BY <2>1, <2>2
<1>9. RatesKept'
  BY <1>3, <1>7, <1>8 DEF MoneyInv, RatesKept
<1>10. SwapsAsked'
  BY <1>3 DEF MoneyInv, SwapsAsked
<1>11. QED
  BY <1>9, <1>10

\* The other handlers keep or delete what they find.
LEMMA StopOrderRates ==
  ASSUME MoneyInv, NEW sender \in Creators \cup Fulfillers, NEW id \in actions,
         stopOrder(sender, id)
  PROVE  RatesKept' /\ SwapsAsked'
<1>. DEFINE q == orders[id].provider
            size == orders[id].size
<1>1. orders' = [orders EXCEPT ![id] = NoOrder] /\ orders \in [OrderIds -> Order]
  BY DEF stopOrder, MoneyInv, TypeOK
<1>2. providers' = [providers EXCEPT ![q].liquidity = @ + size]
      /\ providers \in [Providers \cup {ZeroAddress} -> Provider]
  BY DEF stopOrder, MoneyInv, TypeOK
<1>3. receiverOwners' = receiverOwners
      /\ receiverOwners \in [Receivers -> Providers \cup {ZeroAddress}]
  BY DEF stopOrder, MoneyInv, TypeOK
<1>. HIDE DEF q, size
<1>4. \A p \in Providers \cup {ZeroAddress} : providers'[p].rate = providers[p].rate
  BY <1>2 DEF Provider
<1>5. \A i \in OrderIds : orders'[i] = NoOrder \/ orders'[i] = orders[i]
  BY <1>1
<1>6. RatesKept'
  BY <1>3, <1>4, <1>5, SameRates DEF MoneyInv
<1>7. ~NoOrder.transfer.doSwap
  BY DEF NoOrder, NoTransfer
<1>8. QED
  BY <1>5, <1>6, <1>7 DEF MoneyInv, SwapsAsked

\* changeOrder touches no rate and asks for no fixed output.
LEMMA ChangeOrderRates ==
  ASSUME MoneyInv, NEW sender \in Creators \cup Fulfillers, NEW id \in actions,
         NEW transfer \in Transfers, changeOrder(sender, id, transfer)
  PROVE  RatesKept' /\ SwapsAsked'
<1>1. orders' = [orders EXCEPT ![id].transfer = transfer] /\ orders \in [OrderIds -> Order]
  BY DEF changeOrder, MoneyInv, TypeOK
<1>2. providers' = providers /\ receiverOwners' = receiverOwners
      /\ receiverOwners \in [Receivers -> Providers \cup {ZeroAddress}]
  BY DEF changeOrder, MoneyInv, TypeOK
<1>3. \A i \in OrderIds : /\ orders'[i].rate = orders[i].rate
                          /\ orders'[i].provider = orders[i].provider
                          /\ orders'[i].transfer \in {transfer, orders[i].transfer}
  BY <1>1 DEF Order
<1>4. RatesKept'
  BY <1>2, <1>3, SameRates DEF MoneyInv
<1>5. QED
  BY <1>3, <1>4 DEF MoneyInv, SwapsAsked

\* fulfill touches no rate that matters and asks for no fixed output.
LEMMA FulfillRates ==
  ASSUME MoneyInv, NEW sender \in Fulfillers, NEW ids \in IdLists,
         NEW total \in Totals, NEW bonus \in Bonuses,
         fulfill(sender, ids, total, bonus)
  PROVE  RatesKept' /\ SwapsAsked'
<1>1. orders' = [i \in OrderIds |-> IF i \in RangeOf(ids)
                                    THEN FulfilledBy(orders[i], sender) ELSE orders[i]]
      /\ orders \in [OrderIds -> Order]
  BY DEF fulfill, MoneyInv, TypeOK
<1>2. providers' = providers /\ receiverOwners' = receiverOwners
      /\ receiverOwners \in [Receivers -> Providers \cup {ZeroAddress}]
  BY DEF fulfill, MoneyInv, TypeOK
<1>3. ASSUME NEW o \in Order
      PROVE  LET n == FulfilledBy(o, sender) IN
             n.rate = o.rate /\ n.provider = o.provider /\ ~n.transfer.doSwap
  BY DEF FulfilledBy, Order, TransferType
<1>4. \A i \in OrderIds :
        /\ orders'[i].rate = orders[i].rate
        /\ orders'[i].provider = orders[i].provider
        /\ orders'[i].transfer.doSwap => orders'[i].transfer = orders[i].transfer
  BY <1>1, <1>3
<1>5. RatesKept'
  BY <1>2, <1>4, SameRates DEF MoneyInv
<1>6. QED
  BY <1>4, <1>5 DEF MoneyInv, SwapsAsked

\* closeOrders touches no rate that matters and asks for no fixed output.
LEMMA CloseOrdersRates ==
  ASSUME MoneyInv, NEW oldHash \in StateHashes, NEW newHash \in StateHashes,
         NEW latest, NEW ids \in IdLists, NEW bonus \in Bonuses,
         NEW inflow \in [DOMAIN ids -> Inflows],
         closeOrders(oldHash, newHash, latest, ids, inflow, bonus)
  PROVE  RatesKept' /\ SwapsAsked'
<1>1. orders' = [i \in OrderIds |-> IF i \in RangeOf(ids) THEN NoOrder ELSE orders[i]]
  BY DEF closeOrders
<1>2. providers' = [p \in DOMAIN providers |->
        [providers[p] EXCEPT !.liquidity = @ + Returned(p, ids, inflow)]]
      /\ providers \in [Providers \cup {ZeroAddress} -> Provider]
  BY DEF closeOrders, MoneyInv, TypeOK
<1>3. receiverOwners' = receiverOwners
      /\ receiverOwners \in [Receivers -> Providers \cup {ZeroAddress}]
  BY DEF closeOrders, MoneyInv, TypeOK
<1>4. \A p \in Providers \cup {ZeroAddress} : providers'[p].rate = providers[p].rate
  BY <1>2 DEF Provider
<1>5. \A i \in OrderIds : orders'[i] = NoOrder \/ orders'[i] = orders[i]
  BY <1>1
<1>6. RatesKept'
  BY <1>3, <1>4, <1>5, SameRates DEF MoneyInv
<1>7. ~NoOrder.transfer.doSwap
  BY DEF NoOrder, NoTransfer
<1>8. QED
  BY <1>5, <1>6, <1>7 DEF MoneyInv, SwapsAsked

\* The owner's settings, its patches of the chain and the clock touch no money.
LEMMA QuietSteps ==
  ASSUME OwnerNext \/ Tick \/ UNCHANGED vars
  PROVE  UNCHANGED <<orders, receiverOwners, providers, usdt>>
<1>1. CASE OwnerNext
  BY <1>1 DEF OwnerNext, updateActionChain, setCoreVariables, setFeesVariables, SetPaused,
              books
<1>2. CASE Tick \/ UNCHANGED vars
  BY <1>2 DEF Tick, vars, books
<1>3. QED
  BY <1>1, <1>2

\* Every transaction keeps the rates and the swaps.
LEMMA NextMoney == MoneyInv /\ [Next]_vars => MoneyInv'
<1>. SUFFICES ASSUME MoneyInv, [Next]_vars PROVE MoneyInv'
  OBVIOUS
<1>0. TypeOK'
  BY NextType DEF MoneyInv
<1>1. CASE CreatorNext
  BY <1>0, <1>1, CreateOrderRates DEF CreatorNext, MoneyInv
<1>2. CASE HolderNext
  BY <1>0, <1>2, ChangeOrderRates, StopOrderRates DEF HolderNext, MoneyInv
<1>3. CASE FulfillerNext
  BY <1>0, <1>3, FulfillRates DEF FulfillerNext, MoneyInv
<1>4. CASE RelayerNext
  BY <1>0, <1>4, CloseOrdersRates DEF RelayerNext, MoneyInv
<1>5. CASE ProviderNext
  BY <1>0, <1>5, SetProviderRates DEF ProviderNext, MoneyInv
<1>6. CASE OwnerNext \/ Tick \/ UNCHANGED vars
  <2>1. UNCHANGED <<orders, receiverOwners, providers>>
    BY <1>6, QuietSteps
  <2>2. QED
    BY <1>0, <2>1 DEF MoneyInv, RatesKept, SwapsAsked
<1>7. QED
  BY <1>1, <1>2, <1>3, <1>4, <1>5, <1>6 DEF Next

-----------------------------------------------------------------------------
(***************************************************************************)
(* What the contract owes, as a sum over providers and a sum over orders.  *)
(***************************************************************************)
LiquidityOf(ps) == SumFunctionOnSet([p \in Providers |-> ps[p].liquidity], Providers)

HeldFor(os) == SumFunctionOnSet([id \in OrderIds |-> Held(os[id])], OrderIds)

ProviderTable == [Providers \cup {ZeroAddress} -> Provider]

OrderTable == [OrderIds -> Order]

\* What an order locks and holds are natural numbers.
LEMMA HeldType ==
  ASSUME NEW o \in Order
  PROVE  Locked(o) \in Nat /\ o.collateral \in Nat /\ Held(o) \in Nat
         /\ Held(o) = Locked(o) + o.collateral
<1>1. o.size \in Nat /\ o.rate \in Nat /\ o.collateral \in Nat
  BY DEF Order
<1>2. Locked(o) \in Nat
  BY <1>1, ConvertedType DEF Locked
<1>3. QED
  BY <1>1, <1>2 DEF Held

\* The order IDs are finitely many.
LEMMA OrderIdsFinite == IsFiniteSet(OrderIds)
BY CoreAssumption, FS_Interval DEF OrderIds

\* The liquidity of all providers and what is held for all orders are integers.
LEMMA SumsType ==
  ASSUME NEW ps \in ProviderTable, NEW os \in OrderTable
  PROVE  LiquidityOf(ps) \in Int /\ HeldFor(os) \in Int
<1>. DEFINE f == [p \in Providers |-> ps[p].liquidity]
            h == [id \in OrderIds |-> Held(os[id])]
<1>1. \A p \in Providers : f[p] \in Int
  BY CoreAssumption DEF ProviderTable, Provider, UInt
<1>2. \A id \in OrderIds : h[id] \in Int
  BY HeldType DEF OrderTable
<1>. HIDE DEF f, h
<1>3. SumFunctionOnSet(f, Providers) \in Int
  BY <1>1, SumType, ProvidersAssumption
<1>4. SumFunctionOnSet(h, OrderIds) \in Int
  BY <1>2, SumType, OrderIdsFinite
<1>5. QED
  BY <1>3, <1>4 DEF f, h, LiquidityOf, HeldFor

\* Liabilities are the two sums.
LEMMA LiabilitiesSplit == Liabilities = LiquidityOf(providers) + HeldFor(orders)
BY DEF Liabilities, LiquidityOf, HeldFor, SumFunction

\* The liquidity after a change of one provider; that of address(0) is nobody's.
LEMMA LiquidityChange ==
  ASSUME NEW ps \in ProviderTable, NEW qs \in ProviderTable,
         NEW p \in Providers \cup {ZeroAddress},
         \A x \in Providers \ {p} : qs[x].liquidity = ps[x].liquidity
  PROVE  LiquidityOf(qs) = LiquidityOf(ps)
           + (IF p \in Providers THEN qs[p].liquidity - ps[p].liquidity ELSE 0)
<1>. DEFINE f == [x \in Providers |-> ps[x].liquidity]
            g == [x \in Providers |-> qs[x].liquidity]
<1>1. \A x \in Providers : f[x] \in Int /\ g[x] \in Int
  <2>1. \A x \in Providers : ps[x] \in Provider /\ qs[x] \in Provider
    BY DEF ProviderTable
  <2>2. \A pr \in Provider : pr.liquidity \in Int
    BY CoreAssumption DEF Provider, UInt
  <2>3. QED
    BY <2>1, <2>2
<1>2. \A x \in Providers : f[x] = ps[x].liquidity /\ g[x] = qs[x].liquidity
  OBVIOUS
<1>3. LiquidityOf(ps) = SumFunctionOnSet(f, Providers)
      /\ LiquidityOf(qs) = SumFunctionOnSet(g, Providers)
  BY DEF LiquidityOf
<1>. HIDE DEF f, g
<1>4. SumFunctionOnSet(f, Providers) \in Int
  BY <1>1, SumType, ProvidersAssumption
<1>5. CASE p \in Providers
  <2>1. \A y \in Providers \ {p} : g[y] = f[y]
    BY <1>2
  <2>2. SumFunctionOnSet(g, Providers) = SumFunctionOnSet(f, Providers) + g[p] - f[p]
    BY <1>1, <1>5, <2>1, SumUpdate, ProvidersAssumption
  <2>. DEFINE a == SumFunctionOnSet(f, Providers)
              b == SumFunctionOnSet(g, Providers)
              v == f[p]
              w == g[p]
  <2>3. a \in Int /\ v \in Int /\ w \in Int /\ b = a + w - v
    BY <1>1, <1>4, <1>5, <2>2
  <2>. HIDE DEF a, b, v, w
  <2>4. b = a + (w - v)
    BY <2>3
  <2>5. QED
    BY <1>2, <1>3, <1>5, <2>4 DEF a, b, v, w
<1>6. CASE p \notin Providers
  <2>1. \A x \in Providers : f[x] \in Int /\ g[x] = f[x]
    BY <1>1, <1>2, <1>6
  <2>2. SumFunctionOnSet(g, Providers) = SumFunctionOnSet(f, Providers)
    BY <2>1, SumSame, ProvidersAssumption
  <2>3. QED
    BY <1>3, <1>4, <1>6, <2>2
<1>7. QED
  BY <1>5, <1>6

\* What is held after a change of one order.
LEMMA HeldChange ==
  ASSUME NEW os \in OrderTable, NEW ns \in OrderTable, NEW id \in OrderIds,
         \A i \in OrderIds \ {id} : ns[i] = os[i]
  PROVE  HeldFor(ns) = HeldFor(os) + Held(ns[id]) - Held(os[id])
<1>. DEFINE f == [i \in OrderIds |-> Held(os[i])]
            g == [i \in OrderIds |-> Held(ns[i])]
<1>1. \A i \in OrderIds : f[i] \in Int /\ g[i] \in Int
  BY HeldType DEF OrderTable
<1>2. \A i \in OrderIds : f[i] = Held(os[i]) /\ g[i] = Held(ns[i])
  OBVIOUS
<1>3. HeldFor(os) = SumFunctionOnSet(f, OrderIds)
      /\ HeldFor(ns) = SumFunctionOnSet(g, OrderIds)
  BY DEF HeldFor
<1>. HIDE DEF f, g
<1>4. \A i \in OrderIds \ {id} : g[i] = f[i]
  BY <1>2
<1>5. SumFunctionOnSet(g, OrderIds) = SumFunctionOnSet(f, OrderIds) + g[id] - f[id]
  BY <1>1, <1>4, SumUpdate, OrderIdsFinite
<1>6. QED
  BY <1>2, <1>3, <1>5

\* What is held after a change of a batch of orders.
LEMMA HeldBatch ==
  ASSUME NEW os \in OrderTable, NEW ns \in OrderTable, NEW ids,
         IsFiniteSet(DOMAIN ids),
         \A i \in DOMAIN ids : ids[i] \in OrderIds,
         \A i, j \in DOMAIN ids : i # j => ids[i] # ids[j],
         \A id \in OrderIds \ RangeOf(ids) : ns[id] = os[id]
  PROVE  HeldFor(ns)
           = HeldFor(os) + SumFunctionOnSet([i \in DOMAIN ids |-> Held(ns[ids[i]])], DOMAIN ids)
                         - SumFunctionOnSet([i \in DOMAIN ids |-> Held(os[ids[i]])], DOMAIN ids)
<1>. DEFINE f == [id \in OrderIds |-> Held(os[id])]
            g == [id \in OrderIds |-> Held(ns[id])]
            D == DOMAIN ids
            R == {ids[i] : i \in D}
            fi == [i \in D |-> Held(os[ids[i]])]
            gi == [i \in D |-> Held(ns[ids[i]])]
<1>1. \A id \in OrderIds : f[id] \in Int /\ g[id] \in Int
  BY HeldType DEF OrderTable
<1>2. \A id \in OrderIds \ R : g[id] = f[id]
  BY DEF RangeOf
<1>3. R \in SUBSET OrderIds
  OBVIOUS
<1>4. \A i \in D : /\ f[ids[i]] \in Int /\ fi[i] = f[ids[i]]
                   /\ g[ids[i]] \in Int /\ gi[i] = g[ids[i]]
  BY <1>1
<1>5. HeldFor(os) = SumFunctionOnSet(f, OrderIds)
      /\ HeldFor(ns) = SumFunctionOnSet(g, OrderIds)
  BY DEF HeldFor
<1>6. IsFiniteSet(D) /\ \A i, j \in D : i # j => ids[i] # ids[j]
  OBVIOUS
<1>. HIDE DEF f, g, fi, gi
<1>7. SumFunctionOnSet(fi, D) = SumFunctionOnSet(f, R)
  <2>. HIDE DEF D
  <2>1. \A i \in D : f[ids[i]] \in Int /\ fi[i] = f[ids[i]]
    BY <1>4
  <2>2. QED
    BY <1>6, <2>1, SumImage
<1>8. SumFunctionOnSet(gi, D) = SumFunctionOnSet(g, R)
  <2>. HIDE DEF D
  <2>1. \A i \in D : g[ids[i]] \in Int /\ gi[i] = g[ids[i]]
    BY <1>4
  <2>2. QED
    BY <1>6, <2>1, SumImage
<1>. HIDE DEF R
<1>9. SumFunctionOnSet(g, OrderIds)
        = SumFunctionOnSet(f, OrderIds) + SumFunctionOnSet(g, R) - SumFunctionOnSet(f, R)
  BY <1>1, <1>2, <1>3, SumChange, OrderIdsFinite
<1>10. QED
  BY <1>5, <1>7, <1>8, <1>9 DEF fi, gi

-----------------------------------------------------------------------------
(***************************************************************************)
(* What a transaction does to the USDT that the contract holds above what  *)
(* it owes.                                                                *)
(***************************************************************************)
Surplus == usdt - Liabilities

\* No provider pays out less than an order asks for; none pays out more.
NoDiscount == \A rate \in OfferedRates : rate >= BP
AtPar      == \A rate \in OfferedRates : rate = BP

\* No creator asks for a swap.  A swap with a fixed output pays the owner out of
\* the contract's own USDT, and every swap calls code of the creator's choice
\* before fulfill and closeOrders update the order.
NoSwap == \A t \in Transfers : ~t.doSwap

\* What the contract may gain, and keeps when there is nothing to round.
BalanceKept ==
  /\ NoDiscount => Surplus' >= Surplus
  /\ AtPar => Surplus' = Surplus

\* The tables of the providers and the orders before and after a step.
LEMMA Tables ==
  ASSUME TypeOK, TypeOK'
  PROVE  /\ providers \in ProviderTable /\ providers' \in ProviderTable
         /\ orders \in OrderTable /\ orders' \in OrderTable
         /\ usdt \in Int /\ usdt' \in Int
         /\ LiquidityOf(providers) \in Int /\ HeldFor(orders) \in Int
         /\ LiquidityOf(providers') \in Int /\ HeldFor(orders') \in Int
         /\ Surplus = usdt - (LiquidityOf(providers) + HeldFor(orders))
         /\ Surplus' = usdt' - (LiquidityOf(providers') + HeldFor(orders'))
<1>1. /\ providers \in ProviderTable /\ providers' \in ProviderTable
      /\ orders \in OrderTable /\ orders' \in OrderTable
  BY DEF TypeOK, ProviderTable, OrderTable
<1>2. usdt \in Int /\ usdt' \in Int
  BY CoreAssumption DEF TypeOK, UInt
<1>3. /\ LiquidityOf(providers) \in Int /\ HeldFor(orders) \in Int
      /\ LiquidityOf(providers') \in Int /\ HeldFor(orders') \in Int
  BY <1>1, SumsType
<1>4. Surplus = usdt - (LiquidityOf(providers) + HeldFor(orders))
  BY LiabilitiesSplit DEF Surplus
<1>5. Surplus' = usdt' - (LiquidityOf(providers') + HeldFor(orders'))
  BY DEF Surplus, Liabilities, LiquidityOf, HeldFor, SumFunction
<1>6. QED
  BY <1>1, <1>2, <1>3, <1>4, <1>5

\* An ID that no order has holds nothing.
LEMMA NothingHeld == Held(NoOrder) = 0
<1>1. NoOrder.size = 0 /\ NoOrder.rate = 0 /\ NoOrder.collateral = 0
  BY DEF NoOrder
<1>2. Converted(0, 0) = 0
  BY ConvertedNothing
<1>3. QED
  BY <1>1, <1>2 DEF Held, Locked

\* createOrder moves liquidity into the order and takes its collateral.
LEMMA CreateOrderMoney ==
  ASSUME LifeInv, MoneyInv, TypeOK',
         NEW creator \in Creators, NEW provider \in Providers \cup {ZeroAddress},
         NEW receiver \in Receivers, NEW size \in Sizes, NEW transfer \in Transfers,
         createOrder(creator, provider, receiver, size, transfer)
  PROVE  Surplus' = Surplus
<1>. DEFINE id == NewOrderId(Takeover(receiver))
            o == [timestamp |-> unixToTron(now), creator |-> creator,
                  provider |-> provider, receiver |-> receiver, size |-> size,
                  rate |-> providers[provider].rate,
                  minDeposit |-> providers[provider].minDeposit,
                  collateral |-> core.requiredCollateral,
                  isFulfilled |-> FALSE, transfer |-> transfer]
            amount == Converted(size, providers[provider].rate)
            collateral == core.requiredCollateral
            liq == LiquidityOf(providers)
            held == HeldFor(orders)
<1>0. TypeOK /\ TypeOK'
  BY DEF MoneyInv
<1>1. /\ providers \in ProviderTable /\ providers' \in ProviderTable
      /\ orders \in OrderTable /\ orders' \in OrderTable
      /\ usdt \in Int /\ liq \in Int /\ held \in Int
      /\ Surplus = usdt - (liq + held)
      /\ Surplus' = usdt' - (LiquidityOf(providers') + HeldFor(orders'))
  BY <1>0, Tables
<1>2. usdt' = usdt + collateral
      /\ providers' = [providers EXCEPT ![provider].liquidity = @ - amount]
      /\ orders' = [orders EXCEPT ![id] = o]
  BY DEF createOrder
<1>3. size \in Nat /\ collateral \in Nat /\ providers[provider] \in Provider
  BY <1>0, CoreAssumption DEF TypeOK
<1>4. amount \in Nat
  BY <1>3, ConvertedType DEF Provider
<1>5. Held(o) = amount + collateral
  BY DEF Held, Locked
<1>6. id \in OrderIds /\ id \notin actions
  <2>1. id \in Nat /\ id > Len(actionChain) /\ actions = 1..Len(actionChain)
        /\ actions' = 1..id
    BY <1>0, CreateOrderChain
  <2>2. Len(actionChain) \in Nat
    BY <1>0, ActionsType
  <2>3. actions' \subseteq OrderIds
    <3>1. PICK next : next = actionChain'
      OBVIOUS
    <3>2. next \in Seq(Action) /\ Len(next) <= MaxActions
      BY <1>0, <3>1 DEF TypeOK
    <3>3. Len(next) \in Nat /\ DOMAIN next = 1..Len(next)
      BY <3>2
    <3>4. QED
      BY <3>1, <3>2, <3>3, CoreAssumption DEF actions, OrderIds
  <2>. HIDE DEF id
  <2>4. QED
    BY <2>1, <2>2, <2>3
<1>7. Held(orders[id]) = 0
  BY <1>6, NothingHeld DEF LifeInv, BooksInv, Unwritten
<1>8. provider \notin Providers => amount = 0
  BY <1>3, ConvertedNothing DEF MoneyInv, RatesKept
<1>. HIDE DEF id, o, amount, collateral, liq, held
<1>9. orders'[id] = o /\ \A i \in OrderIds \ {id} : orders'[i] = orders[i]
  BY <1>1, <1>2, <1>6 DEF OrderTable
<1>10. HeldFor(orders') = held + (amount + collateral) - 0
  BY <1>1, <1>5, <1>6, <1>7, <1>9, HeldChange DEF held
<1>11. providers'[provider].liquidity = providers[provider].liquidity - amount
       /\ \A x \in Providers \ {provider} : providers'[x].liquidity = providers[x].liquidity
  BY <1>1, <1>2, <1>3 DEF ProviderTable, Provider
<1>12. LiquidityOf(providers') = liq
         + (IF provider \in Providers
            THEN providers'[provider].liquidity - providers[provider].liquidity ELSE 0)
  BY <1>1, <1>11, LiquidityChange DEF liq
<1>13. providers[provider].liquidity \in Int
  BY <1>3, CoreAssumption DEF Provider, UInt
<1>14. LiquidityOf(providers') = liq - amount
  <2>1. CASE provider \in Providers
    BY <1>1, <1>4, <1>11, <1>12, <1>13, <2>1
  <2>2. CASE provider \notin Providers
    BY <1>1, <1>8, <1>12, <2>2
  <2>3. QED
    BY <2>1, <2>2
<1>15. QED
  BY <1>1, <1>2, <1>3, <1>4, <1>10, <1>14

\* stopOrder returns the collateral, and the size of the order instead of what
\* the order locked: at a rate of 100% or more that is no more.
LEMMA StopOrderMoney ==
  ASSUME MoneyInv, TypeOK',
         NEW sender \in Creators \cup Fulfillers, NEW id \in actions,
         stopOrder(sender, id)
  PROVE  BalanceKept
<1>. DEFINE o == orders[id]
            p == o.provider
            size == o.size
            liq == LiquidityOf(providers)
            held == HeldFor(orders)
<1>0. TypeOK /\ TypeOK'
  BY DEF MoneyInv
<1>1. /\ providers \in ProviderTable /\ providers' \in ProviderTable
      /\ orders \in OrderTable /\ orders' \in OrderTable
      /\ usdt \in Int /\ liq \in Int /\ held \in Int
      /\ Surplus = usdt - (liq + held)
      /\ Surplus' = usdt' - (LiquidityOf(providers') + HeldFor(orders'))
  BY <1>0, Tables
<1>2. usdt' = usdt - o.collateral
      /\ providers' = [providers EXCEPT ![p].liquidity = @ + size]
      /\ orders' = [orders EXCEPT ![id] = NoOrder]
  BY DEF stopOrder
<1>3. id \in OrderIds /\ o \in Order
  BY <1>0, ActionsType
<1>4. size \in Nat /\ o.rate \in Nat /\ p \in Providers \cup {ZeroAddress}
  BY <1>3 DEF Order
<1>5. Locked(o) \in Nat /\ o.collateral \in Nat /\ Held(o) = Locked(o) + o.collateral
  BY <1>3, HeldType
<1>6. orders'[id] = NoOrder /\ \A i \in OrderIds \ {id} : orders'[i] = orders[i]
  BY <1>1, <1>2, <1>3 DEF OrderTable
<1>7. HeldFor(orders') = held + 0 - (Locked(o) + o.collateral)
  BY <1>1, <1>3, <1>5, <1>6, HeldChange, NothingHeld
<1>. DEFINE credit == IF p \in Providers THEN size ELSE 0
<1>8. LiquidityOf(providers') = liq + credit
  <2>. HIDE DEF p, size, liq
  <2>0. providers[p] \in Provider
    BY <1>1, <1>4 DEF ProviderTable
  <2>1. providers[p] \in Provider /\ providers[p].liquidity \in Int
    BY <2>0, CoreAssumption DEF Provider, UInt
  <2>2. providers'[p].liquidity = providers[p].liquidity + size
        /\ \A x \in Providers \ {p} : providers'[x].liquidity = providers[x].liquidity
    BY <1>1, <1>2, <1>4, <2>1 DEF ProviderTable, Provider
  <2>3. LiquidityOf(providers') = liq
          + (IF p \in Providers THEN providers'[p].liquidity - providers[p].liquidity ELSE 0)
    BY <1>1, <1>4, <2>2, LiquidityChange DEF liq
  <2>4. QED
    BY <1>1, <1>4, <2>1, <2>2, <2>3
<1>9. o.rate \in IF p \in Providers THEN OfferedRates ELSE {0}
  BY <1>3 DEF MoneyInv, RatesKept
<1>10. NoDiscount => credit <= Locked(o)
  <2>1. CASE p \in Providers
    BY <1>4, <1>9, <2>1, ConvertedHigh DEF NoDiscount, Locked
  <2>2. CASE p \notin Providers
    BY <1>5, <2>2
  <2>3. QED
    BY <2>1, <2>2
<1>11. AtPar => credit = Locked(o)
  <2>1. CASE p \in Providers
    BY <1>4, <1>9, <2>1, ConvertedAtPar DEF AtPar, Locked
  <2>2. CASE p \notin Providers
    BY <1>4, <1>9, <2>2, ConvertedNothing DEF Locked
  <2>3. QED
    BY <2>1, <2>2
<1>12. credit \in Int
  BY <1>4
<1>. DEFINE k == Locked(o)
            c == o.collateral
<1>. HIDE DEF credit, k, c, o, liq, held
<1>13. Surplus' = Surplus + (k - credit)
  BY <1>1, <1>2, <1>5, <1>7, <1>8, <1>12 DEF k, c
<1>14. Surplus \in Int /\ k \in Int
  BY <1>1, <1>5 DEF k
<1>15. QED
  BY <1>10, <1>11, <1>12, <1>13, <1>14 DEF BalanceKept, k

\* changeOrder touches no amount.
LEMMA ChangeOrderMoney ==
  ASSUME MoneyInv, TypeOK', NEW sender \in Creators \cup Fulfillers, NEW id \in actions,
         NEW transfer \in Transfers, changeOrder(sender, id, transfer)
  PROVE  Surplus' = Surplus
<1>0. TypeOK /\ TypeOK'
  BY DEF MoneyInv
<1>1. /\ orders \in OrderTable /\ orders' \in OrderTable
      /\ usdt \in Int /\ LiquidityOf(providers) \in Int /\ HeldFor(orders) \in Int
      /\ Surplus = usdt - (LiquidityOf(providers) + HeldFor(orders))
      /\ Surplus' = usdt' - (LiquidityOf(providers') + HeldFor(orders'))
  BY <1>0, Tables
<1>2. usdt' = usdt /\ providers' = providers
      /\ orders' = [orders EXCEPT ![id].transfer = transfer]
  BY DEF changeOrder
<1>3. id \in OrderIds /\ orders[id] \in Order
  BY <1>0, ActionsType
<1>4. /\ \A i \in OrderIds \ {id} : orders'[i] = orders[i]
      /\ orders'[id].size = orders[id].size /\ orders'[id].rate = orders[id].rate
      /\ orders'[id].collateral = orders[id].collateral
  BY <1>1, <1>2, <1>3 DEF OrderTable, Order
<1>5. Held(orders'[id]) = Held(orders[id]) /\ Held(orders[id]) \in Int
  BY <1>3, <1>4, HeldType DEF Held, Locked
<1>6. HeldFor(orders') = HeldFor(orders) + Held(orders'[id]) - Held(orders[id])
  BY <1>1, <1>3, <1>4, HeldChange
<1>7. HeldFor(orders') = HeldFor(orders)
  BY <1>1, <1>5, <1>6
<1>8. QED
  BY <1>1, <1>2, <1>7

\* setProvider pays the difference.
LEMMA SetProviderMoney ==
  ASSUME MoneyInv, TypeOK', NEW sender \in Providers, NEW liquidity \in Liquidities,
         NEW terms \in Terms, NEW receivers \in ReceiverLists,
         setProvider(sender, liquidity, terms, receivers)
  PROVE  Surplus' = Surplus
<1>. DEFINE pr == [liquidity |-> liquidity, rate |-> terms.rate,
                   minOrderSize |-> terms.minOrderSize, minDeposit |-> terms.minDeposit,
                   receivers |-> RangeOf(receivers)]
            old == providers[sender].liquidity
            liq == LiquidityOf(providers)
            held == HeldFor(orders)
<1>0. TypeOK /\ TypeOK'
  BY DEF MoneyInv
<1>1. /\ providers \in ProviderTable /\ providers' \in ProviderTable
      /\ usdt \in Int /\ liq \in Int /\ held \in Int
      /\ Surplus = usdt - (liq + held)
      /\ Surplus' = usdt' - (LiquidityOf(providers') + HeldFor(orders'))
  BY <1>0, Tables
<1>2. usdt' = usdt + liquidity - old /\ orders' = orders
      /\ providers' = [providers EXCEPT ![sender] = pr]
  BY DEF setProvider
<1>3. pr.liquidity = liquidity /\ liquidity \in Int
  BY CoreAssumption DEF UInt
<1>4. old \in Int
  BY <1>1, CoreAssumption DEF ProviderTable, Provider, UInt
<1>. HIDE DEF pr, liq, held
<1>5. providers'[sender] = pr /\ \A x \in Providers \ {sender} : providers'[x] = providers[x]
  BY <1>1, <1>2 DEF ProviderTable
<1>6. LiquidityOf(providers') = liq + (pr.liquidity - old)
  BY <1>1, <1>5, LiquidityChange DEF liq
<1>7. HeldFor(orders') = held
  BY <1>2 DEF held
<1>. HIDE DEF old
<1>8. QED
  BY <1>1, <1>2, <1>3, <1>4, <1>6, <1>7

\* The positions of a batch.
LEMMA BatchType ==
  ASSUME TypeOK, NEW ids \in IdLists
  PROVE  /\ IsFiniteSet(DOMAIN ids)
         /\ \A i \in DOMAIN ids : ids[i] \in OrderIds /\ orders[ids[i]] \in Order
         /\ \A i, j \in DOMAIN ids : i # j => ids[i] # ids[j]
<1>1. DOMAIN ids = 1..Len(ids) /\ Len(ids) \in Nat
      /\ \A i \in DOMAIN ids : ids[i] \in OrderIds /\ orders[ids[i]] \in Order
  BY IdListsType
<1>2. IsFiniteSet(DOMAIN ids)
  BY <1>1, FS_Interval
<1>3. QED
  BY <1>1, <1>2 DEF IdLists

\* The parts of a conversion are integers, and make up what was converted.
LEMMA ConversionParts ==
  ASSUME NEW size \in Nat, NEW rate \in Nat, NEW fixedFee \in Int, NEW relayerFee \in Nat
  PROVE  LET c == conversion(size, rate, fixedFee, relayerFee) IN
         /\ c.value \in Int /\ c.fee \in Int
         /\ c.value + c.fee = Converted(size, rate) - fixedFee
<1>. DEFINE out == Converted(size, rate)
            value == AfterRelayerFee(out, relayerFee)
<1>1. out \in Int
  BY ConvertedType
<1>. HIDE DEF out
<1>2. BP \in Nat \ {0} /\ out * (BP - relayerFee) \in Int
  BY <1>1, BPAssumption
<1>3. value \in Int
  BY <1>2 DEF AfterRelayerFee
<1>. HIDE DEF value
<1>4. LET c == conversion(size, rate, fixedFee, relayerFee) IN
      c.value = value - fixedFee /\ c.fee = out - value
  BY DEF conversion, out, value
<1>5. (value - fixedFee) + (out - value) = out - fixedFee
      /\ value - fixedFee \in Int /\ out - value \in Int
  BY <1>1, <1>3
<1>6. QED
  BY <1>4, <1>5 DEF out

\* Without a fixed fee the recipient and the relayer share it all.
LEMMA ConversionWhole ==
  ASSUME NEW size \in Nat, NEW rate \in Nat, NEW relayerFee \in Nat
  PROVE  conversion(size, rate, 0, relayerFee).value
           + conversion(size, rate, 0, relayerFee).fee = Converted(size, rate)
<1>. DEFINE out == Converted(size, rate)
            value == AfterRelayerFee(out, relayerFee)
<1>1. out \in Int
  BY ConvertedType
<1>. HIDE DEF out
<1>2. BP \in Nat \ {0} /\ out * (BP - relayerFee) \in Int
  BY <1>1, BPAssumption
<1>3. value \in Int
  BY <1>2 DEF AfterRelayerFee
<1>. HIDE DEF value
<1>4. /\ conversion(size, rate, 0, relayerFee).value = value - 0
      /\ conversion(size, rate, 0, relayerFee).fee = out - value
  BY DEF conversion, out, value
<1>5. (value - 0) + (out - value) = out
  BY <1>1, <1>3
<1>6. QED
  BY <1>4, <1>5 DEF out

\* What the fulfiller declares pays for what fulfill sends: the contract loses the
\* collateral that goes back to the creators.
LEMMA FulfillPays ==
  ASSUME MoneyInv, NoSwap, NEW sender \in Fulfillers, NEW ids \in IdLists,
         NEW total \in Totals, NEW bonus \in Bonuses,
         fulfill(sender, ids, total, bonus)
  PROVE  LET back == SumFunctionOnSet([i \in DOMAIN ids |-> orders[ids[i]].collateral],
                                      DOMAIN ids)
         IN  back \in Int /\ usdt' = usdt - back
<1>. DEFINE D == DOMAIN ids
            amount(i) == AmountToFulfill(orders[ids[i]])
            sent(i) == smartTransfer(orders[ids[i]].transfer, amount(i).value, bonus)
            a == [i \in D |-> amount(i).value]
            c == [i \in D |-> orders[ids[i]].collateral]
            h == [i \in D |-> sent(i).spent + orders[ids[i]].collateral]
            expected == SumFunctionOnSet(a, D)
            back == SumFunctionOnSet(c, D)
            paid == SumFunctionOnSet(h, D)
            refunded == IF expected < total THEN total - expected ELSE 0
<1>0. TypeOK
  BY DEF MoneyInv
<1>1. IsFiniteSet(D) /\ \A i \in D : ids[i] \in OrderIds /\ orders[ids[i]] \in Order
  BY <1>0, BatchType
<1>2. TotalToFulfill(ids) = expected
  BY DEF TotalToFulfill, SumFunction
<1>3. usdt' = usdt + total - paid - refunded /\ total >= expected
  <2>1. SumFunction(h) = paid
    BY DEF SumFunction
  <2>2. QED
    BY <1>2, <2>1 DEF fulfill
<1>4. ASSUME NEW i \in D
      PROVE  a[i] \in Int /\ c[i] \in Int /\ h[i] = a[i] + c[i]
  <2>. DEFINE o == orders[ids[i]]
              fee == calculateFee(fees.feePoint, o.transfer.doSwap,
                                  o.transfer.chainId = HostChain)
  <2>1. o \in Order /\ o.size \in Nat /\ o.rate \in Nat /\ o.collateral \in Nat
        /\ o.transfer \in TransferType(Addresses)
    BY <1>1 DEF Order
  <2>2. fees.feePoint \in Nat /\ fees.relayerFee \in Nat
    BY <1>0 DEF TypeOK
  <2>3. fee \in Int
    BY <2>2 DEF calculateFee
  <2>4. amount(i) = conversion(o.size, o.rate, fee, fees.relayerFee)
    BY DEF AmountToFulfill
  <2>. HIDE DEF fee
  <2>5. amount(i).value \in Int
    BY <2>1, <2>2, <2>3, <2>4, ConversionParts
  <2>6. ~(o.transfer.doSwap /\ o.transfer.fixedOutput)
    BY <1>1 DEF MoneyInv, SwapsAsked, NoSwap
  <2>. DEFINE t == o.transfer
              v == amount(i).value
  <2>. HIDE DEF t, v
  <2>7. smartTransfer(t, v, bonus).spent = v
    BY <2>6 DEF smartTransfer, t
  <2>8. QED
    BY <2>1, <2>5, <2>7 DEF t, v
<1>. HIDE DEF a, c, h
<1>5. expected \in Int /\ back \in Int /\ paid = expected + back
  <2>. HIDE DEF D
  <2>1. \A i \in D : a[i] \in Int /\ c[i] \in Int /\ h[i] = a[i] + c[i]
    BY <1>4
  <2>2. QED
    BY <1>1, <2>1, SumPlus, SumType
<1>6. usdt \in Int /\ total \in Int
  BY <1>0, CoreAssumption DEF TypeOK, UInt
<1>. HIDE DEF expected, back, paid
<1>7. refunded = total - expected
  BY <1>3, <1>5, <1>6
<1>. HIDE DEF refunded
<1>8. usdt' = usdt - back
  BY <1>3, <1>5, <1>6, <1>7
<1>9. QED
  BY <1>5, <1>8 DEF back, c

\* The collateral is what the fulfilled orders no longer hold.
LEMMA FulfillMoney ==
  ASSUME MoneyInv, TypeOK', NoSwap, NEW sender \in Fulfillers, NEW ids \in IdLists,
         NEW total \in Totals, NEW bonus \in Bonuses,
         fulfill(sender, ids, total, bonus)
  PROVE  Surplus' = Surplus
<1>. DEFINE D == DOMAIN ids
            c == [i \in D |-> orders[ids[i]].collateral]
            old == [i \in D |-> Held(orders[ids[i]])]
            new == [i \in D |-> Held(orders'[ids[i]])]
            back == SumFunctionOnSet(c, D)
            liq == LiquidityOf(providers)
            held == HeldFor(orders)
            sn == SumFunctionOnSet(new, D)
            so == SumFunctionOnSet(old, D)
<1>0. TypeOK /\ TypeOK'
  BY DEF MoneyInv
<1>1. /\ orders \in OrderTable /\ orders' \in OrderTable
      /\ usdt \in Int /\ liq \in Int /\ held \in Int
      /\ Surplus = usdt - (liq + held)
      /\ Surplus' = usdt' - (LiquidityOf(providers') + HeldFor(orders'))
  BY <1>0, Tables
<1>2. IsFiniteSet(D) /\ \A i \in D : ids[i] \in OrderIds /\ orders[ids[i]] \in Order
  BY <1>0, BatchType
<1>3. back \in Int /\ usdt' = usdt - back
  BY FulfillPays
<1>4. providers' = providers
      /\ orders' = [i \in OrderIds |-> IF i \in RangeOf(ids)
                                       THEN FulfilledBy(orders[i], sender) ELSE orders[i]]
  BY DEF fulfill
<1>5. ASSUME NEW i \in D
      PROVE  new[i] \in Int /\ c[i] \in Int /\ old[i] = new[i] + c[i]
  <2>. DEFINE o == orders[ids[i]]
              n == orders'[ids[i]]
  <2>1. o \in Order /\ ids[i] \in OrderIds /\ ids[i] \in RangeOf(ids)
    BY <1>2 DEF RangeOf
  <2>2. n = FulfilledBy(o, sender)
    BY <1>4, <2>1
  <2>. HIDE DEF o, n
  <2>3. n.size = o.size /\ n.rate = o.rate /\ n.collateral = 0
    BY <2>1, <2>2 DEF FulfilledBy, Order
  <2>4. Locked(n) = Locked(o) /\ Locked(o) \in Nat /\ o.collateral \in Nat
        /\ Held(o) = Locked(o) + o.collateral
    BY <2>1, <2>3, HeldType DEF o, Locked
  <2>5. Held(n) = Locked(o) + 0
    BY <2>3, <2>4 DEF Held
  <2>6. QED
    BY <2>4, <2>5 DEF o, n
<1>6. HeldFor(orders') = held + sn - so
  <2>1. \A id \in OrderIds \ RangeOf(ids) : orders'[id] = orders[id]
    BY <1>4
  <2>2. /\ IsFiniteSet(DOMAIN ids) /\ \A i \in DOMAIN ids : ids[i] \in OrderIds
        /\ \A i, j \in DOMAIN ids : i # j => ids[i] # ids[j]
    BY <1>0, BatchType
  <2>3. QED
    BY <1>1, <2>1, <2>2, HeldBatch
<1>. HIDE DEF c, old, new
<1>7. sn \in Int /\ so = sn + back
  <2>. HIDE DEF D
  <2>1. \A i \in D : new[i] \in Int /\ c[i] \in Int /\ old[i] = new[i] + c[i]
    BY <1>5
  <2>2. QED
    BY <1>2, <2>1, SumPlus, SumType
<1>8. LiquidityOf(providers') = liq
  BY <1>4
<1>. HIDE DEF sn, so, back, liq, held
<1>9. QED
  BY <1>1, <1>3, <1>6, <1>7, <1>8

\* A payout and what is left of an order are no more than what it locked: the
\* two conversions round down where the order rounded down once.
LEMMA PayoutFits ==
  ASSUME MoneyInv, NEW id \in OrderIds, NEW inflow \in Nat
  PROVE  LET o == orders[id]
             gone == Payout(o, inflow).value + Payout(o, inflow).fee
             rest == Remaining(o, inflow)
         IN  /\ Payout(o, inflow).value \in Int /\ Payout(o, inflow).fee \in Int
             /\ gone \in Int /\ rest \in Nat
             /\ gone + rest <= Locked(o)
             /\ AtPar => gone + rest = Locked(o)
             /\ o.provider \notin Providers => rest = 0
<1>. DEFINE o == orders[id]
            m == MinInflow(o, inflow)
            gone == Payout(o, inflow).value + Payout(o, inflow).fee
            rest == Remaining(o, inflow)
            rate == o.rate
            size == o.size
<1>1. o \in Order /\ fees.relayerFee \in Nat
  BY DEF MoneyInv, TypeOK
<1>2. size \in Nat /\ rate \in Nat
  BY <1>1 DEF Order
<1>3. m \in Nat /\ size - m \in Nat /\ size = m + (size - m)
  BY <1>2 DEF MinInflow
<1>4. Payout(o, inflow) = conversion(m, rate, 0, fees.relayerFee)
  BY DEF Payout
<1>5. rest = Converted(size - m, rate) /\ Locked(o) = Converted(size, rate)
  BY DEF Remaining, Locked
<1>6. rate \in IF o.provider \in Providers THEN OfferedRates ELSE {0}
  BY DEF MoneyInv, RatesKept
<1>. DEFINE s == size - m
            v == Payout(o, inflow).value
            f == Payout(o, inflow).fee
            prov == o.provider
            L == Locked(o)
<1>. HIDE DEF o, m, rate, size, s, rest, v, f, prov, L
<1>7. v \in Int /\ f \in Int /\ v + f = Converted(m, rate)
  <2>. DEFINE fee == fees.relayerFee
              zero == 0
              c == conversion(m, rate, zero, fee)
  <2>1. fee \in Nat /\ zero \in Int
    BY <1>1
  <2>2. v = c.value /\ f = c.fee
    BY <1>4 DEF v, f
  <2>. HIDE DEF fee, zero
  <2>3. m \in Nat /\ rate \in Nat
    BY <1>2, <1>3
  <2>4. c.value \in Int /\ c.fee \in Int
    BY <2>1, <2>3, ConversionParts
  <2>5. c.value + c.fee = Converted(m, rate)
    BY <2>1, <2>3, ConversionWhole DEF zero
  <2>6. Converted(m, rate) \in Int
    BY <2>3, ConvertedType
  <2>7. QED
    BY <2>2, <2>4, <2>5, <2>6
<1>8. Converted(m, rate) \in Nat /\ rest \in Nat
  BY <1>2, <1>3, <1>5, ConvertedType DEF s
<1>9. s \in Nat /\ size = m + s /\ rest = Converted(s, rate) /\ L = Converted(size, rate)
  BY <1>3, <1>5 DEF s, L
<1>10. Converted(m, rate) + rest <= L
  BY <1>2, <1>3, <1>9, ConvertedSplit
<1>11. ASSUME rate = 0 PROVE Converted(m, rate) = 0 /\ rest = 0 /\ L = 0
  BY <1>2, <1>3, <1>9, <1>11, ConvertedNothing
<1>12. ASSUME rate = BP PROVE Converted(m, rate) = m /\ rest = s /\ L = size
  BY <1>2, <1>3, <1>9, <1>12, ConvertedAtPar
<1>13. AtPar => Converted(m, rate) + rest = L
  <2>1. CASE prov \in Providers
    <3>1. AtPar => rate = BP
      BY <1>6, <2>1 DEF AtPar, prov
    <3>2. QED
      BY <1>3, <1>9, <1>12, <3>1
  <2>2. CASE prov \notin Providers
    <3>1. rate = 0
      BY <1>6, <2>2 DEF prov
    <3>2. QED
      BY <1>11, <3>1
  <2>3. QED
    BY <2>1, <2>2
<1>14. prov \notin Providers => rest = 0
  BY <1>6, <1>11 DEF prov
<1>15. v + f \in Int /\ v + f = Converted(m, rate)
  BY <1>7, <1>8
<1>16. QED
  BY <1>7, <1>8, <1>10, <1>13, <1>14, <1>15 DEF v, f, prov, L, rest, o

\* The liquidity that a batch returns to the providers.
LEMMA LiquidityReturned ==
  ASSUME MoneyInv, TypeOK', NEW ids \in IdLists, NEW inflow \in [DOMAIN ids -> Inflows],
         providers' = [p \in DOMAIN providers |->
           [providers[p] EXCEPT !.liquidity = @ + Returned(p, ids, inflow)]]
  PROVE  LET rest == SumFunctionOnSet(
                       [i \in DOMAIN ids |-> Remaining(orders[ids[i]], inflow[i])],
                       DOMAIN ids)
         IN  rest \in Int /\ LiquidityOf(providers') = LiquidityOf(providers) + rest
<1>. DEFINE D == DOMAIN ids
            r == [i \in D |-> Remaining(orders[ids[i]], inflow[i])]
            prov == [i \in D |-> orders[ids[i]].provider]
            f == [p \in Providers |-> providers[p].liquidity]
            g == [p \in Providers |-> providers'[p].liquidity]
            R == [p \in Providers |-> Returned(p, ids, inflow)]
            E == {i \in D : prov[i] \in Providers}
<1>0. TypeOK /\ TypeOK'
  BY DEF MoneyInv
<1>1. IsFiniteSet(D) /\ \A i \in D : ids[i] \in OrderIds /\ orders[ids[i]] \in Order
  BY <1>0, BatchType
<1>2. ASSUME NEW i \in D
      PROVE  r[i] \in Int /\ (i \notin E => r[i] = 0)
  <2>1. inflow[i] \in Nat /\ ids[i] \in OrderIds
    BY <1>1, CoreAssumption
  <2>2. Remaining(orders[ids[i]], inflow[i]) \in Nat
        /\ (orders[ids[i]].provider \notin Providers => Remaining(orders[ids[i]], inflow[i]) = 0)
    BY <2>1, PayoutFits
  <2>3. QED
    BY <2>2
<1>3. \A p \in Providers : R[p] = SumFunctionOnSet(r, {i \in D : prov[i] = p})
  <2>1. ASSUME NEW p \in Providers
        PROVE  R[p] = SumFunctionOnSet(r, {i \in D : prov[i] = p})
    <3>1. R[p] = Returned(p, ids, inflow)
      OBVIOUS
    <3>2. {i \in DOMAIN ids : orders[ids[i]].provider = p} = {i \in D : prov[i] = p}
      OBVIOUS
    <3>3. QED
      BY <3>1, <3>2 DEF Returned
  <2>2. QED
    BY <2>1
<1>4. \A p \in Providers : f[p] \in Int /\ g[p] = f[p] + R[p]
  <2>1. ASSUME NEW p \in Providers PROVE f[p] \in Int /\ g[p] = f[p] + R[p]
    <3>1. p \in DOMAIN providers /\ providers[p] \in Provider
      BY <1>0 DEF TypeOK
    <3>2. providers'[p] = [providers[p] EXCEPT !.liquidity = @ + Returned(p, ids, inflow)]
      BY <3>1
    <3>3. providers'[p].liquidity = providers[p].liquidity + Returned(p, ids, inflow)
      BY <3>1, <3>2 DEF Provider
    <3>4. providers[p].liquidity \in Int
      BY <3>1, CoreAssumption DEF Provider, UInt
    <3>5. QED
      BY <3>3, <3>4
  <2>2. QED
    BY <2>1
<1>5. LiquidityOf(providers) = SumFunctionOnSet(f, Providers)
      /\ LiquidityOf(providers') = SumFunctionOnSet(g, Providers)
  BY DEF LiquidityOf
<1>6. E \in SUBSET D
  OBVIOUS
<1>7. E = {i \in D : prov[i] \in Providers}
  OBVIOUS
<1>. HIDE DEF r, prov, f, g, R, E
<1>8. \A p \in Providers : R[p] \in Int
  <2>1. ASSUME NEW p \in Providers PROVE R[p] \in Int
    <3>. DEFINE A == {i \in D : prov[i] = p}
    <3>1. R[p] = SumFunctionOnSet(r, A) /\ A \in SUBSET D
      BY <1>3
    <3>. HIDE DEF A, D
    <3>2. IsFiniteSet(A) /\ \A i \in A : r[i] \in Int
      BY <1>1, <1>2, <3>1, FS_Subset
    <3>3. QED
      BY <3>1, <3>2, SumType
  <2>2. QED
    BY <2>1
<1>. HIDE DEF D
<1>9. SumFunctionOnSet(g, Providers)
        = SumFunctionOnSet(f, Providers) + SumFunctionOnSet(R, Providers)
  BY <1>4, <1>8, SumPlus, ProvidersAssumption
<1>10. \A i \in D : r[i] \in Int
  BY <1>2
<1>11. SumFunctionOnSet(R, Providers) = SumFunctionOnSet(r, E)
  <2>. DEFINE K == [p \in Providers |-> {i \in D : prov[i] = p}]
  <2>1. IsFiniteSet(D) /\ IsFiniteSet(Providers)
    BY <1>1, ProvidersAssumption
  <2>2. \A p \in Providers : K[p] \in SUBSET D /\ R[p] = SumFunctionOnSet(r, K[p])
    BY <1>3
  <2>3. \A p, q \in Providers : \A i \in D : i \in K[p] /\ i \in K[q] => p = q
    OBVIOUS
  <2>4. \A i \in D : i \in E <=> \E p \in Providers : i \in K[p]
    BY <1>7
  <2>. HIDE DEF K
  <2>5. QED
    BY <1>6, <1>10, <2>1, <2>2, <2>3, <2>4, SumClasses, SMTT(30)
<1>12. /\ SumFunctionOnSet(r, E) \in Int
       /\ SumFunctionOnSet(r, D) = SumFunctionOnSet(r, E) + SumFunctionOnSet(r, D \ E)
  BY <1>1, <1>6, <1>10, SumUnion
<1>13. SumFunctionOnSet(r, D \ E) = 0
  <2>. DEFINE B == D \ E
  <2>1. IsFiniteSet(B) /\ \A i \in B : r[i] = 0
    BY <1>1, <1>2, FS_Subset
  <2>. HIDE DEF B
  <2>2. SumFunctionOnSet(r, B) = 0
    BY <2>1, SumZero
  <2>3. QED
    BY <2>2 DEF B
<1>14. SumFunctionOnSet(r, D) = SumFunctionOnSet(r, E)
  BY <1>12, <1>13
<1>15. QED
  BY <1>5, <1>9, <1>11, <1>12, <1>14 DEF r, D

\* closeOrders pays out of each order and returns what is left of it.
LEMMA CloseOrdersMoney ==
  ASSUME MoneyInv, TypeOK', NEW oldHash \in StateHashes, NEW newHash \in StateHashes,
         NEW latest, NEW ids \in IdLists, NEW bonus \in Bonuses,
         NEW inflow \in [DOMAIN ids -> Inflows],
         closeOrders(oldHash, newHash, latest, ids, inflow, bonus)
  PROVE  Surplus' >= Surplus /\ (AtPar => Surplus' = Surplus)
<1>. DEFINE D == DOMAIN ids
            payout(i) == Payout(orders[ids[i]], inflow[i])
            sent(i) == smartTransfer([orders[ids[i]].transfer EXCEPT !.fixedOutput = FALSE],
                                     payout(i).value, bonus)
            h == [i \in D |-> sent(i).spent + orders[ids[i]].collateral + payout(i).fee]
            r == [i \in D |-> Remaining(orders[ids[i]], inflow[i])]
            t == [i \in D |-> h[i] + r[i]]
            old == [i \in D |-> Held(orders[ids[i]])]
            new == [i \in D |-> Held(orders'[ids[i]])]
            paid == SumFunctionOnSet(h, D)
            rest == SumFunctionOnSet(r, D)
            so == SumFunctionOnSet(old, D)
            sn == SumFunctionOnSet(new, D)
            st == SumFunctionOnSet(t, D)
            liq == LiquidityOf(providers)
            held == HeldFor(orders)
<1>0. TypeOK /\ TypeOK'
  BY DEF MoneyInv
<1>1. /\ orders \in OrderTable /\ orders' \in OrderTable
      /\ usdt \in Int /\ liq \in Int /\ held \in Int
      /\ Surplus = usdt - (liq + held)
      /\ Surplus' = usdt' - (LiquidityOf(providers') + HeldFor(orders'))
  BY <1>0, Tables
<1>2. IsFiniteSet(D) /\ \A i \in D : ids[i] \in OrderIds /\ orders[ids[i]] \in Order
  BY <1>0, BatchType
<1>3. usdt' = usdt - paid
  <2>1. SumFunction(h) = paid
    BY DEF SumFunction
  <2>2. QED
    BY <2>1 DEF closeOrders
<1>4. providers' = [p \in DOMAIN providers |->
        [providers[p] EXCEPT !.liquidity = @ + Returned(p, ids, inflow)]]
      /\ orders' = [i \in OrderIds |-> IF i \in RangeOf(ids) THEN NoOrder ELSE orders[i]]
  BY DEF closeOrders
<1>5. rest \in Int /\ LiquidityOf(providers') = liq + rest
  BY <1>4, LiquidityReturned
<1>6. HeldFor(orders') = held + sn - so
  <2>1. \A id \in OrderIds \ RangeOf(ids) : orders'[id] = orders[id]
    BY <1>4
  <2>2. /\ IsFiniteSet(DOMAIN ids) /\ \A i \in DOMAIN ids : ids[i] \in OrderIds
        /\ \A i, j \in DOMAIN ids : i # j => ids[i] # ids[j]
    BY <1>0, BatchType
  <2>3. QED
    BY <1>1, <2>1, <2>2, HeldBatch
<1>7. \A i \in D : new[i] = 0
  <2>1. \A i \in D : orders'[ids[i]] = NoOrder
    BY <1>2, <1>4 DEF RangeOf
  <2>2. QED
    BY <2>1, NothingHeld
<1>8. ASSUME NEW i \in D
      PROVE  /\ h[i] \in Int /\ r[i] \in Int /\ t[i] = h[i] + r[i] /\ old[i] \in Int
             /\ t[i] <= old[i] /\ (AtPar => t[i] = old[i])
  <2>. DEFINE o == orders[ids[i]]
              v == payout(i).value
              f == payout(i).fee
              c == o.collateral
              L == Locked(o)
              w == [o.transfer EXCEPT !.fixedOutput = FALSE]
  <2>1. inflow[i] \in Nat /\ ids[i] \in OrderIds /\ o \in Order
    BY <1>2, CoreAssumption
  <2>2. /\ v \in Int /\ f \in Int /\ r[i] \in Int
        /\ (v + f) + r[i] <= L /\ (AtPar => (v + f) + r[i] = L)
    BY <2>1, PayoutFits
  <2>3. L \in Int /\ c \in Int /\ old[i] = L + c
    BY <2>1, HeldType
  <2>4. ~w.fixedOutput
    <3>1. o.transfer \in TransferType(Addresses)
      BY <2>1 DEF Order
    <3>2. QED
      BY <3>1 DEF TransferType
  <2>5. sent(i).spent = v
    <3>. HIDE DEF w, v
    <3>1. smartTransfer(w, v, bonus).spent = v
      BY <2>4 DEF smartTransfer
    <3>2. QED
      BY <3>1 DEF w, v
  <2>6. h[i] = v + c + f /\ t[i] = h[i] + r[i]
    BY <2>5
  <2>. DEFINE hi == h[i]
              ri == r[i]
              ti == t[i]
              oi == old[i]
  <2>. HIDE DEF hi, ri, ti, oi, v, f, c, L, o
  <2>7. hi = v + c + f /\ ti = hi + ri /\ oi = L + c
    BY <2>3, <2>6 DEF hi, ri, ti, oi
  <2>8. ri \in Int /\ (v + f) + ri <= L /\ (AtPar => (v + f) + ri = L)
    BY <2>2 DEF ri
  <2>9. /\ hi \in Int /\ oi \in Int /\ ti <= oi /\ (AtPar => ti = oi)
    BY <2>2, <2>3, <2>7, <2>8
  <2>10. QED
    BY <2>7, <2>8, <2>9 DEF hi, ri, ti, oi
<1>. HIDE DEF h, r, t, old, new, D
<1>9. sn = 0
  BY <1>2, <1>7, SumZero
<1>10. paid \in Int /\ so \in Int /\ st = paid + rest
  <2>1. \A i \in D : h[i] \in Int /\ r[i] \in Int /\ t[i] = h[i] + r[i]
    BY <1>8
  <2>2. \A i \in D : old[i] \in Int
    BY <1>8
  <2>3. QED
    BY <1>2, <2>1, <2>2, SumPlus, SumType
<1>11. st <= so
  <2>1. \A i \in D : t[i] \in Int /\ old[i] \in Int /\ t[i] <= old[i]
    BY <1>8
  <2>2. QED
    BY <1>2, <2>1, SumLeq
<1>12. AtPar => st = so
  <2>1. SUFFICES ASSUME AtPar PROVE st = so
    OBVIOUS
  <2>2. \A i \in D : old[i] \in Int /\ t[i] = old[i]
    BY <1>8, <2>1
  <2>3. QED
    BY <1>2, <2>2, SumSame
<1>. HIDE DEF paid, rest, so, sn, st, liq, held
<1>13. Surplus' = Surplus + (so - (paid + rest)) /\ Surplus \in Int
  BY <1>1, <1>3, <1>5, <1>6, <1>9, <1>10
<1>14. QED
  BY <1>5, <1>10, <1>11, <1>12, <1>13

\* No transaction loses what the contract holds above what it owes, and without
\* rounding none changes it.
LEMMA NextBalance ==
  ASSUME LifeInv, MoneyInv, [Next]_vars, NoSwap
  PROVE  BalanceKept
<1>. SUFFICES ASSUME Surplus' # Surplus PROVE BalanceKept
  <2>1. Surplus \in Int
    <3>1. TypeOK /\ TypeOK'
      BY NextType DEF MoneyInv
    <3>. DEFINE liq == LiquidityOf(providers)
                held == HeldFor(orders)
    <3>2. usdt \in Int /\ liq \in Int /\ held \in Int /\ Surplus = usdt - (liq + held)
      BY <3>1, Tables
    <3>. HIDE DEF liq, held
    <3>3. QED
      BY <3>2
  <2>2. QED
    BY <2>1 DEF BalanceKept
<1>0. TypeOK'
  BY NextType DEF MoneyInv
<1>1. CASE CreatorNext
  BY <1>0, <1>1, CreateOrderMoney DEF CreatorNext
<1>2. CASE HolderNext
  BY <1>0, <1>2, ChangeOrderMoney, StopOrderMoney DEF HolderNext
<1>3. CASE FulfillerNext
  BY <1>0, <1>3, FulfillMoney DEF FulfillerNext
<1>4. CASE RelayerNext
  BY <1>0, <1>4, CloseOrdersMoney DEF RelayerNext, BalanceKept
<1>5. CASE ProviderNext
  BY <1>0, <1>5, SetProviderMoney DEF ProviderNext
<1>6. CASE OwnerNext \/ Tick \/ UNCHANGED vars
  <2>1. UNCHANGED <<orders, providers, usdt>>
    BY <1>6, QuietSteps
  <2>2. Surplus' = Surplus
    BY <2>1 DEF Surplus, Liabilities
  <2>3. QED
    BY <2>2
<1>7. QED
  BY <1>1, <1>2, <1>3, <1>4, <1>5, <1>6 DEF Next

\* A new contract holds nothing and owes nothing.
LEMMA InitBalance == Init => Surplus = 0
<1>. SUFFICES ASSUME Init PROVE Surplus = 0
  OBVIOUS
<1>. DEFINE f == [p \in Providers |-> providers[p].liquidity]
            h == [id \in OrderIds |-> Held(orders[id])]
<1>1. \A p \in Providers : f[p] = 0
  BY DEF Init, NoProvider
<1>2. \A id \in OrderIds : h[id] = 0
  BY NothingHeld DEF Init
<1>3. Liabilities = SumFunctionOnSet(f, Providers) + SumFunctionOnSet(h, OrderIds)
  BY DEF Liabilities, SumFunction
<1>. HIDE DEF f, h
<1>4. SumFunctionOnSet(f, Providers) = 0 /\ SumFunctionOnSet(h, OrderIds) = 0
  BY <1>1, <1>2, SumZero, ProvidersAssumption, OrderIdsFinite
<1>5. usdt = 0
  BY DEF Init
<1>6. QED
  BY <1>3, <1>4, <1>5 DEF Surplus

\* The two sums and the balance are integers.
LEMMA SurplusType ==
  ASSUME TypeOK
  PROVE  usdt \in Int /\ Liabilities \in Int /\ Surplus = usdt - Liabilities
<1>1. providers \in ProviderTable /\ orders \in OrderTable /\ usdt \in Int
  BY CoreAssumption DEF TypeOK, ProviderTable, OrderTable, UInt
<1>2. LiquidityOf(providers) \in Int /\ HeldFor(orders) \in Int
  BY <1>1, SumsType
<1>3. Liabilities \in Int
  BY <1>2, LiabilitiesSplit
<1>4. QED
  BY <1>1, <1>3 DEF Surplus

-----------------------------------------------------------------------------
(***************************************************************************)
(* The theorems.                                                           *)
(***************************************************************************)
BalanceInv == LifeInv /\ MoneyInv

\* A contract that was just initialized owes nothing and has nothing.
LEMMA InitBooksAndMoney == Init => BalanceInv
BY InitLife, InitMoney DEF BalanceInv

\* Every transaction keeps the books and the money in line.
LEMMA NextBooksAndMoney == BalanceInv /\ [Next]_vars => BalanceInv'
BY NextLife, NextMoney DEF BalanceInv

\* The contract is solvent in every reachable state, whatever the providers,
\* creators, fulfillers and the relayer do, when no provider offers a rate under
\* 100% (see ReturnsWhatItTook for what happens then) and every transfer is of
\* USDT, on the host chain or over the bridge.
THEOREM ContractIsSolvent ==
  ASSUME NoDiscount, NoSwap
  PROVE  Spec => []Solvent
<1>. DEFINE I == BalanceInv /\ Surplus >= 0
<1>1. Init => I
  BY InitBooksAndMoney, InitBalance
<1>2. I /\ [Next]_vars => I'
  <2>. SUFFICES ASSUME I, [Next]_vars PROVE I'
    OBVIOUS
  <2>1. BalanceInv'
    BY NextBooksAndMoney
  <2>2. Surplus' >= Surplus
    BY NextBalance DEF BalanceInv, BalanceKept
  <2>3. Surplus \in Int /\ Surplus' \in Int
    <3>1. TypeOK /\ TypeOK'
      BY NextType DEF BalanceInv, MoneyInv
    <3>. DEFINE a == LiquidityOf(providers)
                b == HeldFor(orders)
                c == LiquidityOf(providers')
                d == HeldFor(orders')
    <3>2. /\ usdt \in Int /\ usdt' \in Int /\ a \in Int /\ b \in Int /\ c \in Int /\ d \in Int
          /\ Surplus = usdt - (a + b) /\ Surplus' = usdt' - (c + d)
      BY <3>1, Tables
    <3>. HIDE DEF a, b, c, d
    <3>3. QED
      BY <3>2
  <2>4. QED
    BY <2>1, <2>2, <2>3
<1>3. I => Solvent
  <2>. SUFFICES ASSUME I PROVE Solvent
    OBVIOUS
  <2>1. usdt \in Int /\ Liabilities \in Int /\ Surplus = usdt - Liabilities
    BY SurplusType DEF BalanceInv, MoneyInv
  <2>2. QED
    BY <2>1 DEF Solvent
<1>. HIDE DEF I
<1>4. QED
  BY <1>1, <1>2, <1>3, PTL DEF Spec

\* With every rate at 100% no transaction rounds: the contract holds exactly what
\* it owes in every reachable state, and no USDT is ever stuck in it, as long as
\* every transfer is of USDT.
THEOREM NothingIsStuck ==
  ASSUME AtPar, NoSwap
  PROVE  Spec => []ExactAccounting
<1>. DEFINE I == BalanceInv /\ Surplus = 0
<1>1. Init => I
  BY InitBooksAndMoney, InitBalance
<1>2. I /\ [Next]_vars => I'
  BY NextBooksAndMoney, NextBalance DEF BalanceInv, BalanceKept
<1>3. I => ExactAccounting
  <2>. SUFFICES ASSUME I PROVE ExactAccounting
    OBVIOUS
  <2>1. usdt \in Int /\ Liabilities \in Int /\ Surplus = usdt - Liabilities
    BY SurplusType DEF BalanceInv, MoneyInv
  <2>2. QED
    BY <2>1 DEF ExactAccounting
<1>. HIDE DEF I
<1>4. QED
  BY <1>1, <1>2, <1>3, PTL DEF Spec

-----------------------------------------------------------------------------
(* What a step returns to the creators and the providers. *)

Done == {id \in actions : ~orders[id].isFulfilled /\ orders'[id].isFulfilled}

Ended(p) ==
  {id \in actions : IsStored(id) /\ orders[id].provider = p /\ orders'[id] = NoOrder}

\* Outside fulfill no order becomes fulfilled; outside stopOrder and closeOrders
\* none ends.
LEMMA OthersKeepOrders ==
  ASSUME LifeInv, CreatorNext \/ ProviderNext \/ OwnerNext \/ Tick \/ UNCHANGED vars
  PROVE  \A id \in actions : orders'[id] = orders[id]
<1>1. CASE CreatorNext
  <2>1. PICK creator \in Creators, provider \in Providers \cup {ZeroAddress},
             receiver \in Receivers, size \in Sizes, transfer \in Transfers :
          createOrder(creator, provider, receiver, size, transfer)
    BY <1>1 DEF CreatorNext
  <2>. DEFINE id == NewOrderId(Takeover(receiver))
  <2>2. TypeOK
    BY DEF LifeInv, BooksInv
  <2>3. id > Len(actionChain) /\ id \in Nat /\ actions = 1..Len(actionChain)
    BY <2>1, <2>2, CreateOrderChain
  <2>4. Len(actionChain) \in Nat /\ actions \subseteq OrderIds /\ orders \in [OrderIds -> Order]
    BY <2>2, ActionsType DEF TypeOK
  <2>5. \E o : orders' = [orders EXCEPT ![id] = o]
    BY <2>1 DEF createOrder
  <2>. HIDE DEF id
  <2>6. id \notin actions
    BY <2>3, <2>4
  <2>7. QED
    BY <2>4, <2>5, <2>6
<1>2. CASE ProviderNext
  <2>1. PICK sender \in Providers, liquidity \in Liquidities, terms \in Terms,
             receivers \in ReceiverLists : setProvider(sender, liquidity, terms, receivers)
    BY <1>2 DEF ProviderNext
  <2>2. orders' = orders
    BY <2>1 DEF setProvider
  <2>3. QED
    BY <2>2
<1>3. CASE OwnerNext \/ Tick \/ UNCHANGED vars
  BY <1>3, QuietSteps
<1>4. QED
  BY <1>1, <1>2, <1>3

\* A fulfiller pays for what fulfill sends: the contract's own USDT falls by the
\* collateral that goes back to the creators and by nothing else, as long as
\* nobody asks for a swap.
LEMMA FulfillBalance ==
  ASSUME LifeInv, MoneyInv, NoSwap, [Next]_vars, Done # {}
  PROVE  usdt - usdt' = SumFunction([id \in Done |-> orders[id].collateral])
<1>1. TypeOK /\ actions \subseteq OrderIds /\ orders \in [OrderIds -> Order]
  BY ActionsType DEF MoneyInv, TypeOK
<1>2. FulfillerNext
  <2>1. CASE CreatorNext \/ ProviderNext \/ OwnerNext \/ Tick \/ UNCHANGED vars
    BY <2>1, OthersKeepOrders DEF Done
  <2>2. CASE HolderNext
    <3>1. ASSUME NEW sender \in Creators \cup Fulfillers, NEW id \in actions,
                 NEW transfer \in Transfers, changeOrder(sender, id, transfer)
          PROVE  FALSE
      BY <1>1, <3>1 DEF changeOrder, Done, Order
    <3>2. ASSUME NEW sender \in Creators \cup Fulfillers, NEW id \in actions,
                 stopOrder(sender, id)
          PROVE  FALSE
      BY <1>1, <3>2 DEF stopOrder, Done, NoOrder
    <3>3. QED
      BY <2>2, <3>1, <3>2 DEF HolderNext
  <2>3. CASE RelayerNext
    <3>0. PICK oldHash, newHash \in StateHashes, latest \in {Len(actionChain)},
               ids \in IdLists, bonus \in Bonuses :
            \E inflow \in [DOMAIN ids -> Inflows] :
              closeOrders(oldHash, newHash, latest, ids, inflow, bonus)
      BY <2>3 DEF RelayerNext
    <3>. DEFINE new == [id \in OrderIds |-> IF id \in RangeOf(ids)
                                            THEN NoOrder ELSE orders[id]]
    <3>1. orders' = new
      BY <3>0 DEF closeOrders
    <3>2. \A id \in actions : orders'[id] = NoOrder \/ orders'[id] = orders[id]
      BY <1>1, <3>1
    <3>3. QED
      BY <3>2 DEF Done, NoOrder
  <2>4. QED
    BY <2>1, <2>2, <2>3 DEF Next
<1>3. PICK sender \in Fulfillers, ids \in IdLists, total \in Totals, bonus \in Bonuses :
        fulfill(sender, ids, total, bonus)
  BY <1>2 DEF FulfillerNext
<1>. DEFINE D == DOMAIN ids
            c == [i \in D |-> orders[ids[i]].collateral]
            f == [id \in Done |-> orders[id].collateral]
            back == SumFunctionOnSet(c, D)
<1>4. /\ IsFiniteSet(D) /\ \A i \in D : ids[i] \in OrderIds /\ orders[ids[i]] \in Order
      /\ \A i, j \in D : i # j => ids[i] # ids[j]
  BY <1>1, BatchType
<1>5. back \in Int /\ usdt' = usdt - back /\ usdt \in Int
  BY <1>1, <1>3, FulfillPays, CoreAssumption DEF TypeOK, UInt
<1>6. Done = {ids[i] : i \in D}
  <2>1. orders' = [i \in OrderIds |-> IF i \in RangeOf(ids)
                                      THEN FulfilledBy(orders[i], sender) ELSE orders[i]]
        /\ \A i \in D : ~orders[ids[i]].isFulfilled
    BY <1>3 DEF fulfill
  <2>2. \A i \in D : ids[i] \in actions
    BY <1>1, IdListsType
  <2>3. \A o \in Order : FulfilledBy(o, sender).isFulfilled
    BY DEF FulfilledBy, Order
  <2>4. \A id \in actions : id \in Done <=> id \in RangeOf(ids)
    BY <1>1, <2>1, <2>3 DEF Done, RangeOf
  <2>5. QED
    BY <2>2, <2>4 DEF Done, RangeOf
<1>7. \A i \in D : f[ids[i]] \in Int /\ c[i] = f[ids[i]]
  <2>1. \A i \in D : orders[ids[i]].collateral \in Int
    BY <1>4 DEF Order
  <2>2. QED
    BY <1>6, <2>1
<1>8. SumFunction(f) = SumFunctionOnSet(f, Done)
  BY DEF SumFunction
<1>. HIDE DEF c, f, D
<1>9. SumFunctionOnSet(c, D) = SumFunctionOnSet(f, {ids[i] : i \in D})
  BY <1>4, <1>7, SumImage
<1>10. usdt - usdt' = back
  <2>. HIDE DEF back
  <2>1. QED
    BY <1>5
<1>11. QED
  BY <1>6, <1>8, <1>9, <1>10 DEF f

\* A fulfiller pays for what a fulfill sends: the contract's own USDT falls by the
\* collaterals that go back to the creators and by nothing else, as long as every
\* transfer is of USDT.
THEOREM FulfillersPay ==
  ASSUME NoSwap
  PROVE  Spec => FulfillCoversItself
<1>1. BalanceInv /\ [Next]_vars =>
        [LET done == {id \in actions : ~orders[id].isFulfilled /\ orders'[id].isFulfilled}
         IN done # {} =>
              usdt - usdt' = SumFunction([id \in done |-> orders[id].collateral])]_vars
  BY FulfillBalance DEF BalanceInv, Done
<1>2. QED
  BY <1>1, InitBooksAndMoney, NextBooksAndMoney, PTL DEF Spec, FulfillCoversItself

\* The sum over a part of a batch, bounded by what its orders locked.
LEMMA ReturnedBound ==
  ASSUME MoneyInv, NEW ids \in IdLists, NEW inflow \in [DOMAIN ids -> Inflows],
         NEW A \in SUBSET DOMAIN ids
  PROVE  /\ SumFunctionOnSet([i \in DOMAIN ids |-> Remaining(orders[ids[i]], inflow[i])], A)
              \in Int
         /\ SumFunctionOnSet([i \in DOMAIN ids |-> Remaining(orders[ids[i]], inflow[i])], A)
              <= SumFunction([id \in {ids[i] : i \in A} |-> Locked(orders[id])])
<1>. DEFINE D == DOMAIN ids
            r == [i \in D |-> Remaining(orders[ids[i]], inflow[i])]
            h == [i \in D |-> Locked(orders[ids[i]])]
            R == {ids[i] : i \in A}
            f == [id \in R |-> Locked(orders[id])]
<1>1. TypeOK
  BY DEF MoneyInv
<1>2. /\ IsFiniteSet(A) /\ \A i \in A : ids[i] \in OrderIds /\ orders[ids[i]] \in Order
      /\ \A i, j \in A : i # j => ids[i] # ids[j]
  BY <1>1, BatchType, FS_Subset
<1>3. ASSUME NEW i \in A
      PROVE  r[i] \in Int /\ h[i] \in Int /\ r[i] <= h[i] /\ f[ids[i]] = h[i]
  <2>. DEFINE o == orders[ids[i]]
              n == inflow[i]
  <2>1. n \in Nat /\ ids[i] \in OrderIds /\ o \in Order
    BY <1>2, CoreAssumption
  <2>2. o.size \in Nat /\ o.rate \in Nat
    BY <2>1 DEF Order
  <2>3. MinInflow(o, n) \in Nat /\ o.size - MinInflow(o, n) \in Nat
        /\ o.size = MinInflow(o, n) + (o.size - MinInflow(o, n))
    BY <2>1, <2>2 DEF MinInflow
  <2>. DEFINE m == MinInflow(o, n)
              s == o.size - m
              rate == o.rate
              size == o.size
  <2>4. m \in Nat /\ s \in Nat /\ size = m + s /\ rate \in Nat
    BY <2>2, <2>3
  <2>5. r[i] = Converted(s, rate) /\ h[i] = Converted(size, rate) /\ f[ids[i]] = h[i]
    BY DEF Remaining, Locked
  <2>. HIDE DEF m, s, rate, size, r, h, f
  <2>6. Converted(m, rate) + Converted(s, rate) <= Converted(size, rate)
    <3>1. Converted(m, rate) + Converted(s, rate) <= Converted(m + s, rate)
      BY <2>4, ConvertedSplit
    <3>2. QED
      BY <2>4, <3>1
  <2>7. Converted(m, rate) \in Nat /\ Converted(s, rate) \in Nat
    BY <2>4, ConvertedType
  <2>8. Converted(size, rate) \in Nat
    <3>1. Converted(m + s, rate) \in Nat
      <4>1. m + s \in Nat
        BY <2>4
      <4>2. QED
        BY <2>4, <4>1, ConvertedType
    <3>2. QED
      BY <2>4, <3>1
  <2>9. QED
    BY <2>5, <2>6, <2>7, <2>8
<1>4. SumFunction(f) = SumFunctionOnSet(f, R)
  BY DEF SumFunction
<1>. HIDE DEF r, h, f
<1>5. \A i \in A : f[ids[i]] \in Int /\ h[i] = f[ids[i]]
  BY <1>3
<1>6. SumFunctionOnSet(h, A) = SumFunctionOnSet(f, R)
  BY <1>2, <1>5, SumImage
<1>7. SumFunctionOnSet(r, A) <= SumFunctionOnSet(h, A) /\ SumFunctionOnSet(r, A) \in Int
  BY <1>2, <1>3, SumLeq, SumType
<1>8. QED
  BY <1>4, <1>6, <1>7 DEF r, f

\* What stopOrder and closeOrders credit to a provider.
LEMMA ReturnBalance ==
  ASSUME LifeInv, MoneyInv, NoDiscount, [Next]_vars, NEW p \in Providers, Ended(p) # {}
  PROVE  providers'[p].liquidity - providers[p].liquidity
           <= SumFunction([id \in Ended(p) |-> Locked(orders[id])])
<1>1. /\ TypeOK /\ actions \subseteq OrderIds /\ orders \in [OrderIds -> Order]
      /\ providers \in [Providers \cup {ZeroAddress} -> Provider]
  BY ActionsType DEF MoneyInv, TypeOK
<1>2. NoOrder.creator = ZeroAddress /\ NoOrder.provider = ZeroAddress
      /\ p # ZeroAddress /\ ZeroAddress \notin Creators \cup Fulfillers
  BY CoreAssumption DEF NoOrder, Accounts
<1>3. providers[p].liquidity \in Int /\ providers[p] \in Provider
  BY <1>1, CoreAssumption DEF Provider, UInt
<1>4. CASE CreatorNext \/ ProviderNext \/ OwnerNext \/ Tick \/ UNCHANGED vars
  BY <1>2, <1>4, OthersKeepOrders DEF Ended, IsStored
<1>5. ASSUME NEW sender \in Creators \cup Fulfillers, NEW id \in actions,
             NEW transfer \in Transfers, changeOrder(sender, id, transfer)
      PROVE  FALSE
  <2>1. \A i \in actions : orders'[i].creator = orders[i].creator
    BY <1>1, <1>5 DEF changeOrder, Order
  <2>2. QED
    BY <1>2, <2>1 DEF Ended, IsStored
<1>6. CASE FulfillerNext
  <2>1. PICK sender \in Fulfillers, ids \in IdLists, total \in Totals, bonus \in Bonuses :
          fulfill(sender, ids, total, bonus)
    BY <1>6 DEF FulfillerNext
  <2>2. \A i \in actions : orders'[i] \in {orders[i], FulfilledBy(orders[i], sender)}
    BY <1>1, <2>1 DEF fulfill
  <2>3. \A o \in Order : FulfilledBy(o, sender).creator = sender
    BY DEF FulfilledBy, Order
  <2>4. QED
    BY <1>1, <1>2, <2>2, <2>3 DEF Ended, IsStored
<1>7. ASSUME NEW sender \in Creators \cup Fulfillers, NEW id \in actions,
             stopOrder(sender, id)
      PROVE  providers'[p].liquidity - providers[p].liquidity
               <= SumFunction([i \in Ended(p) |-> Locked(orders[i])])
  <2>. DEFINE o == orders[id]
              f == [i \in Ended(p) |-> Locked(orders[i])]
  <2>1. orders' = [orders EXCEPT ![id] = NoOrder] /\ o.creator = sender
        /\ providers' = [providers EXCEPT ![o.provider].liquidity = @ + o.size]
    BY <1>7 DEF stopOrder
  <2>2. \A i \in actions : i # id => orders'[i] = orders[i]
    BY <1>1, <2>1
  <2>3. \A i \in Ended(p) : i = id
    BY <1>2, <2>2 DEF Ended, IsStored
  <2>4. Ended(p) = {id} /\ o.provider = p
    BY <2>3 DEF Ended
  <2>5. o \in Order /\ o.size \in Nat /\ o.rate \in Nat
    BY <1>1 DEF Order
  <2>6. providers'[p].liquidity = providers[p].liquidity + o.size
    BY <1>1, <1>3, <2>1, <2>4 DEF Provider
  <2>7. o.rate \in OfferedRates
    BY <1>1, <2>4 DEF MoneyInv, RatesKept
  <2>8. o.size <= Locked(o) /\ Locked(o) \in Int
    BY <2>5, <2>7, ConvertedHigh, HeldType DEF NoDiscount, Locked
  <2>9. SumFunction(f) = Locked(o)
    <3>1. SumFunction(f) = SumFunctionOnSet(f, {id}) /\ f[id] = Locked(o)
      BY <2>4 DEF SumFunction
    <3>. HIDE DEF f
    <3>2. IsFiniteSet({id}) /\ {id} \ {id} = {}
      BY FS_Singleton
    <3>3. \A x \in {id} : f[x] \in Int
      BY <2>8, <3>1
    <3>4. SumFunctionOnSet(f, {id}) = f[id] + SumFunctionOnSet(f, {id} \ {id})
      BY <3>2, <3>3, SumRemove
    <3>5. SumFunctionOnSet(f, {id} \ {id}) = 0
      BY <3>2, SumEmpty
    <3>6. QED
      BY <2>8, <3>1, <3>4, <3>5
  <2>. HIDE DEF o, f
  <2>10. providers'[p].liquidity - providers[p].liquidity <= SumFunction(f)
    BY <1>3, <2>5, <2>6, <2>8, <2>9
  <2>11. QED
    BY <2>10 DEF f
<1>8. CASE RelayerNext
  <2>0. PICK oldHash, newHash \in StateHashes, latest \in {Len(actionChain)},
             ids \in IdLists, bonus \in Bonuses :
          \E inflow \in [DOMAIN ids -> Inflows] :
            closeOrders(oldHash, newHash, latest, ids, inflow, bonus)
    BY <1>8 DEF RelayerNext
  <2>1. PICK inflow \in [DOMAIN ids -> Inflows] :
          closeOrders(oldHash, newHash, latest, ids, inflow, bonus)
    BY <2>0
  <2>. DEFINE A == {i \in DOMAIN ids : orders[ids[i]].provider = p}
              r == [i \in DOMAIN ids |-> Remaining(orders[ids[i]], inflow[i])]
              given == Returned(p, ids, inflow)
  <2>2. /\ orders' = [i \in OrderIds |-> IF i \in RangeOf(ids) THEN NoOrder ELSE orders[i]]
        /\ providers' = [q \in DOMAIN providers |->
             [providers[q] EXCEPT !.liquidity = @ + Returned(q, ids, inflow)]]
    BY <2>1 DEF closeOrders
  <2>3. providers'[p] = [providers[p] EXCEPT !.liquidity = @ + given]
    BY <1>1, <2>2
  <2>4. given = SumFunctionOnSet(r, A)
    BY DEF Returned
  <2>5. \A i \in DOMAIN ids : ids[i] \in actions
    BY <1>1, IdListsType
  <2>6. Ended(p) = {ids[i] : i \in A}
    <3>1. \A i \in A : ids[i] \in Ended(p)
      <4>1. SUFFICES ASSUME NEW i \in A PROVE ids[i] \in Ended(p)
        OBVIOUS
      <4>2. ids[i] \in actions /\ ids[i] \in OrderIds /\ orders[ids[i]].provider = p
            /\ ids[i] \in RangeOf(ids)
        BY <1>1, <2>5 DEF RangeOf
      <4>3. IsStored(ids[i])
        BY <1>2, <4>2 DEF LifeInv, NothingElseStored
      <4>4. orders'[ids[i]] = NoOrder
        BY <2>2, <4>2
      <4>5. QED
        BY <4>2, <4>3, <4>4 DEF Ended
    <3>2. \A x \in Ended(p) : \E i \in A : x = ids[i]
      BY <1>1, <1>2, <2>2 DEF Ended, IsStored, RangeOf
    <3>3. QED
      BY <3>1, <3>2
  <2>7. A \in SUBSET DOMAIN ids
    OBVIOUS
  <2>. HIDE DEF A
  <2>8. SumFunctionOnSet(r, A) \in Int
        /\ SumFunctionOnSet(r, A)
             <= SumFunction([id \in {ids[i] : i \in A} |-> Locked(orders[id])])
    BY <2>7, ReturnedBound
  <2>9. given \in Int /\ given <= SumFunction([id \in Ended(p) |-> Locked(orders[id])])
    BY <2>4, <2>6, <2>8
  <2>. HIDE DEF given
  <2>10. providers'[p].liquidity = providers[p].liquidity + given
    BY <1>3, <2>3 DEF Provider
  <2>11. providers'[p].liquidity - providers[p].liquidity = given
    BY <1>3, <2>9, <2>10
  <2>12. QED
    BY <2>9, <2>11
<1>9. QED
  BY <1>4, <1>5, <1>6, <1>7, <1>8 DEF Next, HolderNext

\* When orders end, their provider is credited with no more than creating them
\* had taken, as long as no provider offers a rate under 100%: this is what the
\* comment on stopOrder says, and what a lower rate breaks.
THEOREM ProvidersGetBackWhatTheyGave ==
  ASSUME NoDiscount
  PROVE  Spec => ReturnsWhatItTook
<1>1. BalanceInv /\ [Next]_vars =>
        [\A p \in Providers :
           LET ended == {id \in actions :
                           IsStored(id) /\ orders[id].provider = p /\ orders'[id] = NoOrder}
           IN ended # {} =>
                providers'[p].liquidity - providers[p].liquidity
                  <= SumFunction([id \in ended |-> Locked(orders[id])])]_vars
  BY ReturnBalance DEF BalanceInv, Ended
<1>2. QED
  BY <1>1, InitBooksAndMoney, NextBooksAndMoney, PTL DEF Spec, ReturnsWhatItTook
=============================================================================
