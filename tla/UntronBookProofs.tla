-------------------------- MODULE UntronBookProofs --------------------------
(***************************************************************************)
(* UntronCore implements OrderBook: every transaction of the contract is,  *)
(* for those who see no more than the chain, the receivers and the state   *)
(* of the program, one step of the order book or none.                     *)
(*                                                                         *)
(* The book reads the receiver and the age of an order in the action that  *)
(* created it, the contract reads them in its storage.  They agree because *)
(* what the chain says of an open order is what is stored (Recorded).      *)
(***************************************************************************)
EXTENDS UntronCoreProofs, SequenceTheorems

\* The action that created an open order says all there is to know.
Recorded ==
  \A id \in actions : IsOpen(id) =>
    actionChain[id] = [timestamp  |-> orders[id].timestamp,
                       receiver   |-> orders[id].receiver,
                       minDeposit |-> orders[id].minDeposit,
                       size       |-> orders[id].size]

BookInv == LifeInv /\ Recorded

-----------------------------------------------------------------------------
(***************************************************************************)
(* How the book shows a chain.                                             *)
(***************************************************************************)
Entry == [timestamp : Nat, address : Receivers \cup {ZeroAddress}, size : Nat]

EntryOf(a) == [timestamp |-> a.timestamp, address |-> a.receiver, size |-> a.size]

Shown(c) == [i \in DOMAIN c |-> EntryOf(c[i])]

\* A chain is shown entry by entry.
LEMMA ShownType ==
  ASSUME NEW c \in Seq(Action)
  PROVE  /\ Shown(c) \in Seq(Entry)
         /\ Len(Shown(c)) = Len(c) /\ DOMAIN Shown(c) = DOMAIN c
         /\ \A i \in DOMAIN c : Shown(c)[i] = EntryOf(c[i])
<1>1. Len(c) \in Nat /\ DOMAIN c = 1..Len(c) /\ \A i \in 1..Len(c) : c[i] \in Action
  OBVIOUS
<1>2. \A a \in Action : EntryOf(a) \in Entry
  BY DEF Action, Entry, EntryOf
<1>3. Shown(c) \in [1..Len(c) -> Entry]
  BY <1>1, <1>2 DEF Shown
<1>4. QED
  BY <1>1, <1>3 DEF Shown

\* What is appended to a chain is appended to what is shown.
LEMMA ShownAppended ==
  ASSUME NEW c \in Seq(Action), NEW d \in Seq(Action)
  PROVE  Shown(c \o d) = Shown(c) \o Shown(d)
<1>. DEFINE s == Shown(c)
            t == Shown(d)
            u == Shown(c \o d)
<1>1. /\ s \in Seq(Entry) /\ Len(s) = Len(c)
      /\ \A i \in DOMAIN c : s[i] = EntryOf(c[i])
  BY ShownType
<1>2. /\ t \in Seq(Entry) /\ Len(t) = Len(d)
      /\ \A i \in DOMAIN d : t[i] = EntryOf(d[i])
  BY ShownType
<1>3. /\ c \o d \in Seq(Action) /\ Len(c \o d) = Len(c) + Len(d)
      /\ \A i \in 1..(Len(c) + Len(d)) :
           (c \o d)[i] = IF i <= Len(c) THEN c[i] ELSE d[i - Len(c)]
  BY ConcatProperties
<1>4. /\ u \in Seq(Entry) /\ Len(u) = Len(c) + Len(d)
      /\ \A i \in 1..(Len(c) + Len(d)) : u[i] = EntryOf((c \o d)[i])
  <2>. DEFINE e == c \o d
  <2>1. e \in Seq(Action) /\ Len(e) = Len(c) + Len(d)
    BY <1>3
  <2>2. u = Shown(e)
    OBVIOUS
  <2>. HIDE DEF e, u
  <2>3. /\ u \in Seq(Entry) /\ Len(u) = Len(e) /\ DOMAIN e = 1..Len(e)
        /\ \A i \in DOMAIN e : u[i] = EntryOf(e[i])
    BY <2>1, <2>2, ShownType
  <2>4. QED
    BY <2>1, <2>3 DEF e
<1>. HIDE DEF s, t, u
<1>5. /\ s \o t \in Seq(Entry) /\ Len(s \o t) = Len(c) + Len(d)
      /\ \A i \in 1..(Len(c) + Len(d)) :
           (s \o t)[i] = IF i <= Len(c) THEN s[i] ELSE t[i - Len(c)]
  <2>1. /\ s \o t \in Seq(Entry) /\ Len(s \o t) = Len(s) + Len(t)
        /\ \A i \in 1..(Len(s) + Len(t)) :
             (s \o t)[i] = IF i <= Len(s) THEN s[i] ELSE t[i - Len(s)]
    <3>1. s \in Seq(Entry) /\ t \in Seq(Entry)
      BY <1>1, <1>2
    <3>2. QED
      BY <3>1, ConcatProperties
  <2>2. Len(s) = Len(c) /\ Len(t) = Len(d)
    BY <1>1, <1>2
  <2>3. QED
    BY <2>1, <2>2
<1>6. Len(c) \in Nat /\ Len(d) \in Nat /\ DOMAIN c = 1..Len(c) /\ DOMAIN d = 1..Len(d)
  OBVIOUS
<1>7. \A i \in 1..(Len(c) + Len(d)) : u[i] = (s \o t)[i]
  <2>. TAKE i \in 1..(Len(c) + Len(d))
  <2>1. CASE i <= Len(c)
    <3>1. i \in DOMAIN c
      BY <1>6, <2>1
    <3>2. (c \o d)[i] = c[i] /\ (s \o t)[i] = s[i]
      BY <1>3, <1>5, <2>1
    <3>3. QED
      BY <1>1, <1>4, <3>1, <3>2
  <2>2. CASE ~(i <= Len(c))
    <3>. DEFINE j == i - Len(c)
    <3>1. j \in DOMAIN d /\ (c \o d)[i] = d[j] /\ (s \o t)[i] = t[j]
      BY <1>3, <1>5, <1>6, <2>2
    <3>. HIDE DEF j
    <3>2. QED
      BY <1>2, <1>4, <3>1
  <2>3. QED
    BY <2>1, <2>2
<1>8. u = s \o t
  BY <1>4, <1>5, <1>7, SeqEqual
<1>9. QED
  BY <1>8 DEF s, t, u

\* What the book's variables stand for.
LEMMA ShownBook ==
  /\ Shown(actionChain) = [i \in actions |-> [timestamp |-> actionChain[i].timestamp,
                                              address   |-> actionChain[i].receiver,
                                              size      |-> actionChain[i].size]]
  /\ DOMAIN Shown(actionChain) = actions
BY DEF Shown, EntryOf, actions

\* The closures that the contract appends are those of the book.
LEMMA ShownClosures ==
  ASSUME NEW n \in Nat, NEW rs \in [1..n -> Receivers \cup {ZeroAddress}], now \in Nat
  PROVE  Shown(FreeActions(rs)) = Book!Closures(rs)
<1>1. DOMAIN FreeActions(rs) = DOMAIN rs
  BY DEF FreeActions
<1>2. \A i \in DOMAIN rs : EntryOf(FreeActions(rs)[i]) = Book!Tell(rs[i], 0)
  BY DEF FreeActions, EntryOf, ActionOf, Book!Tell
<1>3. QED
  BY <1>1, <1>2 DEF Shown, Book!Closures

\* The argument that the four freeing transactions share: receivers that become
\* free and are announced on the chain are freed in the book.
LEMMA FreeingFrees ==
  ASSUME TypeOK,
         NEW n \in Nat, NEW rs \in [1..n -> Receivers \cup {ZeroAddress}],
         actionChain' = actionChain \o FreeActions(rs),
         isReceiverBusy' = Freed(RangeOf(rs))
  PROVE  /\ Shown(actionChain)' = Shown(actionChain) \o Book!Closures(rs)
         /\ isReceiverBusy' = [r \in DOMAIN isReceiverBusy |->
              IF Book!IsOneOf(r, rs) THEN Book!NoId ELSE isReceiverBusy[r]]
<1>1. actionChain \in Seq(Action) /\ FreeActions(rs) \in Seq(Action) /\ now \in Nat
  BY FreeActionsType DEF TypeOK
<1>2. Shown(actionChain') = Shown(actionChain) \o Book!Closures(rs)
  BY <1>1, ShownAppended, ShownClosures
<1>3. \A r : r \in RangeOf(rs) <=> Book!IsOneOf(r, rs)
  BY DEF RangeOf, Book!IsOneOf
<1>4. isReceiverBusy' = [r \in DOMAIN isReceiverBusy |->
                           IF Book!IsOneOf(r, rs) THEN Book!NoId ELSE isReceiverBusy[r]]
  BY <1>3 DEF Freed, NoId, Book!NoId
<1>5. Shown(actionChain)' = Shown(actionChain')
  BY DEF Shown, EntryOf
<1>6. QED
  BY <1>2, <1>4, <1>5

-----------------------------------------------------------------------------
(***************************************************************************)
(* The records and the states of IDs.                                      *)
(***************************************************************************)
\* The chain is only appended to, and an order that stays open keeps its terms:
\* then the records stay true of every order that is not new.
LEMMA RecordsKept ==
  ASSUME BookInv, TypeOK',
         actions \subseteq actions',
         \A j \in actions : actionChain'[j] = actionChain[j],
         \A id \in OrderIds :
           \/ orders'[id] = orders[id]
           \/ ~IsOpen(id)'
           \/ \E t : orders'[id] = [orders[id] EXCEPT !.transfer = t]
  PROVE  Recorded'
<1>1. TypeOK /\ Unwritten
  BY DEF BookInv, LifeInv, BooksInv
<1>2. actions \subseteq OrderIds /\ actions' \subseteq OrderIds
  <2>1. actionChain' \in Seq(Action) /\ Len(actionChain') <= MaxActions
    BY DEF TypeOK
  <2>2. actions' \subseteq OrderIds
    BY <2>1, CoreAssumption DEF actions, OrderIds
  <2>3. QED
    BY <1>1, <2>2, ActionsType
<1>3. ASSUME NEW id \in OrderIds, IsOpen(id)'
      PROVE  IsOpen(id) /\ SameTerms(orders'[id], orders[id])
  <2>1. orders[id] \in Order
    BY <1>1 DEF TypeOK
  <2>2. CASE orders'[id] = orders[id]
    BY <1>3, <2>2 DEF IsOpen, IsStored, SameTerms
  <2>3. ASSUME NEW t, orders'[id] = [orders[id] EXCEPT !.transfer = t]
        PROVE  IsOpen(id) /\ SameTerms(orders'[id], orders[id])
    BY <1>3, <2>1, <2>3 DEF IsOpen, IsStored, SameTerms, Order
  <2>4. QED
    BY <1>3, <2>2, <2>3
<1>4. ASSUME NEW id \in OrderIds, IsOpen(id) PROVE id \in actions
  BY <1>1, <1>4 DEF Unwritten, IsOpen, IsStored, NoOrder
<1>5. ASSUME NEW id \in actions', IsOpen(id)'
      PROVE  actionChain'[id] = [timestamp  |-> orders'[id].timestamp,
                                 receiver   |-> orders'[id].receiver,
                                 minDeposit |-> orders'[id].minDeposit,
                                 size       |-> orders'[id].size]
  <2>1. IsOpen(id) /\ SameTerms(orders'[id], orders[id]) /\ id \in actions
    BY <1>2, <1>3, <1>4, <1>5
  <2>2. actionChain[id] = [timestamp  |-> orders[id].timestamp,
                           receiver   |-> orders[id].receiver,
                           minDeposit |-> orders[id].minDeposit,
                           size       |-> orders[id].size]
    BY <2>1 DEF BookInv, Recorded
  <2>3. QED
    BY <2>1, <2>2 DEF SameTerms
<1>6. QED
  BY <1>5 DEF Recorded

\* The book's word for an ID, and the receiver that ending its order frees.
LEMMA StatusOfIds ==
  ASSUME BookInv, NEW id \in OrderIds
  PROVE  /\ Status(id) \in {"none", "open", "fulfilled"}
         /\ Status(id) = "open" <=> IsOpen(id)
         /\ Status(id) = "fulfilled" <=> orders[id].isFulfilled
         /\ Book!ReceiverOf(id) =
              IF orders[id].isFulfilled THEN ZeroAddress ELSE orders[id].receiver
         /\ IsOpen(id) => id \in actions
<1>1. orders[id].isFulfilled \in BOOLEAN
  BY DEF BookInv, LifeInv, BooksInv, TypeOK, Order
<1>2. /\ Status(id) \in {"none", "open", "fulfilled"}
      /\ Status(id) = "open" <=> IsOpen(id)
      /\ Status(id) = "fulfilled" <=> orders[id].isFulfilled
  BY <1>1 DEF Status, IsOpen
<1>3. IsOpen(id) => id \in actions
  BY DEF BookInv, LifeInv, BooksInv, Unwritten, IsOpen, IsStored, NoOrder
<1>4. CASE IsOpen(id)
  <2>1. id \in actions /\ ~orders[id].isFulfilled
    BY <1>3, <1>4 DEF IsOpen
  <2>2. actionChain[id].receiver = orders[id].receiver
    <3>1. actionChain[id] = [timestamp  |-> orders[id].timestamp,
                           receiver   |-> orders[id].receiver,
                           minDeposit |-> orders[id].minDeposit,
                           size       |-> orders[id].size]
      BY <1>4, <2>1 DEF BookInv, Recorded
    <3>2. QED
      BY <3>1
  <2>3. Book!ReceiverOf(id) = actionChain[id].receiver
    BY <1>2, <1>4, <2>1 DEF Book!ReceiverOf, actions
  <2>4. QED
    BY <1>2, <1>3, <2>1, <2>2, <2>3
<1>5. CASE ~IsOpen(id)
  <2>1. Book!ReceiverOf(id) = ZeroAddress
    BY <1>2, <1>5 DEF Book!ReceiverOf
  <2>2. ~orders[id].isFulfilled => orders[id].receiver = ZeroAddress
    BY <1>1, <1>5 DEF IsOpen, BookInv, LifeInv, NothingElseStored, NoOrder
  <2>3. QED
    BY <1>1, <1>2, <1>3, <2>1, <2>2
<1>6. QED
  BY <1>4, <1>5

\* A busy receiver's order has expired in the book exactly when it has expired in
\* the contract.
LEMMA SameAge ==
  ASSUME BookInv, NEW r \in Receivers, isReceiverBusy[r] # NoId
  PROVE  Book!IsExpired(isReceiverBusy[r]) <=> IsExpired(isReceiverBusy[r])
<1>. DEFINE id == isReceiverBusy[r]
<1>1. id \in actions /\ IsOpen(id)
  BY DEF BookInv, LifeInv, BooksInv, BusyHoldsOrder
<1>2. actionChain[id].timestamp = orders[id].timestamp
  <2>1. actionChain[id] = [timestamp  |-> orders[id].timestamp,
                         receiver   |-> orders[id].receiver,
                         minDeposit |-> orders[id].minDeposit,
                         size       |-> orders[id].size]
    BY <1>1 DEF BookInv, Recorded
  <2>2. QED
    BY <2>1
<1>. HIDE DEF id
<1>3. Book!IsExpired(id) <=> IsExpired(id)
  BY <1>1, <1>2 DEF Book!IsExpired, IsExpired, actions
<1>4. QED
  BY <1>3 DEF id

\* What a transaction does to the states of IDs, said of each of them.
LEMMA Settled ==
  ASSUME NEW ids, NEW as,
         \A id \in OrderIds : Status(id)' = IF id \in RangeOf(ids) THEN as ELSE Status(id)
  PROVE  Book!Settle(ids, as)
<1>1. \A id : id \in RangeOf(ids) <=> Book!IsOneOf(id, ids)
  BY DEF RangeOf, Book!IsOneOf
<1>2. QED
  BY <1>1 DEF Book!Settle, Book!Ids, OrderIds

-----------------------------------------------------------------------------
(***************************************************************************)
(* One lemma per transaction: the step of the book that it is, and the     *)
(* records that it leaves true.                                            *)
(***************************************************************************)
\* The chain only grows when receivers are freed.
LEMMA FreeingGrowsChain ==
  ASSUME TypeOK, NEW n \in Nat, NEW rs \in [1..n -> Receivers \cup {ZeroAddress}],
         actionChain' = actionChain \o FreeActions(rs)
  PROVE  /\ actions \subseteq actions'
         /\ \A j \in actions : actionChain'[j] = actionChain[j]
<1>1. actionChain \in Seq(Action) /\ now \in Nat
  BY DEF TypeOK
<1>2. QED
  BY <1>1, ChainWithFrees

\* What a stopped or closed order leaves is an ID without an order.
LEMMA DeletedStatus ==
  ASSUME NEW id \in OrderIds, orders'[id] = NoOrder
  PROVE  Status(id)' = "none" /\ ~IsOpen(id)'
BY DEF Status, IsOpen, IsStored, NoOrder

\* An order that stays as it is stays what it is in the book.
LEMMA KeptStatus ==
  ASSUME NEW id \in OrderIds, orders'[id] = orders[id]
  PROVE  Status(id)' = Status(id)
BY DEF Status, IsOpen, IsStored

\* stopOrder is a step Stop of the book.
LEMMA StopOrderBook ==
  ASSUME BookInv, NEW sender \in Creators \cup Fulfillers, NEW id \in actions,
         stopOrder(sender, id)
  PROVE  Recorded' /\ Book!Stop(id)
<1>1. TypeOK /\ TypeOK' /\ id \in OrderIds /\ orders[id] \in Order
  BY StopOrderType, ActionsType DEF BookInv, LifeInv, BooksInv
<1>. DEFINE r  == orders[id].receiver
            rs == <<r>>
            R  == {r}
<1>2. r \in Receivers \cup {ZeroAddress}
  BY <1>1 DEF Order
<1>3. rs \in [1..1 -> Receivers \cup {ZeroAddress}] /\ rs[1] = r
  BY <1>2
<1>4. /\ isReceiverBusy' = Freed(R)
      /\ actionChain' = actionChain \o FreeActions(rs)
      /\ orders' = [orders EXCEPT ![id] = NoOrder]
      /\ now' = now /\ stateHash' = stateHash
      /\ orders[id].creator = sender /\ ~orders[id].isFulfilled
  BY DEF stopOrder
<1>5. IsOpen(id)
  BY <1>4, CoreAssumption DEF IsOpen, IsStored, Accounts
<1>. HIDE DEF rs
<1>6. Book!Free(rs)
  <2>. DEFINE n == 1
  <2>1. n \in Nat /\ rs \in [1..n -> Receivers \cup {ZeroAddress}] /\ R = RangeOf(rs)
    BY <1>3 DEF RangeOf
  <2>. HIDE DEF R, r, n
  <2>2. /\ Shown(actionChain)' = Shown(actionChain) \o Book!Closures(rs)
        /\ isReceiverBusy' = [x \in DOMAIN isReceiverBusy |->
             IF Book!IsOneOf(x, rs) THEN Book!NoId ELSE isReceiverBusy[x]]
    <3>1. isReceiverBusy' = Freed(RangeOf(rs))
      BY <1>4, <2>1
    <3>2. QED
      BY <1>1, <1>4, <2>1, <3>1, FreeingFrees
  <2>3. QED
    BY <2>2 DEF Book!Free, Shown, EntryOf, actions
<1>7. \A i \in OrderIds : orders'[i] = IF i = id THEN NoOrder ELSE orders[i]
  BY <1>1, <1>4 DEF TypeOK
<1>8. Book!Settle(<<id>>, "none")
  <2>. DEFINE ids == <<id>>
  <2>1. RangeOf(ids) = {id}
    BY DEF RangeOf
  <2>. HIDE DEF ids
  <2>2. \A i \in OrderIds :
          Status(i)' = IF i \in RangeOf(ids) THEN "none" ELSE Status(i)
    BY <1>7, <2>1, DeletedStatus, KeptStatus
  <2>3. Book!Settle(ids, "none")
    BY <2>2, Settled
  <2>4. QED
    BY <2>3 DEF ids
<1>9. Book!ReceiverOf(id) = r /\ Status(id) = "open"
  BY <1>1, <1>4, <1>5, StatusOfIds
<1>10. Book!Stop(id)
  <2>1. Book!Free(<<Book!ReceiverOf(id)>>)
    BY <1>6, <1>9 DEF rs, Book!Free
  <2>2. [i \in OrderIds |-> Status(i)][id] = "open"
    BY <1>1, <1>9
  <2>3. QED
    BY <1>4, <1>8, <2>1, <2>2 DEF Book!Stop
<1>11. Recorded'
  <2>1. \A i \in OrderIds : orders'[i] = orders[i] \/ ~IsOpen(i)'
    BY <1>7, DeletedStatus
  <2>2. actions \subseteq actions' /\ \A j \in actions : actionChain'[j] = actionChain[j]
    BY <1>1, <1>3, <1>4, FreeingGrowsChain
  <2>3. QED
    BY <1>1, <2>1, <2>2, RecordsKept
<1>12. QED
  BY <1>10, <1>11

\* The lists that a batch call may name are those of the book.
LEMMA SameLists == IdLists = Book!Lists(DOMAIN Shown(actionChain))
BY ShownBook DEF IdLists, Book!Lists

\* What FulfilledBy gives counts as fulfilled.
LEMMA FulfilledStatus ==
  ASSUME TypeOK, NEW id \in OrderIds, NEW sender,
         orders'[id] = FulfilledBy(orders[id], sender)
  PROVE  Status(id)' = "fulfilled" /\ ~IsOpen(id)'
<1>1. orders[id] \in Order
  BY DEF TypeOK
<1>2. orders'[id].isFulfilled
  BY <1>1 DEF FulfilledBy, Order
<1>3. QED
  BY <1>2 DEF Status, IsOpen

\* fulfill is a step Fulfill of the book.
LEMMA FulfillBook ==
  ASSUME BookInv, NEW sender \in Fulfillers, NEW ids \in IdLists,
         NEW total \in Totals, NEW bonus \in Bonuses,
         fulfill(sender, ids, total, bonus)
  PROVE  Recorded' /\ Book!Fulfill(ids)
<1>. DEFINE rs == [i \in DOMAIN ids |-> orders[ids[i]].receiver]
            R  == RangeOf(rs)
            n  == Len(ids)
<1>1. TypeOK /\ TypeOK'
  BY FulfillType DEF BookInv, LifeInv, BooksInv
<1>2. /\ isReceiverBusy' = Freed(R)
      /\ actionChain' = actionChain \o FreeActions(rs)
      /\ now' = now /\ stateHash' = stateHash
  BY DEF fulfill
<1>3. orders' = [i \in OrderIds |-> IF i \in RangeOf(ids)
                                    THEN FulfilledBy(orders[i], sender) ELSE orders[i]]
  BY DEF fulfill
<1>4. \A i \in DOMAIN ids : ~orders[ids[i]].isFulfilled
  BY DEF fulfill
<1>5. /\ n \in Nat /\ DOMAIN ids = 1..n
      /\ \A i \in DOMAIN ids : ids[i] \in OrderIds /\ orders[ids[i]] \in Order
  BY <1>1, IdListsType
<1>6. rs \in [1..n -> Receivers \cup {ZeroAddress}]
  BY <1>5 DEF Order
<1>7. isReceiverBusy' = Freed(RangeOf(rs))
  BY <1>2
<1>8. rs = Book!ReceiversOf(ids)
  <2>1. \A i \in DOMAIN ids : Book!ReceiverOf(ids[i]) = orders[ids[i]].receiver
    BY <1>4, <1>5, StatusOfIds
  <2>2. QED
    BY <2>1 DEF Book!ReceiversOf
<1>. HIDE DEF rs, R, n
<1>9. Book!Free(Book!ReceiversOf(ids))
  <2>1. /\ Shown(actionChain)' = Shown(actionChain) \o Book!Closures(rs)
        /\ isReceiverBusy' = [x \in DOMAIN isReceiverBusy |->
             IF Book!IsOneOf(x, rs) THEN Book!NoId ELSE isReceiverBusy[x]]
    BY <1>1, <1>2, <1>5, <1>6, <1>7, FreeingFrees
  <2>2. QED
    BY <1>8, <2>1 DEF Book!Free, Shown, EntryOf, actions
<1>10. Book!Settle(ids, "fulfilled")
  <2>1. \A i \in OrderIds :
          Status(i)' = IF i \in RangeOf(ids) THEN "fulfilled" ELSE Status(i)
    BY <1>1, <1>3, FulfilledStatus, KeptStatus
  <2>2. QED
    BY <2>1, Settled
<1>11. Book!Fulfill(ids)
  <2>1. \A i \in DOMAIN ids : [id \in OrderIds |-> Status(id)][ids[i]] # "fulfilled"
    BY <1>4, <1>5, StatusOfIds
  <2>2. QED
    BY <1>2, <1>9, <1>10, <2>1 DEF Book!Fulfill
<1>12. Recorded'
  <2>1. \A i \in OrderIds : orders'[i] = orders[i] \/ ~IsOpen(i)'
    BY <1>1, <1>3, FulfilledStatus
  <2>2. actions \subseteq actions' /\ \A j \in actions : actionChain'[j] = actionChain[j]
    BY <1>1, <1>2, <1>5, <1>6, FreeingGrowsChain
  <2>3. QED
    BY <1>1, <2>1, <2>2, RecordsKept
<1>13. QED
  BY <1>11, <1>12

\* Positions in order are in order for the book.
LEMMA SameOrder == ASSUME NEW S, NEW s \in InOrder(S) PROVE s \in Book!InOrder(S)
<1>1. /\ s \in [1..Cardinality(S) -> S] /\ RangeOf(s) = S
      /\ \A k, l \in DOMAIN s : k < l => s[k] < s[l]
  BY DEF InOrder
<1>2. \A x \in S : Book!IsOneOf(x, s)
  BY <1>1 DEF RangeOf, Book!IsOneOf
<1>3. Cardinality(S) = Book!Cardinality(S)
  BY DEF Cardinality, Book!Cardinality
<1>4. QED
  BY <1>1, <1>2, <1>3 DEF Book!InOrder

\* closeOrders is a step Close of the book.
LEMMA CloseOrdersBook ==
  ASSUME BookInv, NEW oldHash \in StateHashes, NEW newHash \in StateHashes,
         NEW latest, NEW ids \in IdLists, NEW bonus \in Bonuses,
         NEW inflow \in [DOMAIN ids -> Inflows],
         closeOrders(oldHash, newHash, latest, ids, inflow, bonus)
  PROVE  Recorded' /\ Book!Close(stateHash, stateHash', ids)
<1>. DEFINE freed == [i \in DOMAIN ids |-> orders[ids[i]].receiver]
            open  == {i \in DOMAIN ids : ~orders[ids[i]].isFulfilled}
            R     == {freed[i] : i \in open}
<1>1. TypeOK /\ TypeOK'
  BY CloseOrdersType DEF BookInv, LifeInv, BooksInv
<1>2. PICK s \in InOrder(open) :
        actionChain' = actionChain \o FreeActions([k \in DOMAIN s |-> freed[s[k]]])
  BY DEF closeOrders
<1>. DEFINE rs == [k \in DOMAIN s |-> freed[s[k]]]
            is == [k \in DOMAIN s |-> ids[s[k]]]
            n  == Len(s)
<1>3. isReceiverBusy' = Freed(R) /\ now' = now
  BY DEF closeOrders
<1>4. orders' = [i \in OrderIds |-> IF i \in RangeOf(ids) THEN NoOrder ELSE orders[i]]
  BY DEF closeOrders
<1>5. /\ Len(ids) \in Nat /\ DOMAIN ids = 1..Len(ids)
      /\ \A i \in DOMAIN ids : ids[i] \in OrderIds /\ orders[ids[i]] \in Order
  BY <1>1, IdListsType
<1>6. open \in SUBSET (1..Len(ids))
  BY <1>5
<1>7. /\ n \in Nat /\ DOMAIN s = 1..n
      /\ \A k \in DOMAIN s : s[k] \in open
      /\ \A i \in open : \E k \in DOMAIN s : s[k] = i
  <2>. HIDE DEF open
  <2>1. QED
    BY <1>5, <1>6, ListingType
<1>8. /\ rs \in [1..n -> Receivers \cup {ZeroAddress}]
      /\ \A k \in 1..n : rs[k] \in R
      /\ \A r \in R : \E k \in 1..n : rs[k] = r
  <2>1. freed \in [1..Len(ids) -> Receivers \cup {ZeroAddress}]
    BY <1>5 DEF Order
  <2>. HIDE DEF freed, open
  <2>2. rs \in [1..n -> Receivers \cup {ZeroAddress}]
    BY <1>5, <1>6, <1>7, <2>1
  <2>3. /\ \A k \in 1..n : rs[k] \in R
        /\ \A r \in R : \E k \in 1..n : rs[k] = r
    BY <1>7
  <2>4. QED
    BY <2>2, <2>3
<1>9. open = {i \in DOMAIN ids : ~Book!IsFulfilled(ids[i])}
  BY <1>5, StatusOfIds DEF Book!IsFulfilled
<1>10. rs = Book!ReceiversOf(is)
  <2>1. \A i \in open : Book!ReceiverOf(ids[i]) = freed[i]
    BY <1>5, StatusOfIds
  <2>2. \A k \in DOMAIN s : Book!ReceiverOf(ids[s[k]]) = freed[s[k]]
    BY <1>7, <2>1
  <2>. HIDE DEF freed, open
  <2>3. QED
    BY <2>2 DEF Book!ReceiversOf
<1>11. actionChain' = actionChain \o FreeActions(rs)
  BY <1>2
<1>. HIDE DEF rs, R, n, open, freed
<1>12. Book!Free(Book!ReceiversOf(is))
  <2>1. /\ Shown(actionChain)' = Shown(actionChain) \o Book!Closures(rs)
        /\ isReceiverBusy' = [x \in DOMAIN isReceiverBusy |->
             IF Book!IsOneOf(x, rs) THEN Book!NoId ELSE isReceiverBusy[x]]
    <3>1. R = RangeOf(rs)
      BY <1>8 DEF RangeOf
    <3>2. TypeOK /\ n \in Nat /\ isReceiverBusy' = Freed(RangeOf(rs))
      BY <1>1, <1>3, <1>7, <3>1
    <3>3. rs \in [1..n -> Receivers \cup {ZeroAddress}]
      BY <1>8
    <3>4. QED
      BY <1>11, <3>2, <3>3, FreeingFrees
  <2>2. QED
    BY <1>10, <2>1 DEF Book!Free, Shown, EntryOf, actions
<1>13. Book!Settle(ids, "none")
  <2>1. \A i \in OrderIds :
          Status(i)' = IF i \in RangeOf(ids) THEN "none" ELSE Status(i)
    BY <1>4, DeletedStatus, KeptStatus
  <2>2. QED
    BY <2>1, Settled
<1>14. s \in Book!InOrder(open)
  BY SameOrder
<1>15. Book!Close(stateHash, stateHash', ids)
  BY <1>3, <1>9, <1>12, <1>13, <1>14 DEF Book!Close
<1>16. Recorded'
  <2>1. \A i \in OrderIds : orders'[i] = orders[i] \/ ~IsOpen(i)'
    BY <1>4, DeletedStatus
  <2>2. actions \subseteq actions' /\ \A j \in actions : actionChain'[j] = actionChain[j]
    BY <1>1, <1>7, <1>8, <1>11, FreeingGrowsChain
  <2>3. QED
    BY <1>1, <2>1, <2>2, RecordsKept
<1>17. QED
  BY <1>15, <1>16

\* The receivers of a list that are listed in order are a list of the book.
LEMMA ClearedList ==
  ASSUME NEW receivers \in ReceiverLists,
         NEW S \in SUBSET (1..Len(receivers)), NEW s \in InOrder(S)
  PROVE  [k \in DOMAIN s |-> receivers[s[k]]] \in Book!Lists(Receivers)
<1>. DEFINE m  == Len(receivers)
            n  == Len(s)
            rs == [k \in DOMAIN s |-> receivers[s[k]]]
<1>1. receivers \in Seq(Receivers) /\ m \in Nat /\ DOMAIN receivers = 1..m
  BY CoreAssumption
<1>2. m <= MaxBatch /\ \A i, j \in 1..m : i # j => receivers[i] # receivers[j]
  BY <1>1, ReceiverListsAssumption
<1>3. IsFiniteSet(1..m) /\ Cardinality(1..m) = m
  <2>. HIDE DEF m
  <2>1. Cardinality(1..m) = (IF 1 > m THEN 0 ELSE m - 1 + 1) /\ IsFiniteSet(1..m)
    BY <1>1, FS_Interval
  <2>2. QED
    BY <1>1, <2>1
<1>4. IsFiniteSet(S) /\ Cardinality(S) <= m
  BY <1>3, FS_Subset
<1>5. n = Cardinality(S) /\ DOMAIN s = 1..n /\ n \in Nat
  BY <1>4, InOrderType, FS_CardinalityType
<1>6. \A k \in 1..n : s[k] \in 1..m
  BY <1>5 DEF InOrder
<1>7. \A k, l \in 1..n : k # l => s[k] # s[l]
  <2>1. \A k, l \in 1..n : k < l => s[k] < s[l]
    BY <1>5 DEF InOrder
  <2>. HIDE DEF n
  <2>2. \A k, l \in 1..n : k # l => k < l \/ l < k
    BY <1>5
  <2>3. \A k \in 1..n : s[k] \in Nat
    BY <1>1, <1>6
  <2>4. QED
    BY <2>1, <2>2, <2>3
<1>8. rs \in [1..n -> Receivers] /\ n \in 0..MaxBatch
  <2>1. n <= MaxBatch
    BY <1>1, <1>2, <1>4, <1>5, CoreAssumption
  <2>2. QED
    BY <1>1, <1>5, <1>6, <2>1, CoreAssumption
<1>9. \A k, l \in DOMAIN rs : k # l => rs[k] # rs[l]
  BY <1>2, <1>5, <1>6, <1>7
<1>. HIDE DEF rs, n, m
<1>10. rs \in Book!Lists(Receivers)
  BY <1>8, <1>9 DEF Book!Lists
<1>11. QED
  BY <1>10 DEF rs

\* setProvider is a step Release of the book, for the receivers that it clears.
LEMMA SetProviderBook ==
  ASSUME BookInv, NEW sender \in Providers, NEW liquidity \in Liquidities,
         NEW terms \in Terms, NEW receivers \in ReceiverLists,
         setProvider(sender, liquidity, terms, receivers)
  PROVE  Recorded' /\ \E list \in Book!Lists(Receivers) : Book!Release(list)
<1>. DEFINE busy == {i \in DOMAIN receivers : isReceiverBusy[receivers[i]] # NoId}
            R    == {receivers[i] : i \in busy}
<1>1. TypeOK /\ TypeOK'
  BY SetProviderType DEF BookInv, LifeInv, BooksInv
<1>2. PICK s \in InOrder(busy) :
        actionChain' = actionChain \o FreeActions([k \in DOMAIN s |-> receivers[s[k]]])
  BY DEF setProvider
<1>. DEFINE rs == [k \in DOMAIN s |-> receivers[s[k]]]
            n  == Len(s)
<1>3. /\ isReceiverBusy' = Freed(R)
      /\ orders' = orders /\ now' = now /\ stateHash' = stateHash
  BY DEF setProvider
<1>4. \A r \in R : IsExpired(isReceiverBusy[r])
  BY DEF setProvider
<1>5. /\ busy \in SUBSET (1..Len(receivers)) /\ Len(receivers) \in Nat
      /\ receivers \in [1..Len(receivers) -> Receivers \cup {ZeroAddress}]
  BY <1>1, ClearedType
<1>6. rs \in Book!Lists(Receivers)
  <2>. HIDE DEF busy
  <2>1. QED
    BY <1>5, ClearedList
<1>7. /\ n \in Nat /\ DOMAIN s = 1..n
      /\ \A k \in DOMAIN s : s[k] \in busy
      /\ \A i \in busy : \E k \in DOMAIN s : s[k] = i
  <2>. HIDE DEF busy
  <2>1. QED
    BY <1>5, ListingType
<1>8. rs \in [1..n -> Receivers]
  <2>1. \A i \in busy : receivers[i] \in Receivers
    BY CoreAssumption
  <2>2. QED
    BY <1>7, <2>1
<1>9. /\ rs \in [1..n -> Receivers \cup {ZeroAddress}]
      /\ \A k \in 1..n : rs[k] \in R
      /\ \A r \in R : \E k \in 1..n : rs[k] = r
  BY <1>7, <1>8
<1>10. \A r \in R : isReceiverBusy[r] # NoId /\ r \in Receivers
  BY CoreAssumption
<1>11. \A k \in DOMAIN rs : isReceiverBusy[rs[k]] # NoId /\ rs[k] \in Receivers
                            /\ IsExpired(isReceiverBusy[rs[k]])
  BY <1>4, <1>7, <1>9, <1>10
<1>12. actionChain' = actionChain \o FreeActions(rs)
  BY <1>2
<1>. HIDE DEF rs, R, n, busy
<1>13. Book!Free(rs)
  <2>1. R = RangeOf(rs) /\ rs \in [1..n -> Receivers \cup {ZeroAddress}]
    BY <1>9 DEF RangeOf
  <2>2. /\ Shown(actionChain)' = Shown(actionChain) \o Book!Closures(rs)
        /\ isReceiverBusy' = [x \in DOMAIN isReceiverBusy |->
             IF Book!IsOneOf(x, rs) THEN Book!NoId ELSE isReceiverBusy[x]]
    <3>1. TypeOK /\ n \in Nat /\ isReceiverBusy' = Freed(RangeOf(rs))
      BY <1>1, <1>3, <1>7, <2>1
    <3>2. QED
      BY <1>12, <2>1, <3>1, FreeingFrees
  <2>3. QED
    BY <2>2 DEF Book!Free, Shown, EntryOf, actions
<1>14. \A k \in DOMAIN rs : /\ isReceiverBusy[rs[k]] # Book!NoId
                            /\ Book!IsExpired(isReceiverBusy[rs[k]])
  BY <1>11, SameAge DEF NoId, Book!NoId
<1>15. \A i \in OrderIds : Status(i)' = Status(i)
  BY <1>3, KeptStatus
<1>16. Book!Release(rs)
  BY <1>3, <1>13, <1>14, <1>15 DEF Book!Release
<1>17. Recorded'
  <2>1. actions \subseteq actions' /\ \A j \in actions : actionChain'[j] = actionChain[j]
    BY <1>1, <1>7, <1>9, <1>12, FreeingGrowsChain
  <2>2. QED
    BY <1>1, <1>3, <2>1, RecordsKept
<1>18. QED
  BY <1>6, <1>16, <1>17

\* The entry of a new order, after the closure of a takeover if there is one.
LEMMA ShownCreation ==
  ASSUME NEW c \in Seq(Action), NEW t \in Seq(Action), NEW a \in Action
  PROVE  Shown((c \o t) \o <<a>>) = Append(Shown(c) \o Shown(t), EntryOf(a))
<1>. DEFINE d == c \o t
            b == <<a>>
            s == Shown(c) \o Shown(t)
<1>1. b \in Seq(Action) /\ d \in Seq(Action)
  BY ConcatProperties
<1>2. Shown(b) = <<EntryOf(a)>>
  BY DEF Shown
<1>3. EntryOf(a) \in Entry
  BY DEF Action, Entry, EntryOf
<1>4. s = Shown(d) /\ s \in Seq(Entry)
  <2>1. s = Shown(d)
    BY ShownAppended
  <2>2. Shown(d) \in Seq(Entry)
    <3>. HIDE DEF d
    <3>1. QED
      BY <1>1, ShownType
  <2>3. QED
    BY <2>1, <2>2
<1>. HIDE DEF d, b, s
<1>5. Shown(d \o b) = s \o <<EntryOf(a)>>
  <2>1. Shown(d \o b) = Shown(d) \o Shown(b)
    BY <1>1, ShownAppended
  <2>2. QED
    BY <1>2, <1>4, <2>1
<1>6. Append(s, EntryOf(a)) = s \o <<EntryOf(a)>>
  BY <1>3, <1>4, AppendIsConcat
<1>7. Shown(d \o b) = Append(s, EntryOf(a))
  BY <1>5, <1>6
<1>8. QED
  BY <1>7 DEF d, b, s

\* What the book frees before it opens an order.
LEMMA SameTakeover ==
  ASSUME TypeOK, NEW receiver \in Receivers
  PROVE  LET freed == IF isReceiverBusy[receiver] = Book!NoId THEN <<>> ELSE <<receiver>>
         IN /\ Takeover(receiver) \in Seq(Action)
            /\ Len(freed) = Len(Takeover(receiver)) /\ Len(freed) \in Nat
            /\ Book!Closures(freed) = Shown(Takeover(receiver))
<1>. DEFINE t     == Takeover(receiver)
            freed == IF isReceiverBusy[receiver] = Book!NoId THEN <<>> ELSE <<receiver>>
<1>1. CASE isReceiverBusy[receiver] = NoId
  <2>1. t = <<>> /\ freed = <<>>
    BY <1>1 DEF Takeover, NoId, Book!NoId
  <2>2. Shown(<<>>) = Book!Closures(<<>>)
    BY DEF Shown, Book!Closures
  <2>. HIDE DEF t, freed
  <2>3. t \in Seq(Action) /\ Len(freed) = Len(t) /\ Len(freed) \in Nat
        /\ Book!Closures(freed) = Shown(t)
    BY <2>1, <2>2 DEF Book!Closures, Shown
  <2>4. QED
    BY <2>3 DEF t, freed
<1>2. CASE isReceiverBusy[receiver] # NoId
  <2>. DEFINE rs == <<receiver>>
              n  == 1
  <2>1. t = FreeActions(rs) /\ freed = rs
    BY <1>2 DEF Takeover, NoId, Book!NoId
  <2>2. rs \in [1..n -> Receivers \cup {ZeroAddress}] /\ n \in Nat /\ now \in Nat
        /\ Len(rs) = n
    BY DEF TypeOK
  <2>. HIDE DEF rs, n
  <2>3. FreeActions(rs) \in Seq(Action) /\ Len(FreeActions(rs)) = n
    BY <2>2, FreeActionsType
  <2>4. Shown(FreeActions(rs)) = Book!Closures(rs)
    BY <2>2, ShownClosures
  <2>. HIDE DEF t, freed
  <2>5. t \in Seq(Action) /\ Len(freed) = Len(t) /\ Len(freed) \in Nat
        /\ Book!Closures(freed) = Shown(t)
    BY <2>1, <2>2, <2>3, <2>4 DEF Book!Closures
  <2>6. QED
    BY <2>5 DEF t, freed
<1>3. QED
  BY <1>1, <1>2

\* createOrder is a step Open of the book.
LEMMA CreateOrderBook ==
  ASSUME BookInv,
         NEW creator \in Creators, NEW provider \in Providers \cup {ZeroAddress},
         NEW receiver \in Receivers, NEW size \in Sizes, NEW transfer \in Transfers,
         createOrder(creator, provider, receiver, size, transfer)
  PROVE  Recorded' /\ Book!Open(receiver, size)
<1>. DEFINE L     == Len(actionChain)
            t     == Takeover(receiver)
            a     == ActionOf(receiver, providers[provider].minDeposit, size)
            id    == NewOrderId(t)
            freed == IF isReceiverBusy[receiver] = Book!NoId THEN <<>> ELSE <<receiver>>
<1>1. TypeOK /\ TypeOK'
  BY CreateOrderType DEF BookInv, LifeInv, BooksInv
<1>2. /\ id \in Nat /\ id > L
      /\ actions = 1..L /\ actions' = 1..id
      /\ \A j \in actions : actionChain'[j] = actionChain[j]
      /\ actionChain'[id] = a
  BY <1>1, CreateOrderChain
<1>3. L \in Nat
  BY <1>1, ActionsType
<1>4. /\ actionChain' = (actionChain \o t) \o <<a>>
      /\ isReceiverBusy' = [isReceiverBusy EXCEPT ![receiver] = id]
      /\ now' = now /\ stateHash' = stateHash
      /\ isReceiverBusy[receiver] # NoId => IsExpired(isReceiverBusy[receiver])
  BY DEF createOrder
<1>5. orders' = [orders EXCEPT ![id] =
       [timestamp |-> unixToTron(now), creator |-> creator,
        provider |-> provider, receiver |-> receiver, size |-> size,
        rate |-> providers[provider].rate,
        minDeposit |-> providers[provider].minDeposit,
        collateral |-> core.requiredCollateral,
        isFulfilled |-> FALSE, transfer |-> transfer]]
  BY DEF createOrder
<1>6. actionChain \in Seq(Action) /\ a \in Action
  <2>1. providers[provider] \in Provider /\ unixToTron(now) \in Nat
    BY <1>1, CoreAssumption DEF TypeOK, unixToTron
  <2>2. a \in Action
    BY <2>1, CoreAssumption DEF ActionOf, Action, Provider
  <2>3. QED
    BY <1>1, <2>2 DEF TypeOK
<1>7. t \in Seq(Action) /\ Len(freed) = Len(t) /\ Book!Closures(freed) = Shown(t)
  BY <1>1, SameTakeover
<1>8. EntryOf(a) = Book!Tell(receiver, size)
  BY DEF EntryOf, ActionOf, Book!Tell
<1>9. a = [timestamp |-> unixToTron(now), receiver |-> receiver,
           minDeposit |-> providers[provider].minDeposit, size |-> size]
  BY DEF ActionOf
<1>10. id = L + Len(freed) + 1
  <2>. HIDE DEF freed, t
  <2>1. id = L + Len(t) + 1
    BY DEF NewOrderId
  <2>2. QED
    BY <1>7, <2>1
<1>11. id \in OrderIds /\ id \in actions' /\ id \notin actions
       /\ actions \subseteq actions' /\ actions \subseteq OrderIds
  <2>. HIDE DEF id, L
  <2>1. actionChain' \in Seq(Action) /\ Len(actionChain') <= MaxActions
    BY <1>1 DEF TypeOK
  <2>2. actions' \subseteq OrderIds
    BY <2>1, CoreAssumption DEF actions, OrderIds
  <2>3. QED
    BY <1>2, <1>3, <2>2
<1>12. Shown(actionChain') =
         Append(Shown(actionChain) \o Book!Closures(freed), Book!Tell(receiver, size))
  <2>. HIDE DEF t, a, freed
  <2>1. Shown((actionChain \o t) \o <<a>>)
          = Append(Shown(actionChain) \o Shown(t), EntryOf(a))
    BY <1>6, <1>7, ShownCreation
  <2>2. QED
    BY <1>4, <1>7, <1>8, <2>1
<1>. HIDE DEF freed, t, a, L
<1>13. /\ \A i \in OrderIds : i = id => Status(i)' = "open"
       /\ \A i \in OrderIds : i # id => orders'[i] = orders[i]
       /\ orders'[id].timestamp = unixToTron(now) /\ orders'[id].receiver = receiver
       /\ orders'[id].minDeposit = providers[provider].minDeposit
       /\ orders'[id].size = size
  <2>. HIDE DEF id
  <2>1. orders \in [OrderIds -> Order]
    BY <1>1 DEF TypeOK
  <2>2. orders'[id] = [timestamp |-> unixToTron(now), creator |-> creator,
        provider |-> provider, receiver |-> receiver, size |-> size,
        rate |-> providers[provider].rate,
        minDeposit |-> providers[provider].minDeposit,
        collateral |-> core.requiredCollateral,
        isFulfilled |-> FALSE, transfer |-> transfer]
    BY <1>5, <1>11, <2>1
  <2>3. creator # ZeroAddress
    BY CoreAssumption DEF Accounts
  <2>4. \A i \in OrderIds : i = id => Status(i)' = "open"
    BY <2>2, <2>3 DEF Status, IsOpen, IsStored
  <2>5. \A i \in OrderIds : i # id => orders'[i] = orders[i]
    BY <1>5, <2>1
  <2>6. QED
    BY <2>2, <2>4, <2>5
<1>. HIDE DEF id
<1>14. isReceiverBusy[receiver] # NoId => Book!IsExpired(isReceiverBusy[receiver])
  BY <1>4, SameAge
<1>15. [i \in OrderIds |-> Status(i)]' = [[i \in OrderIds |-> Status(i)] EXCEPT ![id] = "open"]
  <2>1. \A i \in OrderIds : Status(i)' = IF i = id THEN "open" ELSE Status(i)
    BY <1>13, KeptStatus
  <2>2. QED
    BY <2>1
<1>16. Book!Open(receiver, size)
  <2>1. id \in Book!Ids
    BY <1>11 DEF Book!Ids, OrderIds
  <2>2. id = Len(Shown(actionChain)) + Len(freed) + 1
    BY <1>6, <1>10, ShownType DEF L
  <2>3. QED
    BY <1>4, <1>12, <1>14, <1>15, <2>1, <2>2
       DEF Book!Open, Shown, EntryOf, actions, freed, NoId, Book!NoId, Book!Ids, OrderIds
<1>17. Recorded'
  <2>. SUFFICES ASSUME NEW i \in actions', IsOpen(i)'
                PROVE  actionChain'[i] = [timestamp  |-> orders'[i].timestamp,
                                          receiver   |-> orders'[i].receiver,
                                          minDeposit |-> orders'[i].minDeposit,
                                          size       |-> orders'[i].size]
    BY DEF Recorded
  <2>1. CASE i = id
    BY <1>2, <1>9, <1>13, <2>1
  <2>2. CASE i # id
    <3>1. i \in OrderIds
      <4>1. actionChain' \in Seq(Action) /\ Len(actionChain') <= MaxActions
        BY <1>1 DEF TypeOK
      <4>2. QED
        BY <4>1, CoreAssumption DEF actions, OrderIds
    <3>2. orders'[i] = orders[i]
      BY <1>13, <2>2, <3>1
    <3>3. IsOpen(i)
      BY <3>2 DEF IsOpen, IsStored
    <3>4. i \in actions
      BY <3>1, <3>3, StatusOfIds
    <3>5. actionChain[i] = [timestamp  |-> orders[i].timestamp,
                            receiver   |-> orders[i].receiver,
                            minDeposit |-> orders[i].minDeposit,
                            size       |-> orders[i].size]
      BY <3>3, <3>4 DEF BookInv, Recorded
    <3>6. QED
      BY <1>2, <3>2, <3>4, <3>5
  <2>3. QED
    BY <2>1, <2>2
<1>18. QED
  BY <1>16, <1>17

\* The book does not tell a change of transfer, nor does the chain.
LEMMA ChangeOrderBook ==
  ASSUME BookInv, NEW sender \in Creators \cup Fulfillers, NEW id \in actions,
         NEW transfer \in Transfers, changeOrder(sender, id, transfer)
  PROVE  Recorded' /\ UNCHANGED Book!vars
<1>1. TypeOK /\ TypeOK' /\ id \in OrderIds
  BY ChangeOrderType, ActionsType DEF BookInv, LifeInv, BooksInv
<1>2. /\ orders' = [orders EXCEPT ![id].transfer = transfer]
      /\ now' = now /\ stateHash' = stateHash
      /\ actionChain' = actionChain /\ isReceiverBusy' = isReceiverBusy
  BY DEF changeOrder
<1>3. \A i \in OrderIds :
        orders'[i] = orders[i] \/ \E t : orders'[i] = [orders[i] EXCEPT !.transfer = t]
  BY <1>1, <1>2 DEF TypeOK
<1>4. Recorded'
  <2>1. actions \subseteq actions' /\ \A j \in actions : actionChain'[j] = actionChain[j]
    BY <1>2 DEF actions
  <2>2. QED
    BY <1>1, <1>3, <2>1, RecordsKept
<1>5. ASSUME NEW i \in OrderIds PROVE Status(i)' = Status(i)
  <2>1. orders[i] \in Order
    BY <1>1 DEF TypeOK
  <2>2. orders'[i].creator = orders[i].creator /\ orders'[i].isFulfilled = orders[i].isFulfilled
    BY <1>3, <2>1 DEF Order
  <2>3. QED
    BY <2>2 DEF Status, IsOpen, IsStored
<1>6. UNCHANGED Book!vars
  BY <1>2, <1>5 DEF Book!vars, actions
<1>7. QED
  BY <1>4, <1>6

\* The owner's patch of the chain is a step Patch of the book.
LEMMA UpdateActionChainBook ==
  ASSUME BookInv, NEW receiver \in EmergencyReceivers, NEW size \in Sizes,
         updateActionChain(receiver, 0, size)
  PROVE  Recorded' /\ Book!Patch(receiver, size)
<1>. DEFINE a == ActionOf(receiver, 0, size)
<1>1. TypeOK /\ TypeOK'
  BY UpdateActionChainType DEF BookInv, LifeInv, BooksInv
<1>2. /\ actionChain' = Append(actionChain, a)
      /\ orders' = orders /\ isReceiverBusy' = isReceiverBusy
      /\ now' = now /\ stateHash' = stateHash
  BY DEF updateActionChain
<1>3. actionChain \in Seq(Action) /\ a \in Action /\ <<>> \in Seq(Action)
  BY <1>1, CoreAssumption DEF TypeOK, ActionOf, Action, unixToTron
<1>4. EntryOf(a) = Book!Tell(receiver, size)
  BY DEF EntryOf, ActionOf, Book!Tell
<1>. HIDE DEF a
<1>5. actionChain' = (actionChain \o <<>>) \o <<a>>
  BY <1>2, <1>3, AppendIsConcat, ConcatEmptySeq
<1>6. Shown(actionChain') = Append(Shown(actionChain), Book!Tell(receiver, size))
  <2>1. Shown((actionChain \o <<>>) \o <<a>>) =
          Append(Shown(actionChain) \o Shown(<<>>), EntryOf(a))
    BY <1>3, ShownCreation
  <2>2. Shown(<<>>) = <<>>
    BY DEF Shown
  <2>3. Shown(actionChain) \in Seq(Entry)
    BY <1>3, ShownType
  <2>4. Shown(actionChain) \o <<>> = Shown(actionChain)
    BY <2>3, ConcatEmptySeq
  <2>5. QED
    BY <1>4, <1>5, <2>1, <2>2, <2>4
<1>7. \A i \in OrderIds : Status(i)' = Status(i)
  BY <1>2, KeptStatus
<1>8. Book!Patch(receiver, size)
  BY <1>2, <1>6, <1>7 DEF Book!Patch, Shown, EntryOf, actions
<1>9. Recorded'
  <2>1. actions \subseteq actions' /\ \A j \in actions : actionChain'[j] = actionChain[j]
    BY <1>2, <1>3 DEF actions
  <2>2. QED
    BY <1>1, <1>2, <2>1, RecordsKept
<1>10. QED
  BY <1>8, <1>9

\* Settings are none of the book's business; time is.
LEMMA AdministrationBook ==
  ASSUME BookInv, Administration
  PROVE  Recorded' /\ (Book!Pass \/ UNCHANGED Book!vars)
<1>1. TypeOK /\ TypeOK'
  BY AdministrationType DEF BookInv, LifeInv, BooksInv
<1>2. orders' = orders /\ isReceiverBusy' = isReceiverBusy /\ actionChain' = actionChain
  BY AdministrationBooks DEF books
<1>3. \A i \in OrderIds : Status(i)' = Status(i)
  BY <1>2, KeptStatus
<1>4. stateHash' = stateHash /\ (now' = now \/ now' = now + 1)
  BY DEF Administration, setCoreVariables, setFeesVariables, SetPaused, Tick, vars
<1>5. ASSUME now' = now PROVE UNCHANGED Book!vars
  BY <1>2, <1>3, <1>4, <1>5 DEF Book!vars, actions
<1>6. ASSUME now' = now + 1 PROVE Book!Pass
  <2>1. unixToTron(now') > unixToTron(now)
    <3>1. now \in Nat /\ TRON_SECOND \in Nat \ {0}
      BY <1>1, CoreAssumption DEF TypeOK
    <3>2. (now + 1) * TRON_SECOND = now * TRON_SECOND + TRON_SECOND
      BY <3>1
    <3>3. now * TRON_SECOND \in Nat
      BY <3>1
    <3>4. QED
      BY <1>6, <3>1, <3>2, <3>3 DEF unixToTron
  <2>2. Book!Pass
    BY <1>2, <1>3, <1>4, <2>1 DEF Book!Pass, actions, unixToTron
  <2>3. QED
    BY <2>2
<1>7. Recorded'
  <2>1. actions \subseteq actions' /\ \A j \in actions : actionChain'[j] = actionChain[j]
    BY <1>2 DEF actions
  <2>2. QED
    BY <1>1, <1>2, <2>1, RecordsKept
<1>8. QED
  BY <1>4, <1>5, <1>6, <1>7 

-----------------------------------------------------------------------------
(***************************************************************************)
(* The refinement.                                                         *)
(***************************************************************************)
\* The contract starts as an empty book.
LEMMA InitBook == Init => BookInv /\ Book!Init
<1>. SUFFICES ASSUME Init PROVE BookInv /\ Book!Init
  OBVIOUS
<1>1. LifeInv
  BY InitLife
<1>2. actions = {} /\ actionChain = <<>> /\ \A id \in OrderIds : orders[id] = NoOrder
  BY DEF Init, actions
<1>3. BookInv
  BY <1>1, <1>2 DEF BookInv, Recorded
<1>4. \A id \in OrderIds : Status(id) = "none"
  BY <1>2 DEF Status, IsOpen, IsStored, NoOrder
<1>5. Shown(actionChain) = <<>>
  BY <1>2 DEF Shown
<1>6. isReceiverBusy = [r \in Receivers \cup {ZeroAddress} |-> NoId]
  BY DEF Init
<1>7. Book!Init
  BY <1>4, <1>5, <1>6, ShownBook DEF Book!Init, Book!Ids, Book!NoId, NoId, OrderIds
<1>8. QED
  BY <1>3, <1>7

\* Every transaction is a step of the book or none.
LEMMA NextBook == BookInv /\ [Next]_vars => BookInv' /\ [Book!Next]_(Book!vars)
<1>. SUFFICES ASSUME BookInv, [Next]_vars
              PROVE  BookInv' /\ (Book!Next \/ UNCHANGED Book!vars)
  OBVIOUS
<1>1. LifeInv'
  BY NextLife DEF BookInv
<1>2. IdLists = Book!Lists(DOMAIN Shown(actionChain)) /\ DOMAIN Shown(actionChain) = actions
  BY SameLists, ShownBook
<1>3. CASE CreatorNext
  <2>1. PICK creator \in Creators, provider \in Providers \cup {ZeroAddress},
             receiver \in Receivers, size \in Sizes, transfer \in Transfers :
          createOrder(creator, provider, receiver, size, transfer)
    BY <1>3 DEF CreatorNext
  <2>2. Recorded' /\ Book!Open(receiver, size)
    BY <2>1, CreateOrderBook
  <2>3. Book!Next
    BY <2>2 DEF Book!Next
  <2>4. QED
    BY <1>1, <2>2, <2>3 DEF BookInv
<1>4. CASE HolderNext
  <2>1. PICK sender \in Creators \cup Fulfillers, id \in actions :
          \/ \E transfer \in Transfers : changeOrder(sender, id, transfer)
          \/ stopOrder(sender, id)
    BY <1>4 DEF HolderNext
  <2>2. CASE stopOrder(sender, id)
    <3>1. Recorded' /\ Book!Stop(id)
      BY <2>2, StopOrderBook
    <3>2. Book!Next
      BY <1>2, <3>1 DEF Book!Next, Shown, EntryOf
    <3>3. QED
      BY <1>1, <3>1, <3>2 DEF BookInv
  <2>3. CASE \E transfer \in Transfers : changeOrder(sender, id, transfer)
    BY <1>1, <2>3, ChangeOrderBook DEF BookInv
  <2>4. QED
    BY <2>1, <2>2, <2>3
<1>5. CASE FulfillerNext
  <2>1. PICK sender \in Fulfillers, ids \in IdLists, total \in Totals, bonus \in Bonuses :
          fulfill(sender, ids, total, bonus)
    BY <1>5 DEF FulfillerNext
  <2>2. Recorded' /\ Book!Fulfill(ids)
    BY <2>1, FulfillBook
  <2>3. Book!Next
    BY <1>2, <2>2 DEF Book!Next, Shown, EntryOf, actions
  <2>4. QED
    BY <1>1, <2>2, <2>3 DEF BookInv
<1>6. CASE RelayerNext
  <2>1. PICK oldHash \in StateHashes, newHash \in StateHashes,
             latest \in {Len(actionChain)}, ids \in IdLists, bonus \in Bonuses :
          \E inflow \in [DOMAIN ids -> Inflows] :
            closeOrders(oldHash, newHash, latest, ids, inflow, bonus)
    BY <1>6 DEF RelayerNext
  <2>2. PICK inflow \in [DOMAIN ids -> Inflows] :
          closeOrders(oldHash, newHash, latest, ids, inflow, bonus)
    BY <2>1
  <2>3. Recorded' /\ Book!Close(stateHash, stateHash', ids)
    BY <2>2, CloseOrdersBook
  <2>4. Book!Next
    BY <1>2, <2>3 DEF Book!Next, Shown, EntryOf, actions
  <2>5. QED
    BY <1>1, <2>3, <2>4 DEF BookInv
<1>7. CASE ProviderNext
  <2>1. PICK sender \in Providers, liquidity \in Liquidities, terms \in Terms,
             receivers \in ReceiverLists : setProvider(sender, liquidity, terms, receivers)
    BY <1>7 DEF ProviderNext
  <2>2. Recorded' /\ \E list \in Book!Lists(Receivers) : Book!Release(list)
    BY <2>1, SetProviderBook
  <2>3. Book!Next
    BY <2>2 DEF Book!Next
  <2>4. QED
    BY <1>1, <2>2, <2>3 DEF BookInv
<1>8. CASE Administration
  BY <1>1, <1>8, AdministrationBook DEF BookInv, Book!Next
<1>9. CASE \E receiver \in EmergencyReceivers, size \in Sizes :
             updateActionChain(receiver, 0, size)
  <2>1. PICK receiver \in EmergencyReceivers, size \in Sizes :
          updateActionChain(receiver, 0, size)
    BY <1>9
  <2>2. Recorded' /\ Book!Patch(receiver, size)
    BY <2>1, UpdateActionChainBook
  <2>3. Book!Next
    BY <2>2, CoreAssumption DEF Book!Next
  <2>4. QED
    BY <1>1, <2>2, <2>3 DEF BookInv
<1>10. QED
  BY <1>3, <1>4, <1>5, <1>6, <1>7, <1>8, <1>9 DEF Next, OwnerNext, Administration

\* What the contract stores of an open order is what the chain says of it, so
\* that who reads one of the two needs not ask the other.
THEOREM OrdersAreRecorded == Spec => []Recorded
<1>1. BookInv => Recorded
  BY DEF BookInv
<1>2. QED
  BY <1>1, InitBook, NextBook, PTL DEF Spec

\* The contract implements the order book: money, terms, settings and the many
\* ways to call it are invisible to those who see the chain and the receivers.
THEOREM ContractIsABook == Spec => ImplementsBook
BY InitBook, NextBook, PTL DEF Spec, ImplementsBook, Book!Spec
=============================================================================
