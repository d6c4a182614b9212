------------------------- MODULE UntronSystemProofs -------------------------
(***************************************************************************)
(* Proofs about the contract, the program and its provers together, for    *)
(* every value of the constants.  However provers race, crash and repeat   *)
(* themselves, what the contract is told stays true: every state that a    *)
(* prover may start from keeps a ledger of its own and holds final blocks. *)
(***************************************************************************)
EXTENDS UntronSystem, UntronPaymentProofs

(***************************************************************************)
(* The order book.                                                         *)
(***************************************************************************)

\* The types of what the order book keeps.
BookTyped ==
  /\ status \in [Ids -> {"none", "open", "fulfilled"}]
  /\ busy \in [Addresses -> {NoId} \cup Ids]

\* A receiver is held by an open order that asked for it.
HoldersAreOpen ==
  \A r \in Addresses : busy[r] # NoId =>
    /\ busy[r] \in DOMAIN chain /\ status[busy[r]] = "open"
    /\ chain[busy[r]].address = r

BookInv == BookTyped /\ HoldersAreOpen

\* The positions on the chain are IDs.
LEMMA ChainType ==
  ASSUME EnvTyped
  PROVE  /\ chain \in Seq(Action) /\ Len(chain) \in Nat /\ DOMAIN chain = 1..Len(chain)
         /\ DOMAIN chain \subseteq Ids
         /\ \A i \in DOMAIN chain : chain[i] \in Action
<1>1. chain \in Seq(Action) /\ Len(chain) \in Nat /\ DOMAIN chain = 1..Len(chain)
  BY LenProperties DEF EnvTyped
<1>2. Len(chain) <= MaxActions /\ MaxActions \in Nat
  BY ProgramAssumption DEF EnvTyped
<1>3. DOMAIN chain \subseteq Ids
  BY <1>1, <1>2 DEF Ids
<1>4. \A i \in DOMAIN chain : chain[i] \in Action
  BY <1>1, ElementOfSeq
<1>5. QED
  BY <1>1, <1>3, <1>4

\* Closures are actions, told now.
LEMMA ClosuresType ==
  ASSUME NEW addresses \in Seq(Addresses), now \in Nat
  PROVE  /\ Book!Closures(addresses) \in Seq(Action)
         /\ Len(Book!Closures(addresses)) = Len(addresses)
         /\ \A i \in 1..Len(addresses) : Book!Closures(addresses)[i].timestamp = now
<1>. DEFINE n == Len(addresses)
            c == [i \in 1..n |-> [timestamp |-> now, address |-> addresses[i], size |-> 0]]
<1>1. n \in Nat /\ DOMAIN addresses = 1..n /\ \A i \in 1..n : addresses[i] \in Addresses
  BY LenProperties, ElementOfSeq
<1>2. Book!Closures(addresses) = c
  BY <1>1 DEF Book!Closures, Book!Tell
<1>3. \A i \in 1..n : c[i] \in Action /\ c[i].timestamp = now
  BY <1>1 DEF Action
<1>4. c \in [1..n -> Action]
  BY <1>3
<1>. HIDE DEF c, n
<1>5. c \in Seq(Action) /\ Len(c) = n
  BY <1>1, <1>4
<1>6. QED
  BY <1>2, <1>3, <1>5 DEF n

\* An element after two sequences is an element after the second one.
LEMMA AppendOfConcat ==
  ASSUME NEW s \in Seq(Action), NEW t \in Seq(Action), NEW e \in Action
  PROVE  Append(s \o t, e) = s \o Append(t, e)
<1>. DEFINE u == s \o t
            a == Append(u, e)
            v == Append(t, e)
            b == s \o v
            m == Len(s)
            n == Len(t)
<1>1. m \in Nat /\ n \in Nat
  BY LenProperties
<1>2. /\ u \in Seq(Action) /\ Len(u) = m + n
      /\ \A i \in 1..m + n : u[i] = IF i <= m THEN s[i] ELSE t[i - m]
  BY ConcatProperties
<1>3. v \in Seq(Action) /\ Len(v) = n + 1 /\ v[n + 1] = e /\ \A i \in 1..n : v[i] = t[i]
  BY AppendProperties
<1>. HIDE DEF u, v
<1>4. a \in Seq(Action) /\ Len(a) = Len(u) + 1 /\ a[Len(u) + 1] = e
      /\ \A i \in 1..Len(u) : a[i] = u[i]
  <2>1. u \in Seq(Action) /\ e \in Action
    BY <1>2
  <2>2. QED
    BY <2>1, AppendProperties
<1>5. /\ b \in Seq(Action) /\ Len(b) = m + Len(v)
      /\ \A i \in 1..m + Len(v) : b[i] = IF i <= m THEN s[i] ELSE v[i - m]
  BY <1>3, ConcatProperties
<1>. HIDE DEF a, b, m, n
<1>6. Len(a) = m + n + 1 /\ Len(b) = m + n + 1
  BY <1>1, <1>2, <1>3, <1>4, <1>5
<1>7. ASSUME NEW i \in 1..m + n + 1 PROVE a[i] = b[i]
  <2>1. CASE i <= m
    <3>1. i \in 1..m + n /\ i \in 1..m + Len(v)
      BY <1>1, <1>3, <2>1
    <3>2. QED
      BY <1>2, <1>4, <1>5, <2>1, <3>1
  <2>2. CASE ~(i <= m) /\ i <= m + n
    <3>1. i \in 1..m + n /\ i - m \in 1..n /\ i \in 1..m + Len(v)
      BY <1>1, <1>3, <2>2
    <3>2. a[i] = t[i - m]
      BY <1>2, <1>4, <2>2, <3>1
    <3>3. b[i] = v[i - m]
      BY <1>5, <2>2, <3>1
    <3>4. QED
      BY <1>3, <3>1, <3>2, <3>3
  <2>3. CASE i = m + n + 1
    <3>1. i = Len(u) + 1 /\ i \in 1..m + Len(v) /\ ~(i <= m) /\ i - m = n + 1
      BY <1>1, <1>2, <1>3, <2>3
    <3>2. a[i] = e
      BY <1>4, <3>1
    <3>3. b[i] = v[i - m]
      BY <1>5, <3>1
    <3>4. QED
      BY <1>3, <3>1, <3>2, <3>3
  <2>4. QED
    BY <1>1, <2>1, <2>2, <2>3
<1>8. a = b
  BY <1>4, <1>5, <1>6, <1>7, SeqEqual
<1>9. QED
  BY <1>8 DEF a, b, u, v

\* A chain that actions of now are put on grows.
LEMMA ToldIsGrowth ==
  ASSUME EnvTyped, NEW told \in Seq(Action), chain' = chain \o told, now' = now,
         \A i \in 1..Len(told) : told[i].timestamp = now
  PROVE  /\ ChainGrows /\ chain' \in Seq(Action) /\ Len(chain') = Len(chain) + Len(told)
         /\ \A i \in 1..Len(told) : chain'[Len(chain) + i] = told[i]
<1>. DEFINE m == Len(chain)
            n == Len(told)
            all == chain \o told
<1>1. chain \in Seq(Action) /\ m \in Nat /\ DOMAIN chain = 1..m /\ n \in Nat
  BY ChainType, LenProperties
<1>2. /\ all \in Seq(Action) /\ Len(all) = m + n
      /\ \A i \in 1..m + n : all[i] = IF i <= m THEN chain[i] ELSE told[i - m]
  BY <1>1, ConcatProperties
<1>3. DOMAIN all = 1..m + n
  BY <1>2, LenProperties
<1>4. now \in Nat
  BY ProgramAssumption DEF EnvTyped
<1>5. chain' = all
  OBVIOUS
<1>. HIDE DEF all
<1>6. \A i \in 1..m : all[i] = chain[i]
  BY <1>1, <1>2
<1>7. ASSUME NEW i \in 1..n PROVE all[m + i] = told[i]
  <2>1. m + i \in 1..m + n /\ ~(m + i <= m) /\ (m + i) - m = i
    BY <1>1
  <2>2. QED
    BY <1>2, <2>1
<1>8. ASSUME NEW i \in DOMAIN all, i \notin DOMAIN chain
      PROVE  all[i].timestamp = now /\ \A j \in DOMAIN chain : j < i
  <2>1. i \in m + 1..m + n
    BY <1>1, <1>3, <1>8
  <2>2. i - m \in 1..n /\ m + (i - m) = i /\ \A j \in 1..m : j < i
    BY <1>1, <2>1
  <2>3. all[i] = told[i - m]
    BY <1>7, <2>2
  <2>4. QED
    BY <1>1, <2>2, <2>3
<1>9. DOMAIN chain \subseteq DOMAIN all /\ m <= m + n
  BY <1>1, <1>3
<1>. HIDE DEF m, n
<1>10. ChainGrows
  BY <1>1, <1>2, <1>4, <1>5, <1>6, <1>8, <1>9 DEF ChainGrows, m
<1>11. QED
  BY <1>2, <1>5, <1>7, <1>10 DEF m, n

\* Orders end, and the receivers of those that were open are free.
LEMMA OrdersEnd ==
  ASSUME EnvTyped, BookInv, NEW addresses \in Seq(Addresses), NEW ids,
         NEW as \in {"none", "fulfilled"},
         Book!Free(addresses), Book!Settle(ids, as), now' = now,
         \A id \in DOMAIN chain : Book!IsOneOf(id, ids) /\ status[id] = "open"
           => Book!IsOneOf(chain[id].address, addresses)
  PROVE  /\ ChainGrows /\ chain' \in Seq(Action) /\ BookInv'
         /\ \A id \in Ids : status'[id] = "open" => status[id] = "open"
         /\ \A id \in Ids : Book!IsOneOf(id, ids) => status'[id] # "open"
<1>1. ChainGrows /\ chain' \in Seq(Action)
  <2>. DEFINE told == Book!Closures(addresses)
  <2>1. told \in Seq(Action) /\ \A i \in 1..Len(told) : told[i].timestamp = now
    <3>1. now \in Nat
      BY ProgramAssumption DEF EnvTyped
    <3>2. QED
      BY <3>1, ClosuresType
  <2>2. chain' = chain \o told
    BY DEF Book!Free
  <2>. HIDE DEF told
  <2>3. QED
    BY <2>1, <2>2, ToldIsGrowth
<1>2. /\ status \in [Ids -> {"none", "open", "fulfilled"}]
      /\ busy \in [Addresses -> {NoId} \cup Ids]
  BY DEF BookInv, BookTyped
<1>3. status' = [id \in Ids |-> IF Book!IsOneOf(id, ids) THEN as ELSE status[id]]
  BY DEF Book!Settle, Book!Ids, Ids
<1>4. busy' = [r \in Addresses |-> IF Book!IsOneOf(r, addresses) THEN NoId ELSE busy[r]]
  BY <1>2 DEF Book!Free, Book!NoId, NoId
<1>5. BookTyped'
  BY <1>2, <1>3, <1>4 DEF BookTyped
<1>6. ASSUME NEW r \in Addresses, busy'[r] # NoId
      PROVE  /\ busy'[r] \in DOMAIN chain' /\ status'[busy'[r]] = "open"
             /\ chain'[busy'[r]].address = r
  <2>1. ~Book!IsOneOf(r, addresses) /\ busy'[r] = busy[r]
    BY <1>4, <1>6
  <2>. DEFINE id == busy[r]
  <2>2. id \in DOMAIN chain /\ status[id] = "open" /\ chain[id].address = r
    BY <1>6, <2>1 DEF BookInv, HoldersAreOpen
  <2>3. id \in Ids
    BY <2>2, ChainType
  <2>4. ~Book!IsOneOf(id, ids)
    BY <2>1, <2>2
  <2>5. status'[id] = "open"
    BY <1>3, <2>2, <2>3, <2>4
  <2>6. id \in DOMAIN chain' /\ chain'[id].address = r
    BY <1>1, <2>2 DEF ChainGrows
  <2>7. QED
    BY <2>1, <2>5, <2>6
<1>7. QED
  BY <1>1, <1>3, <1>5, <1>6 DEF BookInv, HoldersAreOpen

\* The receivers that ending orders frees are addresses, those of the open ones
\* among them.
LEMMA ReceiversType ==
  ASSUME EnvTyped, BookInv, NEW n \in Nat, NEW ids \in [1..n -> DOMAIN chain]
  PROVE  /\ Book!ReceiversOf(ids) \in Seq(Addresses)
         /\ \A id \in DOMAIN chain : Book!IsOneOf(id, ids) /\ status[id] = "open"
              => Book!IsOneOf(chain[id].address, Book!ReceiversOf(ids))
<1>. DEFINE receivers == Book!ReceiversOf(ids)
<1>1. DOMAIN ids = 1..n /\ \A i \in 1..n : ids[i] \in DOMAIN chain
  OBVIOUS
<1>2. receivers = [i \in 1..n |-> IF status[ids[i]] = "open" THEN chain[ids[i]].address
                                  ELSE ZeroAddress]
  BY <1>1 DEF Book!ReceiversOf, Book!ReceiverOf
<1>3. \A i \in 1..n : chain[ids[i]].address \in Addresses
  BY <1>1, ChainType DEF Action
<1>4. receivers \in [1..n -> Addresses]
  BY <1>2, <1>3, SystemAssumption
<1>5. receivers \in Seq(Addresses)
  <2>. HIDE DEF receivers
  <2>. QED
    BY <1>4
<1>6. ASSUME NEW id \in DOMAIN chain, Book!IsOneOf(id, ids), status[id] = "open"
      PROVE  Book!IsOneOf(chain[id].address, receivers)
  <2>1. PICK i \in 1..n : ids[i] = id
    BY <1>1, <1>6 DEF Book!IsOneOf
  <2>2. receivers[i] = chain[id].address /\ i \in DOMAIN receivers
    BY <1>2, <1>6, <2>1
  <2>3. QED
    BY <2>2 DEF Book!IsOneOf
<1>7. QED
  BY <1>5, <1>6

\* What a step of the contract keeps: the chain grows, the book stays in line, and
\* of the orders that were already there none opens again.
BookStep ==
  /\ ChainGrows /\ chain' \in Seq(Action) /\ BookInv'
  /\ \A id \in DOMAIN chain : status'[id] = "open" => status[id] = "open"

\* An order that is opened is the last action on the chain.
LEMMA OpenBook ==
  ASSUME EnvTyped, BookInv, NEW receiver \in Addresses, NEW size \in Nat,
         Book!Open(receiver, size)
  PROVE  BookStep
<1>. DEFINE freed == IF busy[receiver] = NoId THEN <<>> ELSE <<receiver>>
            closures == Book!Closures(freed)
            action == [timestamp |-> now, address |-> receiver, size |-> size]
            told == Append(closures, action)
            id == Len(chain) + Len(freed) + 1
<1>1. now \in Nat
  BY ProgramAssumption DEF EnvTyped
<1>2. freed \in Seq(Addresses)
  OBVIOUS
<1>3. /\ closures \in Seq(Action) /\ Len(closures) = Len(freed)
      /\ \A i \in 1..Len(freed) : closures[i].timestamp = now
  <2>. HIDE DEF freed
  <2>. QED
    BY <1>1, <1>2, ClosuresType
<1>4. action \in Action /\ action.timestamp = now /\ action.address = receiver
  BY <1>1 DEF Action
<1>5. chain' = Append(chain \o closures, action)
  BY DEF Book!Open, Book!Tell, Book!NoId, NoId
<1>6. /\ id \in Ids /\ now' = now
      /\ busy' = [busy EXCEPT ![receiver] = id] /\ status' = [status EXCEPT ![id] = "open"]
  BY DEF Book!Open, Book!NoId, NoId, Book!Ids, Ids
<1>. DEFINE n == Len(closures)
<1>7. n \in Nat /\ id = Len(chain) + n + 1
  BY <1>3, LenProperties
<1>. HIDE DEF closures, action, freed, id
<1>8. told \in Seq(Action) /\ Len(told) = n + 1 /\ told[n + 1] = action
      /\ \A i \in 1..n : told[i] = closures[i]
  BY <1>3, <1>4, AppendProperties
<1>9. \A i \in 1..n + 1 : told[i].timestamp = now
  <2>. HIDE DEF told
  <2>1. \A i \in 1..n : told[i].timestamp = now
    BY <1>3, <1>8
  <2>2. told[n + 1].timestamp = now
    BY <1>4, <1>8
  <2>. HIDE DEF n
  <2>3. QED
    BY <1>7, <2>1, <2>2
<1>10. chain' = chain \o told
  <2>1. PICK c, t, e, all, rest :
          /\ c = chain /\ t = closures /\ e = action
          /\ all = Append(c \o t, e) /\ rest = Append(t, e)
    OBVIOUS
  <2>2. c \in Seq(Action) /\ t \in Seq(Action) /\ e \in Action
    BY <1>3, <1>4, <2>1, ChainType
  <2>3. all = c \o rest
    BY <2>1, <2>2, AppendOfConcat
  <2>4. QED
    BY <1>5, <2>1, <2>3
<1>. HIDE DEF told
<1>11. /\ ChainGrows /\ chain' \in Seq(Action) /\ Len(chain') = Len(chain) + Len(told)
       /\ \A i \in 1..Len(told) : chain'[Len(chain) + i] = told[i]
  BY <1>6, <1>8, <1>9, <1>10, ToldIsGrowth
<1>. HIDE DEF n
<1>12. id \in DOMAIN chain' /\ chain'[id] = action /\ id \notin DOMAIN chain
  <2>1. Len(chain) \in Nat /\ DOMAIN chain = 1..Len(chain)
    BY ChainType
  <2>2. DOMAIN chain' = 1..Len(chain')
    BY <1>11, LenProperties
  <2>3. Len(chain') = id /\ id = Len(chain) + (n + 1) /\ n + 1 \in 1..n + 1
    BY <1>7, <1>8, <1>11, <2>1
  <2>4. chain'[id] = told[n + 1]
    BY <1>8, <1>11, <2>3
  <2>5. id \in 1..id /\ id \notin 1..Len(chain)
    BY <1>7, <2>1, <2>3
  <2>6. QED
    BY <1>8, <2>1, <2>2, <2>3, <2>4, <2>5
<1>13. /\ status \in [Ids -> {"none", "open", "fulfilled"}]
       /\ busy \in [Addresses -> {NoId} \cup Ids]
  BY DEF BookInv, BookTyped
<1>14. BookTyped'
  BY <1>6, <1>13 DEF BookTyped
<1>15. ASSUME NEW r \in Addresses, busy'[r] # NoId
       PROVE  /\ busy'[r] \in DOMAIN chain' /\ status'[busy'[r]] = "open"
              /\ chain'[busy'[r]].address = r
  <2>1. CASE r = receiver
    BY <1>4, <1>6, <1>12, <1>13, <2>1
  <2>2. CASE r # receiver
    <3>1. busy'[r] = busy[r]
      BY <1>6, <1>13, <2>2
    <3>2. busy[r] \in DOMAIN chain /\ status[busy[r]] = "open" /\ chain[busy[r]].address = r
      BY <1>15, <3>1 DEF BookInv, HoldersAreOpen
    <3>3. busy[r] \in Ids
      BY <3>2, ChainType
    <3>4. status'[busy[r]] = "open"
      BY <1>6, <1>13, <3>2, <3>3
    <3>5. QED
      BY <1>11, <3>1, <3>2, <3>4 DEF ChainGrows
  <2>3. QED
    BY <2>1, <2>2
<1>16. \A i \in DOMAIN chain : status'[i] = "open" => status[i] = "open"
  <2>1. \A i \in DOMAIN chain : i \in Ids /\ i # id
    BY <1>12, ChainType
  <2>2. QED
    BY <1>6, <1>13, <2>1
<1>17. QED
  BY <1>11, <1>14, <1>15, <1>16 DEF BookStep, BookInv, HoldersAreOpen

\* The IDs that a user lists are those of the chain.
LEMMA ListType ==
  ASSUME EnvTyped, NEW ids \in Book!Lists(DOMAIN chain)
  PROVE  \E n \in Nat : ids \in [1..n -> DOMAIN chain]
BY SystemAssumption DEF Book!Lists

\* An order that is stopped ends.
LEMMA StopBook ==
  ASSUME EnvTyped, BookInv, NEW id \in DOMAIN chain, Book!Stop(id)
  PROVE  BookStep
<1>1. PICK ids, n : ids = <<id>> /\ n = 1
  OBVIOUS
<1>2. ids \in [1..n -> DOMAIN chain] /\ n \in Nat
  BY <1>1
<1>3. PICK receivers : receivers = Book!ReceiversOf(ids)
  OBVIOUS
<1>4. receivers = <<Book!ReceiverOf(id)>>
  BY <1>1, <1>3 DEF Book!ReceiversOf
<1>5. Book!Free(receivers) /\ Book!Settle(ids, "none") /\ now' = now
  BY <1>1, <1>4 DEF Book!Stop
<1>6. /\ receivers \in Seq(Addresses)
      /\ \A i \in DOMAIN chain : Book!IsOneOf(i, ids) /\ status[i] = "open"
           => Book!IsOneOf(chain[i].address, receivers)
  BY <1>2, <1>3, ReceiversType
<1>7. /\ ChainGrows /\ chain' \in Seq(Action) /\ BookInv'
      /\ \A i \in Ids : status'[i] = "open" => status[i] = "open"
  BY <1>5, <1>6, OrdersEnd
<1>8. QED
  BY <1>7, ChainType DEF BookStep

\* Orders that are fulfilled end.
LEMMA FulfillBook ==
  ASSUME EnvTyped, BookInv, NEW ids \in Book!Lists(DOMAIN chain), Book!Fulfill(ids)
  PROVE  BookStep
<1>1. PICK n \in Nat : ids \in [1..n -> DOMAIN chain]
  BY ListType
<1>2. PICK receivers : receivers = Book!ReceiversOf(ids)
  OBVIOUS
<1>3. Book!Free(receivers) /\ Book!Settle(ids, "fulfilled") /\ now' = now
  BY <1>2 DEF Book!Fulfill
<1>4. /\ receivers \in Seq(Addresses)
      /\ \A i \in DOMAIN chain : Book!IsOneOf(i, ids) /\ status[i] = "open"
           => Book!IsOneOf(chain[i].address, receivers)
  BY <1>1, <1>2, ReceiversType
<1>5. /\ ChainGrows /\ chain' \in Seq(Action) /\ BookInv'
      /\ \A i \in Ids : status'[i] = "open" => status[i] = "open"
  BY <1>3, <1>4, OrdersEnd
<1>6. QED
  BY <1>5, ChainType DEF BookStep

\* A receiver is freed of an order that stays open.
LEMMA ReleaseBook ==
  ASSUME EnvTyped, BookInv, NEW receiver \in Addresses, Book!Release(<<receiver>>)
  PROVE  BookStep
<1>1. PICK receivers, ids : receivers = <<receiver>> /\ ids = <<>>
  OBVIOUS
<1>2. receivers \in Seq(Addresses)
  BY <1>1
<1>3. \A i : ~Book!IsOneOf(i, ids)
  BY <1>1 DEF Book!IsOneOf
<1>4. Book!Settle(ids, "none")
  <2>1. status' = status /\ status \in [Ids -> {"none", "open", "fulfilled"}]
    BY DEF Book!Release, BookInv, BookTyped
  <2>2. status' = [id \in Ids |-> status[id]]
    BY <2>1
  <2>3. QED
    BY <1>3, <2>2 DEF Book!Settle, Book!Ids, Ids
<1>5. Book!Free(receivers) /\ now' = now
  BY <1>1 DEF Book!Release
<1>6. /\ ChainGrows /\ chain' \in Seq(Action) /\ BookInv'
      /\ \A i \in Ids : status'[i] = "open" => status[i] = "open"
  BY <1>2, <1>3, <1>4, <1>5, OrdersEnd
<1>7. QED
  BY <1>6, ChainType DEF BookStep

\* An action that the owner adds touches no order.
LEMMA PatchBook ==
  ASSUME EnvTyped, BookInv, NEW receiver \in Addresses, NEW size \in Nat,
         Book!Patch(receiver, size)
  PROVE  BookStep
<1>1. PICK action : action = [timestamp |-> now, address |-> receiver, size |-> size]
  OBVIOUS
<1>2. now \in Nat
  BY ProgramAssumption DEF EnvTyped
<1>3. action \in Action /\ action.timestamp = now
  BY <1>1, <1>2 DEF Action
<1>4. /\ chain' = Append(chain, action) /\ now' = now
      /\ status' = status /\ busy' = busy
  BY <1>1 DEF Book!Patch, Book!Tell
<1>5. PICK told : told = <<action>>
  OBVIOUS
<1>6. told \in Seq(Action) /\ Len(told) = 1 /\ told[1] = action
  BY <1>3, <1>5
<1>7. chain' = chain \o told
  <2>1. chain \in Seq(Action)
    BY ChainType
  <2>2. Append(chain, action) = chain \o <<action>>
    BY <1>3, <2>1, AppendIsConcat
  <2>3. QED
    BY <1>4, <1>5, <2>2
<1>8. \A i \in 1..Len(told) : told[i].timestamp = now
  BY <1>3, <1>6
<1>9. ChainGrows /\ chain' \in Seq(Action)
  BY <1>4, <1>6, <1>7, <1>8, ToldIsGrowth
<1>10. BookTyped'
  BY <1>4 DEF BookInv, BookTyped
<1>11. HoldersAreOpen'
  <2>. SUFFICES ASSUME NEW r \in Addresses, busy[r] # NoId
                PROVE  /\ busy[r] \in DOMAIN chain' /\ status[busy[r]] = "open"
                       /\ chain'[busy[r]].address = r
    BY <1>4 DEF HoldersAreOpen
  <2>1. busy[r] \in DOMAIN chain /\ status[busy[r]] = "open" /\ chain[busy[r]].address = r
    BY DEF BookInv, HoldersAreOpen
  <2>2. QED
    BY <1>9, <2>1 DEF ChainGrows
<1>12. QED
  BY <1>4, <1>9, <1>10, <1>11 DEF BookStep, BookInv

\* Orders that a proof closes end, those that were fulfilled before included.
LEMMA CloseBook ==
  ASSUME EnvTyped, BookInv, NEW old, NEW new,
         NEW m \in Nat, NEW ids \in [1..m -> DOMAIN chain], Book!Close(old, new, ids)
  PROVE  /\ BookStep
         /\ \A id \in DOMAIN chain : Book!IsOneOf(id, ids) => status'[id] # "open"
<1>. DEFINE U == {i \in DOMAIN ids : ~Book!IsFulfilled(ids[i])}
<1>1. PICK s \in Book!InOrder(U) : Book!Free(Book!ReceiversOf([k \in DOMAIN s |-> ids[s[k]]]))
  BY DEF Book!Close
<1>2. PICK n : n = Cardinality(U)
  OBVIOUS
<1>3. n \in Nat
  <2>1. IsFiniteSet(1..m)
    BY FS_Interval
  <2>2. IsFiniteSet(U)
    BY <2>1, FS_Subset
  <2>3. QED
    BY <1>2, <2>2, FS_CardinalityType
<1>. HIDE DEF U
<1>4. s \in [1..n -> U] /\ \A x \in U : Book!IsOneOf(x, s)
  <2>1. s \in [1..Cardinality(U) -> U]
    <3>1. s \in [1..Book!Cardinality(U) -> U]
      BY <1>1 DEF Book!InOrder
    <3>2. QED
      BY <3>1 DEF Cardinality, Book!Cardinality
  <2>2. \A x \in U : Book!IsOneOf(x, s)
    BY <1>1 DEF Book!InOrder
  <2>3. QED
    BY <1>2, <2>1, <2>2
<1>5. PICK left : left = [k \in DOMAIN s |-> ids[s[k]]]
  OBVIOUS
<1>6. left \in [1..n -> DOMAIN chain]
  BY <1>4, <1>5 DEF U
<1>7. PICK receivers : receivers = Book!ReceiversOf(left)
  OBVIOUS
<1>8. Book!Free(receivers) /\ Book!Settle(ids, "none") /\ now' = now
  BY <1>1, <1>5, <1>7 DEF Book!Close
<1>9. /\ receivers \in Seq(Addresses)
      /\ \A i \in DOMAIN chain : Book!IsOneOf(i, left) /\ status[i] = "open"
           => Book!IsOneOf(chain[i].address, receivers)
  BY <1>3, <1>6, <1>7, ReceiversType
<1>10. ASSUME NEW id \in DOMAIN chain, Book!IsOneOf(id, ids), status[id] = "open"
       PROVE  Book!IsOneOf(id, left)
  <2>1. PICK i \in DOMAIN ids : ids[i] = id
    BY <1>10 DEF Book!IsOneOf
  <2>2. i \in U
    BY <1>10, <2>1 DEF Book!IsFulfilled, U
  <2>3. PICK k \in DOMAIN s : s[k] = i
    BY <1>4, <2>2 DEF Book!IsOneOf
  <2>4. k \in DOMAIN left /\ left[k] = id
    BY <1>5, <2>1, <2>3
  <2>5. QED
    BY <2>4 DEF Book!IsOneOf
<1>11. \A id \in DOMAIN chain : Book!IsOneOf(id, ids) /\ status[id] = "open"
         => Book!IsOneOf(chain[id].address, receivers)
  BY <1>9, <1>10
<1>12. /\ ChainGrows /\ chain' \in Seq(Action) /\ BookInv'
       /\ \A id \in Ids : status'[id] = "open" => status[id] = "open"
       /\ \A id \in Ids : Book!IsOneOf(id, ids) => status'[id] # "open"
  BY <1>8, <1>9, <1>11, OrdersEnd
<1>13. QED
  BY <1>12, ChainType DEF BookStep

(***************************************************************************)
(* The contract, its book and the provers.                                 *)
(***************************************************************************)

\* A state that a prover may start from: in line with the chain of actions and
\* with Tron.
Good(s) == IsState(s) /\ Ledger(s) /\ UpToDate(s) /\ Final(s) /\ NoneTwice(s)

\* A proof leads from one such state to a later one.
GoodProof(proof) ==
  /\ Good(proof.old) /\ Good(proof.new) /\ proof.closed \in Reports
  /\ Settles(proof.old, proof.new, proof.closed)
  /\ Len(proof.old.latest) < Len(proof.new.latest)

\* When no run is under way the next one starts from the state of the contract.
AtRest ==
  pc = "idle" => state = proven /\ work = proven /\ active = NoneActive /\ closed = <<>>

\* Orders that the contract was told of are not open.
ToldAreOver == \A i \in DOMAIN reported : status[reported[i].id] # "open"

SystemInv ==
  /\ TypeInv /\ ChainInOrder /\ KeptByTron /\ BookInv
  /\ Good(proven) /\ Good(state)
  /\ \A proof \in proofs : GoodProof(proof)
  /\ OnRecord(proven, reported) /\ ToldAreOver
  /\ RunLedger /\ RunFinality /\ AtRest

\* A good state stays one when the chain of actions grows and Tron keeps its blocks.
LEMMA GoodStays ==
  ASSUME TypeInv, TypeInv', ChainGrows, NEW s, Good(s), Final(s)'
  PROVE  Good(s)'
<1>1. now' \in Nat /\ chain' \in Seq(Action)
  BY ProgramAssumption DEF TypeInv, EnvTyped
<1>2. IsState(s) /\ Ledger(s) /\ UpToDate(s) /\ NoneTwice(s)
  BY DEF Good
<1>3. Ledger(s)' /\ UpToDate(s)'
  BY <1>1, <1>2, GrowthKeepsLedgers
<1>4. QED
  BY <1>2, <1>3 DEF Good, NoneTwice

\* So does a good proof.
LEMMA GoodProofStays ==
  ASSUME TypeInv, TypeInv', ChainGrows, NEW proof, GoodProof(proof),
         \A s : IsState(s) /\ Final(s) => Final(s)'
  PROVE  GoodProof(proof)'
<1>1. PICK old, new : old = proof.old /\ new = proof.new
  OBVIOUS
<1>2. Good(old) /\ Good(new)
  BY <1>1 DEF GoodProof
<1>3. Final(old)' /\ Final(new)'
  BY <1>2 DEF Good
<1>4. Good(old)' /\ Good(new)'
  BY <1>2, <1>3, GoodStays
<1>5. Good(proof.old)' /\ Good(proof.new)'
  BY <1>1, <1>4 DEF Good, Ledger, UpToDate, Final, NoneTwice, PendingInOrder, Behind
<1>6. QED
  BY <1>5 DEF GoodProof, Settles, MayReport, Behind

\* A run that has not begun is in order.
LEMMA RestIsGood ==
  ASSUME NEW s, Good(s)', state' = s, work' = s, active' = NoneActive, closed' = <<>>,
         pc' = "idle"
  PROVE  Good(state)' /\ RunLedger' /\ RunFinality'
<1>1. IsState(s) /\ Ledger(s)' /\ UpToDate(s)' /\ Final(s)' /\ NoneTwice(s)
  BY DEF Good, NoneTwice
<1>2. Good(state)'
  BY <1>1 DEF Good, Ledger, UpToDate, Final, NoneTwice, PendingInOrder, Behind
<1>3. Ledger(work)'
  BY <1>1 DEF Ledger, PendingInOrder, Behind
<1>4. Behind(s) \in Int
  <2>1. s.pending \in Seq(Ids) /\ s.action_chain \in Int
    BY <1>1, ProgramAssumption DEF IsState
  <2>2. CASE s.pending = <<>>
    BY <2>1, <2>2 DEF Behind
  <2>3. CASE s.pending # <<>>
    <3>1. Head(s.pending) \in Ids
      BY <2>1, <2>3
    <3>2. Head(s.pending) - 1 \in Int
      BY <3>1, ProgramAssumption DEF Ids
    <3>3. QED
      BY <2>3, <3>2 DEF Behind
  <2>4. QED
    BY <2>2, <2>3
<1>5. Settles(s, s, <<>>)
  BY <1>4 DEF Settles, MayReport
<1>6. Settles(state, work, closed)'
  BY <1>5 DEF Settles, MayReport, Behind
<1>7. RunLedger'
  BY <1>3, <1>6 DEF RunLedger, Listens, NoneActive
<1>8. RunFinality'
  BY <1>1 DEF RunFinality, NoneTwice
<1>9. QED
  BY <1>2, <1>7, <1>8

\* The IDs of what the contract was told are on the chain.
LEMMA ToldIds ==
  ASSUME TypeInv, NEW s, IsState(s), Ledger(s), OnRecord(s, reported)
  PROVE  \A i \in DOMAIN reported : reported[i].id \in DOMAIN chain /\ reported[i].id \in Ids
<1>1. Behind(s) \in Nat /\ s.action_chain \in Nat /\ Behind(s) <= s.action_chain
  BY BehindType
<1>2. s.action_chain <= Len(chain)
  BY DEF Ledger
<1>3. Len(chain) \in Nat /\ DOMAIN chain = 1..Len(chain)
  BY ChainType DEF TypeInv
<1>4. ASSUME NEW i \in DOMAIN reported
      PROVE  reported[i].id \in DOMAIN chain /\ reported[i].id \in Ids
  <2>1. reported[i] \in [id : Ids, inflow : Nat]
    <3>1. reported \in Seq([id : Ids, inflow : Nat])
      BY DEF TypeInv, Reports
    <3>2. QED
      BY <3>1, ElementOfSeq, LenProperties
  <2>2. reported[i].id \in Ids /\ reported[i].id <= Behind(s)
    BY <2>1 DEF OnRecord
  <2>3. QED
    BY <1>1, <1>2, <1>3, <2>2 DEF Ids
<1>5. QED
  BY <1>4

\* A call of the contract, and time: the chain grows, no run is under way.
LEMMA OutsideKeeps ==
  ASSUME SystemInv, pc = "idle", ChainGrows, chain' \in Seq(Action), BookInv',
         now' \in 0..MaxTime, Len(chain') <= MaxActions,
         UNCHANGED <<tron, solid, pc, active, closed, blocks, txs, proofs>>,
         NEW s, Good(s), proven' = s, state' = s, work' = s,
         reported' \in Reports, OnRecord(s, reported'), ToldAreOver'
  PROVE  SystemInv'
<1>1. TypeInv /\ AtRest /\ ChainInOrder /\ KeptByTron
  BY DEF SystemInv
<1>2. active = NoneActive /\ closed = <<>>
  BY <1>1 DEF AtRest
<1>3. TypeInv'
  <2>1. IsState(s)
    BY DEF Good
  <2>2. EnvTyped'
    BY <1>1 DEF TypeInv, EnvTyped
  <2>3. RunTyped'
    BY <1>1, <2>1 DEF TypeInv, RunTyped
  <2>4. QED
    BY <2>1, <2>2, <2>3 DEF TypeInv
<1>4. now' \in Nat
  BY ProgramAssumption
<1>5. ChainInOrder'
  BY <1>1, <1>4, ChainStaysInOrder
<1>6. KeptByTron'
  BY <1>1 DEF KeptByTron
<1>7. \A t : IsState(t) /\ Final(t) => Final(t)'
  BY DEF Final
<1>8. Good(s)'
  <2>1. Final(s)'
    BY <1>7 DEF Good
  <2>2. QED
    BY <1>1, <1>3, <2>1, GoodStays
<1>9. \A proof \in proofs' : GoodProof(proof)'
  <2>. SUFFICES ASSUME NEW proof \in proofs PROVE GoodProof(proof)'
    OBVIOUS
  <2>1. GoodProof(proof)
    BY DEF SystemInv
  <2>2. QED
    BY <1>1, <1>3, <1>7, <2>1, GoodProofStays
<1>10. active' = NoneActive /\ closed' = <<>> /\ pc' = "idle"
  BY <1>2
<1>11. Good(state)' /\ RunLedger' /\ RunFinality'
  BY <1>8, <1>10, RestIsGood
<1>12. Good(proven)'
  BY <1>11 DEF Good, Ledger, UpToDate, Final, NoneTwice, PendingInOrder, Behind
<1>13. OnRecord(proven, reported)'
  BY DEF OnRecord, Behind
<1>14. AtRest'
  BY <1>10 DEF AtRest
<1>15. QED
  BY <1>3, <1>5, <1>6, <1>9, <1>11, <1>12, <1>13, <1>14 DEF SystemInv

\* A call by a user keeps the system in order.
LEMMA UserKeeps ==
  ASSUME SystemInv, BookStep, UNCHANGED <<now, proven, reported>>, Call(TRUE)
  PROVE  SystemInv'
<1>1. TypeInv /\ Good(proven) /\ OnRecord(proven, reported) /\ ToldAreOver
  BY DEF SystemInv
<1>2. PICK s : s = proven
  OBVIOUS
<1>3. Good(s) /\ OnRecord(s, reported) /\ IsState(s) /\ Ledger(s)
  BY <1>1, <1>2 DEF Good
<1>4. proven' = s /\ state' = s /\ work' = s /\ pc = "idle" /\ Len(chain') <= MaxActions
      /\ UNCHANGED <<tron, solid, pc, active, closed, blocks, txs, proofs>>
  BY <1>2 DEF Call
<1>5. ToldAreOver'
  <2>1. \A i \in DOMAIN reported : reported[i].id \in DOMAIN chain
    BY <1>1, <1>3, ToldIds
  <2>2. QED
    BY <1>1, <2>1 DEF BookStep, ToldAreOver
<1>6. now' \in 0..MaxTime /\ reported' \in Reports /\ OnRecord(s, reported')
  BY <1>1, <1>3 DEF TypeInv, EnvTyped
<1>7. ChainGrows /\ chain' \in Seq(Action) /\ BookInv'
  BY DEF BookStep
<1>8. QED
  BY <1>3, <1>4, <1>5, <1>6, <1>7, OutsideKeeps

\* A call by a user is a step of the book, and tells the contract nothing.
LEMMA UsersStep ==
  ASSUME SystemInv, Users
  PROVE  BookStep /\ UNCHANGED <<now, proven, reported>> /\ Call(TRUE)
<1>1. EnvTyped /\ BookInv
  BY DEF SystemInv, TypeInv
<1>2. ASSUME NEW receiver \in Addresses \ {ZeroAddress}, NEW size \in Sizes,
             Call(Book!Open(receiver, size))
      PROVE  BookStep /\ UNCHANGED <<now, proven>> /\ Call(TRUE)
  <2>1. Book!Open(receiver, size) /\ Call(TRUE) /\ size \in Nat /\ receiver \in Addresses
    BY <1>2, ProgramAssumption DEF Call
  <2>2. UNCHANGED <<now, proven>>
    BY <2>1 DEF Book!Open
  <2>3. QED
    BY <1>1, <2>1, <2>2, OpenBook
<1>3. ASSUME NEW id \in DOMAIN chain, Call(Book!Stop(id))
      PROVE  BookStep /\ UNCHANGED <<now, proven>> /\ Call(TRUE)
  <2>1. Book!Stop(id) /\ Call(TRUE)
    BY <1>3 DEF Call
  <2>2. UNCHANGED <<now, proven>>
    BY <2>1 DEF Book!Stop
  <2>3. QED
    BY <1>1, <2>1, <2>2, StopBook
<1>4. ASSUME NEW ids \in Book!Lists(DOMAIN chain), Call(Book!Fulfill(ids))
      PROVE  BookStep /\ UNCHANGED <<now, proven>> /\ Call(TRUE)
  <2>1. Book!Fulfill(ids) /\ Call(TRUE)
    BY <1>4 DEF Call
  <2>2. UNCHANGED <<now, proven>>
    BY <2>1 DEF Book!Fulfill
  <2>3. QED
    BY <1>1, <2>1, <2>2, FulfillBook
<1>5. ASSUME NEW receiver \in Addresses \ {ZeroAddress}, Call(Book!Release(<<receiver>>))
      PROVE  BookStep /\ UNCHANGED <<now, proven>> /\ Call(TRUE)
  <2>1. Book!Release(<<receiver>>) /\ Call(TRUE)
    BY <1>5 DEF Call
  <2>2. UNCHANGED <<now, proven>>
    BY <2>1 DEF Book!Release
  <2>3. QED
    BY <1>1, <2>1, <2>2, ReleaseBook
<1>6. ASSUME NEW receiver \in Patched, NEW size \in Sizes, Call(Book!Patch(receiver, size))
      PROVE  BookStep /\ UNCHANGED <<now, proven>> /\ Call(TRUE)
  <2>1. Book!Patch(receiver, size) /\ Call(TRUE) /\ size \in Nat /\ receiver \in Addresses
    BY <1>6, ProgramAssumption, SystemAssumption DEF Call
  <2>2. UNCHANGED <<now, proven>>
    BY <2>1 DEF Book!Patch
  <2>3. QED
    BY <1>1, <2>1, <2>2, PatchBook
<1>7. QED
  BY <1>2, <1>3, <1>4, <1>5, <1>6 DEF Users, Creators, Fulfillers, Providers, Owner

\* Users keep the system in order.
LEMMA UsersKeep ==
  ASSUME SystemInv, Users
  PROVE  SystemInv'
BY UsersStep, UserKeeps

\* Time does.
LEMMA TimeKeeps ==
  ASSUME SystemInv, PassTime
  PROVE  SystemInv'
<1>1. TypeInv /\ Good(proven) /\ OnRecord(proven, reported) /\ ToldAreOver /\ BookInv /\ AtRest
  BY DEF SystemInv
<1>2. PICK s : s = proven
  OBVIOUS
<1>3. Good(s) /\ OnRecord(s, reported)
  BY <1>1, <1>2
<1>4. /\ pc = "idle" /\ now' = now + 1 /\ now < MaxTime
      /\ UNCHANGED <<chain, tron, solid, pc, active, closed, blocks, txs, proofs>>
      /\ UNCHANGED <<status, busy, reported>>
      /\ proven' = s /\ state' = s /\ work' = s
  BY <1>1, <1>2 DEF PassTime, run, book, AtRest
<1>5. now \in Nat /\ now' \in 0..MaxTime
  BY <1>1, <1>4, ProgramAssumption DEF TypeInv, EnvTyped
<1>6. chain' \in Seq(Action) /\ Len(chain') <= MaxActions
  BY <1>1, <1>4 DEF TypeInv, EnvTyped
<1>7. ChainGrows
  <2>1. Len(chain) \in Nat
    BY <1>1, ChainType DEF TypeInv
  <2>2. QED
    BY <1>4, <1>5, <2>1 DEF ChainGrows
<1>8. BookInv' /\ ToldAreOver'
  BY <1>1, <1>4 DEF BookInv, BookTyped, HoldersAreOpen, ToldAreOver
<1>9. reported' \in Reports /\ OnRecord(s, reported')
  BY <1>1, <1>3, <1>4 DEF TypeInv
<1>10. QED
  BY <1>3, <1>4, <1>5, <1>6, <1>7, <1>8, <1>9, OutsideKeeps

\* Tron does, also when it takes blocks back.
LEMMA TronKeeps ==
  ASSUME SystemInv, Tron
  PROVE  SystemInv'
<1>1. TypeInv /\ Good(proven) /\ OnRecord(proven, reported) /\ ToldAreOver /\ BookInv /\ AtRest
      /\ KeptByTron /\ ChainInOrder
  BY DEF SystemInv
<1>2. Environment /\ UNCHANGED <<state, reported, run>>
      /\ UNCHANGED <<status, busy, proven, proofs>>
      /\ pc = "idle"
  BY DEF Tron, Environment, ProduceBlock, Reorganize, book
<1>3. TypeInv' /\ KeptByTron' /\ \A s : IsState(s) /\ Final(s) => Final(s)'
  <2>1. ASSUME NEW producer \in Producers, NEW list \in TxLists, ProduceBlock(producer, list)
        PROVE  TypeInv' /\ KeptByTron' /\ \A s : IsState(s) /\ Final(s) => Final(s)'
    <3>1. TypeInv'
      BY <1>1, <2>1, ProduceTyped
    <3>2. QED
      BY <1>1, <2>1, <3>1, ProduceFinality
  <2>2. ASSUME NEW n \in 0..MaxBlocks, Reorganize(n)
        PROVE  TypeInv' /\ KeptByTron' /\ \A s : IsState(s) /\ Final(s) => Final(s)'
    <3>1. n \in Nat
      BY ProgramAssumption
    <3>2. TypeInv'
      BY <1>1, <2>2, <3>1, ReorganizeTyped
    <3>3. QED
      BY <1>1, <2>2, <3>1, <3>2, ReorganizeFinality
  <2>3. QED
    BY <2>1, <2>2 DEF Tron
<1>4. ChainGrows /\ now' \in Nat /\ chain' \in Seq(Action)
  BY <1>1, <1>2, <1>3, EnvironmentGrows
<1>5. ChainInOrder'
  BY <1>1, <1>4, ChainStaysInOrder
<1>6. chain' = chain
  BY DEF Tron, ProduceBlock, Reorganize
<1>7. BookInv' /\ ToldAreOver'
  BY <1>1, <1>2, <1>6 DEF BookInv, BookTyped, HoldersAreOpen, ToldAreOver
<1>8. PICK s : s = proven
  OBVIOUS
<1>9. Good(s)'
  <2>1. Good(s) /\ Final(s)'
    BY <1>1, <1>3, <1>8 DEF Good
  <2>2. QED
    BY <1>1, <1>3, <1>4, <2>1, GoodStays
<1>10. state' = s /\ work' = s /\ proven' = s /\ active' = NoneActive /\ closed' = <<>>
       /\ pc' = "idle"
  BY <1>1, <1>2, <1>8 DEF AtRest, run
<1>11. Good(state)' /\ RunLedger' /\ RunFinality'
  BY <1>9, <1>10, RestIsGood
<1>12. Good(proven)'
  BY <1>10, <1>11 DEF Good, Ledger, UpToDate, Final, NoneTwice, PendingInOrder, Behind
<1>13. \A proof \in proofs' : GoodProof(proof)'
  <2>. SUFFICES ASSUME NEW proof \in proofs PROVE GoodProof(proof)'
    BY <1>2
  <2>1. GoodProof(proof)
    BY DEF SystemInv
  <2>2. QED
    BY <1>1, <1>3, <1>4, <2>1, GoodProofStays
<1>14. OnRecord(proven, reported)'
  BY <1>1, <1>2 DEF OnRecord, Behind
<1>15. AtRest'
  BY <1>10 DEF AtRest
<1>16. QED
  BY <1>3, <1>5, <1>7, <1>11, <1>12, <1>13, <1>14, <1>15 DEF SystemInv

\* The IDs that a proof closes are on the chain.
LEMMA ProofIds ==
  ASSUME TypeInv, NEW proof, GoodProof(proof)
  PROVE  /\ Len(proof.closed) \in Nat
         /\ IdsOf(proof.closed) \in [1..Len(proof.closed) -> DOMAIN chain]
<1>1. PICK old, new, reports, ids :
        /\ old = proof.old /\ new = proof.new /\ reports = proof.closed
        /\ ids = IdsOf(reports)
  OBVIOUS
<1>2. IsState(old) /\ Ledger(old) /\ IsState(new) /\ Ledger(new)
      /\ reports \in Reports /\ Settles(old, new, reports)
  BY <1>1 DEF GoodProof, Good
<1>3. DOMAIN reports = 1..Len(reports) /\ Len(reports) \in Nat
      /\ \A i \in DOMAIN reports : reports[i].id \in Ids
  <2>1. reports \in Seq([id : Ids, inflow : Nat])
    BY <1>2 DEF Reports
  <2>2. \A i \in DOMAIN reports : reports[i] \in [id : Ids, inflow : Nat]
    BY <2>1, ElementOfSeq, LenProperties
  <2>3. QED
    BY <2>1, <2>2, LenProperties
<1>4. Behind(old) \in Nat /\ Behind(new) \in Nat
      /\ new.action_chain \in Nat /\ Behind(new) <= new.action_chain
  BY <1>2, BehindType
<1>5. Len(chain) \in Nat /\ DOMAIN chain = 1..Len(chain)
  BY ChainType DEF TypeInv
<1>6. new.action_chain <= Len(chain) /\ Behind(old) <= Behind(new)
  BY <1>2 DEF Ledger, Settles
<1>7. \A id \in DOMAIN old.orders : id <= Behind(old)
  BY <1>2 DEF Ledger
<1>8. ASSUME NEW i \in DOMAIN reports PROVE reports[i].id \in DOMAIN chain
  <2>1. reports[i].id \in DOMAIN old.orders \cup Behind(old) + 1..Behind(new)
    BY <1>2 DEF Settles, MayReport
  <2>2. reports[i].id \in Ids /\ reports[i].id \in Nat /\ reports[i].id >= 1
    BY <1>3, ProgramAssumption DEF Ids
  <2>3. reports[i].id <= Behind(new)
    BY <1>4, <1>6, <1>7, <2>1, <2>2
  <2>4. QED
    BY <1>4, <1>5, <1>6, <2>2, <2>3
<1>9. ids \in [1..Len(reports) -> DOMAIN chain]
  BY <1>1, <1>3, <1>8 DEF IdsOf
<1>10. QED
  BY <1>1, <1>3, <1>9

\* What is true of the reports of two lists is true of the list of both.
LEMMA OverInBoth ==
  ASSUME NEW recorded \in Reports, NEW reports \in Reports, NEW all, all = recorded \o reports,
         NEW over, \A i \in DOMAIN recorded : recorded[i].id \in over,
         \A i \in DOMAIN reports : reports[i].id \in over
  PROVE  all \in Reports /\ \A i \in DOMAIN all : all[i].id \in over
<1>. DEFINE m == Len(recorded)
            n == Len(reports)
<1>1. /\ recorded \in Seq([id : Ids, inflow : Nat]) /\ reports \in Seq([id : Ids, inflow : Nat])
      /\ m \in Nat /\ n \in Nat /\ DOMAIN recorded = 1..m /\ DOMAIN reports = 1..n
  BY LenProperties DEF Reports
<1>2. /\ all \in Seq([id : Ids, inflow : Nat]) /\ Len(all) = m + n
      /\ \A i \in 1..m + n : all[i] = IF i <= m THEN recorded[i] ELSE reports[i - m]
  BY <1>1, ConcatProperties
<1>3. DOMAIN all = 1..m + n
  BY <1>2, LenProperties
<1>. HIDE DEF m, n
<1>4. ASSUME NEW i \in 1..m + n PROVE all[i].id \in over
  <2>1. CASE i <= m
    <3>1. i \in DOMAIN recorded /\ all[i] = recorded[i]
      BY <1>1, <1>2, <2>1
    <3>2. QED
      BY <3>1
  <2>2. CASE ~(i <= m)
    <3>1. i - m \in DOMAIN reports /\ all[i] = reports[i - m]
      BY <1>1, <1>2, <2>2
    <3>2. QED
      BY <3>1
  <2>3. QED
    BY <2>1, <2>2
<1>5. QED
  BY <1>2, <1>3, <1>4 DEF Reports

\* A proof that the contract accepts leads it to a later state.
LEMMA AcceptKeeps ==
  ASSUME SystemInv, NEW proof \in proofs, Accept(proof)
  PROVE  SystemInv' /\ Len(proven'.latest) > Len(proven.latest)
<1>1. TypeInv /\ Good(proven) /\ OnRecord(proven, reported) /\ ToldAreOver /\ BookInv
      /\ GoodProof(proof) /\ EnvTyped
  BY DEF SystemInv, TypeInv
<1>2. PICK old, new, reports, ids, m :
        /\ old = proof.old /\ new = proof.new /\ reports = proof.closed
        /\ ids = IdsOf(reports) /\ m = Len(reports)
  OBVIOUS
<1>3. proven = old /\ reported' = reported \o reports /\ Call(Book!Close(proven, new, ids))
  BY <1>2 DEF Accept, StartsFromProven
<1>4. Book!Close(proven, new, ids) /\ pc = "idle" /\ Len(chain') <= MaxActions
      /\ UNCHANGED <<tron, solid, pc, active, closed, blocks, txs, proofs>>
      /\ state' = proven' /\ work' = proven'
  BY <1>3 DEF Call
<1>5. Book!Close(old, new, ids)
  BY <1>3, <1>4
<1>6. proven' = new /\ now' = now
  BY <1>4 DEF Book!Close
<1>7. m \in Nat /\ ids \in [1..m -> DOMAIN chain]
  BY <1>1, <1>2, ProofIds
<1>8. BookStep /\ \A id \in DOMAIN chain : Book!IsOneOf(id, ids) => status'[id] # "open"
  BY <1>1, <1>5, <1>7, CloseBook
<1>9. /\ Good(old) /\ Good(new) /\ Settles(old, new, reports) /\ reports \in Reports
      /\ Len(old.latest) < Len(new.latest)
  BY <1>1, <1>2 DEF GoodProof
<1>10. IsState(old) /\ Ledger(old) /\ IsState(new) /\ Ledger(new)
  BY <1>9 DEF Good
<1>11. OnRecord(old, reported) /\ reported \in Reports
  BY <1>1, <1>3 DEF TypeInv
<1>12. OnRecord(new, reported \o reports)
  BY <1>9, <1>10, <1>11, RecordGrows
<1>13. reported' \in Reports /\ ToldAreOver'
  <2>. DEFINE over == {id \in DOMAIN chain : status'[id] # "open"}
  <2>1. ASSUME NEW i \in DOMAIN reported PROVE reported[i].id \in over
    <3>1. reported[i].id \in DOMAIN chain
      BY <1>1, <1>10, <1>11, ToldIds
    <3>2. status[reported[i].id] # "open"
      BY <1>1 DEF ToldAreOver
    <3>3. QED
      BY <1>8, <3>1, <3>2 DEF BookStep
  <2>2. ASSUME NEW i \in DOMAIN reports PROVE reports[i].id \in over
    <3>1. i \in DOMAIN ids /\ ids[i] = reports[i].id
      BY <1>2 DEF IdsOf
    <3>2. ids[i] \in DOMAIN chain
      BY <1>7, <3>1
    <3>3. Book!IsOneOf(ids[i], ids)
      BY <3>1 DEF Book!IsOneOf
    <3>4. QED
      BY <1>8, <3>1, <3>2, <3>3
  <2>3. PICK all : all = reported \o reports
    OBVIOUS
  <2>4. PICK settled : settled = over
    OBVIOUS
  <2>5. all \in Reports /\ \A i \in DOMAIN all : all[i].id \in settled
    <3>1. \A i \in DOMAIN reported : reported[i].id \in settled
      BY <2>1, <2>4
    <3>2. \A i \in DOMAIN reports : reports[i].id \in settled
      BY <2>2, <2>4
    <3>3. QED
      BY <1>9, <1>11, <2>3, <3>1, <3>2, OverInBoth
  <2>6. QED
    BY <1>3, <2>3, <2>4, <2>5 DEF ToldAreOver
<1>14. now' \in 0..MaxTime
  BY <1>1, <1>6 DEF EnvTyped
<1>15. ChainGrows /\ chain' \in Seq(Action) /\ BookInv'
  BY <1>8 DEF BookStep
<1>16. state' = new /\ work' = new /\ OnRecord(new, reported')
  BY <1>3, <1>4, <1>6, <1>12
<1>17. SystemInv'
  BY <1>4, <1>6, <1>9, <1>13, <1>14, <1>15, <1>16, OutsideKeeps
<1>18. Len(proven'.latest) > Len(proven.latest)
  <2>1. Len(old.latest) \in Nat /\ Len(new.latest) \in Nat
    BY <1>10, LenProperties DEF IsState
  <2>2. QED
    BY <1>3, <1>6, <1>9, <2>1
<1>19. QED
  BY <1>17, <1>18

\* The states that provers start from are in order.
LEMMA StatesAreGood ==
  ASSUME SystemInv, NEW s \in States
  PROVE  Good(s)
BY DEF SystemInv, States, GoodProof

\* What is not the work of a prover stays in order while it works.
LEMMA OutsideStays ==
  ASSUME SystemInv, UNCHANGED <<env, reported, book>>
  PROVE  /\ ChainInOrder' /\ KeptByTron' /\ BookInv' /\ Good(proven)' /\ OnRecord(proven, reported)'
         /\ ToldAreOver' /\ EnvTyped' /\ (reported \in Reports)'
         /\ \A s : Good(s) => Good(s)'
         /\ \A proof : GoodProof(proof) => GoodProof(proof)'
<1>1. /\ TypeInv /\ ChainInOrder /\ KeptByTron /\ BookInv /\ Good(proven)
      /\ OnRecord(proven, reported) /\ ToldAreOver
  BY DEF SystemInv
<1>2. UNCHANGED <<now, chain, tron, solid>> /\ UNCHANGED <<status, busy, proven, reported>>
  BY DEF env, book
<1>3. ChainInOrder' /\ KeptByTron' /\ EnvTyped' /\ (reported \in Reports)'
  BY <1>1, <1>2 DEF ChainInOrder, KeptByTron, EnvTyped, TypeInv
<1>4. BookInv' /\ ToldAreOver' /\ OnRecord(proven, reported)'
  BY <1>1, <1>2 DEF BookInv, BookTyped, HoldersAreOpen, ToldAreOver, OnRecord, Behind
<1>5. \A s : Good(s) => Good(s)'
  BY <1>2 DEF Good, Ledger, UpToDate, Final, NoneTwice, PendingInOrder, Behind
<1>6. Good(proven)'
  BY <1>1, <1>2 DEF Good, Ledger, UpToDate, Final, NoneTwice, PendingInOrder, Behind
<1>7. \A proof : GoodProof(proof) => GoodProof(proof)'
  BY <1>5 DEF GoodProof, Settles, MayReport, Behind
<1>8. QED
  BY <1>3, <1>4, <1>5, <1>6, <1>7

\* A prover that begins keeps the system in order.
LEMMA StartKeeps ==
  ASSUME SystemInv, NEW base \in States, StartFrom(base)
  PROVE  SystemInv'
<1>1. PICK skipped, actionCount \in 0..MaxActions, blockCount \in 1..MaxBlocks :
        StartOn(base, skipped, actionCount, blockCount)
  BY DEF StartFrom
<1>2. /\ state' = base /\ UNCHANGED <<book, proofs>> /\ UNCHANGED <<env, reported>>
      /\ pc = "idle" /\ pc' = "verify"
  BY <1>1 DEF StartFrom, StartOn, Goto
<1>3. skipped \in Nat /\ actionCount \in Nat /\ blockCount \in Nat
  BY ProgramAssumption
<1>4. Good(base) /\ IsState(base) /\ Ledger(base) /\ UpToDate(base) /\ NoneTwice(base)
  BY StatesAreGood DEF Good
<1>5. TypeInv /\ active = NoneActive /\ closed = <<>>
  BY <1>2 DEF SystemInv, AtRest
<1>6. RunTyped'
  BY <1>1, <1>3, <1>4, <1>5, StartTyped
<1>7. RunLedger'
  BY <1>1, <1>2, <1>3, <1>4, <1>5, StartLedger
<1>8. RunFinality'
  BY <1>1, <1>2, <1>3, <1>4, <1>5, StartFinality
<1>9. /\ ChainInOrder' /\ KeptByTron' /\ BookInv' /\ Good(proven)' /\ OnRecord(proven, reported)'
      /\ ToldAreOver' /\ EnvTyped' /\ (reported \in Reports)'
      /\ \A s : Good(s) => Good(s)'
      /\ \A proof : GoodProof(proof) => GoodProof(proof)'
  BY <1>2, OutsideStays
<1>10. Good(base)'
  BY <1>4, <1>9
<1>11. Good(state)'
  BY <1>2, <1>10 DEF Good, Ledger, UpToDate, Final, NoneTwice, PendingInOrder, Behind
<1>12. TypeInv'
  BY <1>2, <1>4, <1>6, <1>9 DEF TypeInv
<1>13. \A proof \in proofs' : GoodProof(proof)'
  BY <1>2, <1>9 DEF SystemInv
<1>14. AtRest'
  BY <1>2 DEF AtRest
<1>15. QED
  BY <1>7, <1>8, <1>9, <1>11, <1>12, <1>13, <1>14 DEF SystemInv

\* A prover that goes on does.
LEMMA StepKeeps ==
  ASSUME SystemInv, Step
  PROVE  SystemInv'
<1>1. RunStep /\ UNCHANGED <<book, proofs>>
  BY DEF Step, RunStep
<1>2. UNCHANGED <<env, reported, state>> /\ pc' # "idle"
  BY <1>1 DEF RunStep, VerifyBlock, OpenOrder, CloseOrder, WalkThrough, IgnoreTx, CountTransfer,
         CountVote, FinishBlock, Goto
<1>3. TypeInv /\ ChainInOrder /\ Good(state) /\ RunLedger /\ RunFinality /\ Ledger(state)
  BY DEF SystemInv, Good
<1>4. TypeInv' /\ RunLedger' /\ RunFinality'
  BY <1>1, <1>3, StepTyped, StepLedger, StepFinality
<1>5. /\ ChainInOrder' /\ KeptByTron' /\ BookInv' /\ Good(proven)' /\ OnRecord(proven, reported)'
      /\ ToldAreOver' /\ EnvTyped' /\ (reported \in Reports)'
      /\ \A s : Good(s) => Good(s)'
      /\ \A proof : GoodProof(proof) => GoodProof(proof)'
  BY <1>1, <1>2, OutsideStays
<1>6. Good(state)'
  <2>1. PICK s : s = state
    OBVIOUS
  <2>2. Good(s)'
    BY <1>3, <1>5, <2>1
  <2>3. QED
    BY <1>2, <2>1, <2>2 DEF Good, Ledger, UpToDate, Final, NoneTwice, PendingInOrder, Behind
<1>7. \A proof \in proofs' : GoodProof(proof)'
  BY <1>1, <1>5 DEF SystemInv
<1>8. AtRest'
  BY <1>2 DEF AtRest
<1>9. QED
  BY <1>4, <1>5, <1>6, <1>7, <1>8 DEF SystemInv

\* A run that has come to its end is a good proof.
LEMMA EndIsGood ==
  ASSUME SystemInv, pc = "verify", blocks = <<>>, NEW proof,
         proof = [old |-> state, new |-> work, closed |-> closed]
  PROVE  GoodProof(proof)
<1>1. TypeInv /\ KeptByTron /\ RunFinality /\ RunLedger /\ Good(state)
  BY DEF SystemInv
<1>2. Final(work) /\ Len(state.latest) < Len(work.latest)
  BY <1>1, EndIsFinal
<1>3. Good(work)
  BY <1>1, <1>2 DEF Good, TypeInv, RunTyped, RunLedger, RunFinality
<1>4. closed \in Reports /\ Settles(state, work, closed)
  BY <1>1 DEF TypeInv, RunTyped, RunLedger
<1>5. proof.old = state /\ proof.new = work /\ proof.closed = closed
  OBVIOUS
<1>6. QED
  BY <1>1, <1>2, <1>3, <1>4, <1>5 DEF GoodProof

\* A prover that ends does, with a proof or without.
LEMMA FinishKeeps ==
  ASSUME SystemInv, Finish
  PROVE  SystemInv'
<1>1. state' = proven /\ Forget(proven) /\ UNCHANGED <<env, reported, book>>
  BY DEF Finish
<1>2. PICK s : s = proven
  OBVIOUS
<1>3. TypeInv /\ Good(s) /\ IsState(s)
  BY <1>2 DEF SystemInv, Good
<1>4. /\ ChainInOrder' /\ KeptByTron' /\ BookInv' /\ Good(proven)' /\ OnRecord(proven, reported)'
      /\ ToldAreOver' /\ EnvTyped' /\ (reported \in Reports)'
      /\ \A t : Good(t) => Good(t)'
      /\ \A proof : GoodProof(proof) => GoodProof(proof)'
  BY <1>1, OutsideStays
<1>5. RunTyped'
  BY <1>1, <1>2, <1>3, ForgetTyped
<1>6. TypeInv'
  BY <1>1, <1>2, <1>3, <1>4, <1>5 DEF TypeInv
<1>7. /\ state' = s /\ work' = s /\ proven' = s /\ active' = NoneActive /\ closed' = <<>>
      /\ pc' = "idle"
  BY <1>1, <1>2 DEF Forget, Goto, book
<1>8. Good(state)' /\ RunLedger' /\ RunFinality'
  BY <1>3, <1>4, <1>7, RestIsGood
<1>9. \A proof \in proofs : GoodProof(proof)
  BY DEF SystemInv
<1>10. \A proof \in proofs' : GoodProof(proof)'
  <2>1. CASE /\ pc = "verify" /\ blocks = <<>>
             /\ proofs' = proofs \cup {[old |-> state, new |-> work, closed |-> closed]}
    <3>1. PICK last : last = [old |-> state, new |-> work, closed |-> closed]
      OBVIOUS
    <3>2. GoodProof(last)
      BY <2>1, <3>1, EndIsGood
    <3>3. \A proof \in proofs' : GoodProof(proof)
      BY <1>9, <2>1, <3>1, <3>2
    <3>4. QED
      BY <1>4, <3>3
  <2>2. CASE UNCHANGED proofs
    BY <1>4, <1>9, <2>2
  <2>3. QED
    BY <2>1, <2>2 DEF Finish
<1>11. AtRest'
  BY <1>7 DEF AtRest
<1>12. QED
  BY <1>4, <1>6, <1>8, <1>10, <1>11 DEF SystemInv

\* The system starts in order.
LEMMA SystemStarts == SystemInit => SystemInv
<1>. SUFFICES ASSUME SystemInit PROVE SystemInv
  OBVIOUS
<1>1. TypeInv /\ LedgerInv /\ FinalityInv
  BY TypedInit, LedgerInit, FinalityInit DEF SystemInit
<1>2. proven = state /\ proofs = {} /\ reported = <<>> /\ Book!Init
  BY DEF SystemInit, Init
<1>3. Good(state)
  BY <1>1 DEF Good, TypeInv, LedgerInv, FinalityInv
<1>4. BookInv
  <2>1. status = [id \in Ids |-> "none"]
    BY <1>2 DEF Book!Init, Book!Ids, Ids
  <2>2. busy = [r \in Addresses |-> NoId]
    BY <1>2, SystemAssumption DEF Book!Init, Book!NoId, NoId
  <2>3. BookTyped
    BY <2>1, <2>2 DEF BookTyped
  <2>4. HoldersAreOpen
    BY <2>2 DEF HoldersAreOpen
  <2>5. QED
    BY <2>3, <2>4 DEF BookInv
<1>5. ToldAreOver
  BY <1>2 DEF ToldAreOver
<1>6. AtRest
  BY <1>1, <1>2 DEF AtRest, LedgerInv
<1>7. QED
  BY <1>1, <1>2, <1>3, <1>4, <1>5, <1>6 DEF SystemInv, LedgerInv, FinalityInv

\* Every step keeps the system in order.
LEMMA SystemKeeps ==
  ASSUME SystemInv, [SystemNext]_systemVars
  PROVE  SystemInv'
<1>1. CASE UNCHANGED systemVars
  <2>1. UNCHANGED <<now, chain, tron, solid, state, reported>>
        /\ UNCHANGED <<pc, work, active, closed, blocks, txs>>
        /\ UNCHANGED <<status, busy, proven, proofs>>
    BY <1>1 DEF systemVars, vars, env, run, book
  <2>2. TypeInv' /\ BookInv' /\ AtRest' /\ ToldAreOver'
    BY <2>1 DEF SystemInv, TypeInv, EnvTyped, RunTyped, BookInv, BookTyped, HoldersAreOpen, AtRest,
       ToldAreOver
  <2>3. RunLedger' /\ RunFinality'
    BY <2>1 DEF SystemInv, RunLedger, Ledger, Settles, Listens, UpToDate, MayReport, Behind,
       PendingInOrder, RunFinality, NoneTwice, RunBlocks, RunGrows, OnTop
  <2>4. UNCHANGED <<env, reported, book>>
    BY <1>1 DEF systemVars, vars
  <2>5. /\ ChainInOrder' /\ KeptByTron' /\ Good(proven)' /\ OnRecord(proven, reported)'
        /\ \A s : Good(s) => Good(s)'
        /\ \A proof : GoodProof(proof) => GoodProof(proof)'
    BY <2>4, OutsideStays
  <2>6. Good(state)'
    <3>1. PICK s : s = state
      OBVIOUS
    <3>2. Good(s)'
      BY <2>5, <3>1 DEF SystemInv
    <3>3. QED
      BY <2>1, <3>1, <3>2 DEF Good, Ledger, UpToDate, Final, NoneTwice, PendingInOrder, Behind
  <2>7. \A proof \in proofs' : GoodProof(proof)'
    BY <2>1, <2>5 DEF SystemInv
  <2>8. QED
    BY <2>2, <2>3, <2>5, <2>6, <2>7 DEF SystemInv
<1>2. QED
  BY <1>1, UsersKeep, TimeKeeps, TronKeeps, AcceptKeeps, StartKeeps, StepKeeps, FinishKeeps
     DEF SystemNext

\* The system is in order in every state.
LEMMA AlwaysInOrder == SystemSpec => []SystemInv
BY SystemStarts, SystemKeeps, PTL DEF SystemSpec

\* However provers race, crash and repeat themselves, the contract is told of no
\* order twice, and of none that its state still counts as open: of the proofs
\* that start from one state it accepts the first, and what a proof may close is
\* what was open in that state or came after it.
THEOREM EachToldOnce == SystemSpec => []ToldOnce
<1>1. SystemInv => ToldOnce
  BY DEF SystemInv, OnRecord, ToldOnce, AtContract!ClosedOnce
<1>2. QED
  BY <1>1, AlwaysInOrder, PTL

\* The contract accepts no block ahead of an action of its own that the block reaches
\* and the accepted state has not come to, also when the chain went on growing while
\* the proof was on its way, and were actions left out or not.
THEOREM AcceptedBlocksAreCovered == SystemSpec => []ProofsCoverBlocks
<1>1. ASSUME SystemInv PROVE ProofsCoverBlocks
  <2>1. TypeInv /\ IsState(proven) /\ Ledger(proven) /\ UpToDate(proven)
    BY <1>1 DEF SystemInv, Good
  <2>. DEFINE behind == Behind(proven)
              pending == proven.pending
              known == proven.action_chain
  <2>2. behind \in Nat /\ known \in Nat /\ behind <= known
    BY <2>1, BehindType
  <2>3. \A k \in DOMAIN pending : pending[k] \in behind + 1..known
    BY <2>1 DEF Ledger, PendingInOrder
  <2>4. \A i \in DOMAIN chain : i \in Nat
    BY <2>1, ChainType DEF TypeInv
  <2>5. ASSUME NEW i \in DOMAIN chain, chain[i].timestamp <= proven.timestamp
        PROVE  i <= known /\ i \notin ToSet(pending)
    <3>1. i <= behind
      BY <2>1, <2>5 DEF UpToDate
    <3>. HIDE DEF behind, pending, known
    <3>2. \A k \in DOMAIN pending : pending[k] # i
      BY <2>2, <2>3, <2>4, <3>1
    <3>3. QED
      BY <2>2, <2>4, <3>1, <3>2 DEF ToSet
  <2>6. \A s : AtContract!ToSet(s) = ToSet(s)
    BY DEF ToSet, AtContract!ToSet
  <2>7. QED
    BY <2>5, <2>6 DEF ProofsCoverBlocks, AtContract!ActionsCoverBlocks
<1>2. QED
  BY <1>1, AlwaysInOrder, PTL

\* A proof stays about final blocks however late it comes: no reorganization
\* takes back what a proof in flight, or the contract, has taken in.
THEOREM ProofsAreOfFinalBlocks == SystemSpec => []ProofsStayFinal
<1>1. SystemInv => ProofsStayFinal
  BY StatesAreGood DEF ProofsStayFinal, Good, Final
<1>2. QED
  BY <1>1, AlwaysInOrder, PTL

\* Orders that the contract was told of are settled for good: it never holds them
\* open again, nor does a receiver wait for them.
THEOREM SettledForGood == SystemSpec => []ToldIsSettled
<1>1. ASSUME SystemInv PROVE ToldIsSettled
  <2>1. TypeInv /\ BookInv /\ ToldAreOver /\ OnRecord(proven, reported)
        /\ IsState(proven) /\ Ledger(proven)
    BY <1>1 DEF SystemInv, Good
  <2>2. PICK s : s = proven
    OBVIOUS
  <2>3. \A i \in DOMAIN reported : reported[i].id \in Ids
    BY <2>1, <2>2, ToldIds
  <2>4. 0 \notin Ids
    BY ProgramAssumption DEF Ids
  <2>5. ASSUME NEW i \in DOMAIN reported, NEW r \in DOMAIN busy, busy[r] = reported[i].id
        PROVE  FALSE
    <3>1. r \in Addresses
      BY <2>1 DEF BookInv, BookTyped
    <3>2. busy[r] # NoId
      BY <2>3, <2>4, <2>5 DEF NoId
    <3>3. status[busy[r]] = "open"
      BY <2>1, <3>1, <3>2 DEF BookInv, HoldersAreOpen
    <3>4. QED
      BY <2>1, <2>5, <3>3 DEF ToldAreOver
  <2>6. QED
    BY <2>1, <2>5 DEF ToldIsSettled, ToldAreOver
<1>2. QED
  BY <1>1, AlwaysInOrder, PTL

\* A refused proof stays refused: the contract never comes back to a state from
\* which it has moved on, for every proof that it accepts takes in blocks.
THEOREM NeverGoesBack == SystemSpec => NeverBack
<1>1. ASSUME SystemInv, [SystemNext]_systemVars, proven' # proven
      PROVE  Len(proven'.latest) > Len(proven.latest)
  <2>1. CASE \E proof \in proofs : Accept(proof)
    BY <1>1, <2>1, AcceptKeeps
  <2>2. CASE Users
    BY <1>1, <2>2 DEF Users, Creators, Fulfillers, Providers, Owner, Call, Book!Open, Book!Stop,
       Book!Fulfill, Book!Release, Book!Patch
  <2>3. CASE UNCHANGED book
    BY <1>1, <2>3 DEF book
  <2>4. QED
    BY <1>1, <2>1, <2>2, <2>3 DEF SystemNext, PassTime, Tron, StartFrom, Step, Finish, systemVars
<1>2. QED
  BY <1>1, AlwaysInOrder, PTL DEF SystemSpec, NeverBack

(***************************************************************************)
(* What the contract pays for.                                             *)
(***************************************************************************)

\* A state may be built on: its blocks are behind it with the actions that they
\* reach, and its open orders and some reports are covered by payments in them.
Sound(s, reports) ==
  /\ Waited(s) /\ Settled(s, Len(s.latest))
  /\ Covered(chain, s.missed, s.orders, reports, s.latest, Places(s.latest))

\* What was left out on the way to a state stays left out.
SoundProof(proof) ==
  /\ Sound(proof.old, <<>>) /\ Sound(proof.new, proof.closed)
  /\ proof.old.missed \subseteq proof.new.missed

\* The run so far, as the payments see it.
SoundRun ==
  /\ Sound(state, <<>>) /\ state.missed \subseteq work.missed
  /\ RunClock /\ RunPayments /\ OwnInv /\ RunReasons

SoundInv ==
  /\ Sound(proven, reported) /\ \A proof \in proofs : SoundProof(proof)
  /\ SoundRun

\* A state that is sound with reports is sound without.
LEMMA SoundAlone ==
  ASSUME NEW s, NEW reports, Sound(s, reports)
  PROVE  Sound(s, <<>>)
<1>1. \A X : <<>> \in Seq(X)
  OBVIOUS
<1>2. QED
  BY <1>1 DEF Sound, Covered

\* A state stays sound when the chain of actions grows.
LEMMA SoundOutlastsActions ==
  ASSUME TypeInv, ChainGrows, now' \in Nat, chain' \in Seq(Action),
         NEW s, IsState(s), Ledger(s), NEW reports, Sound(s, reports)
  PROVE  Sound(s, reports)'
<1>1. PICK last : last = Len(s.latest)
  OBVIOUS
<1>2. PICK latest : latest = s.latest
  OBVIOUS
<1>3. PICK acts : acts = chain
  OBVIOUS
<1>4. PICK more : more = chain'
  OBVIOUS
<1>5. PICK time : time = now'
  OBVIOUS
<1>6. Waited(s)' /\ Settled(s, last)'
  BY <1>1, ClockOutlastsActions DEF Sound
<1>7. latest \in Seq(Block)
  BY <1>2 DEF IsState
<1>8. \A m \in 1..Len(latest) : read_varint(latest[m].timestamp) < time
  BY <1>1, <1>2, <1>5, <1>6 DEF Settled
<1>9. /\ acts \in Seq(Action) /\ more \in Seq(Action) /\ time \in Nat
      /\ DOMAIN acts \subseteq DOMAIN more /\ \A i \in DOMAIN acts : more[i] = acts[i]
  BY <1>3, <1>4, <1>5 DEF TypeInv, EnvTyped, ChainGrows
<1>10. \A i \in DOMAIN more : i \notin DOMAIN acts => time <= more[i].timestamp
  BY <1>3, <1>4, <1>5, <1>9 DEF ChainGrows
<1>11. Covered(acts, s.missed, s.orders, reports, latest, Places(latest))
  BY <1>2, <1>3 DEF Sound
<1>12. Covered(more, s.missed, s.orders, reports, latest, Places(latest))
  BY <1>7, <1>8, <1>9, <1>10, <1>11, CoveredOutlastsActions
<1>13. Settled(s, Len(s.latest))'
  BY <1>1, <1>6
<1>14. Covered(chain, s.missed, s.orders, reports, s.latest, Places(s.latest))'
  BY <1>2, <1>4, <1>12
<1>15. QED
  BY <1>6, <1>13, <1>14 DEF Sound

\* It does when nothing happens to the chain.
LEMMA SoundStays ==
  ASSUME UNCHANGED <<chain, now>>, NEW s, NEW reports, Sound(s, reports)
  PROVE  Sound(s, reports)'
BY DEF Sound, Waited, Settled, Behind

\* So does a proof.
LEMMA SoundProofOutlastsActions ==
  ASSUME TypeInv, ChainGrows, now' \in Nat, chain' \in Seq(Action),
         NEW proof, GoodProof(proof), SoundProof(proof)
  PROVE  SoundProof(proof)'
<1>1. PICK old : old = proof.old
  OBVIOUS
<1>2. PICK new : new = proof.new
  OBVIOUS
<1>3. PICK reports : reports = proof.closed
  OBVIOUS
<1>4. IsState(old) /\ Ledger(old) /\ IsState(new) /\ Ledger(new)
  BY <1>1, <1>2 DEF GoodProof, Good
<1>5. Sound(old, <<>>) /\ Sound(new, reports)
  BY <1>1, <1>2, <1>3 DEF SoundProof
<1>6. Sound(old, <<>>)' /\ Sound(new, reports)'
  BY <1>4, <1>5, SoundOutlastsActions
<1>7. Sound(proof.old, <<>>)'
  BY <1>1, <1>6 DEF Sound, Waited, Settled, Behind
<1>8. Sound(proof.new, proof.closed)'
  BY <1>2, <1>3, <1>6 DEF Sound, Waited, Settled, Behind
<1>9. QED
  BY <1>7, <1>8 DEF SoundProof

\* A run that has not begun is sound when the state of the contract is.
LEMMA RestIsSound ==
  ASSUME NEW s, IsState(s), NEW all, Sound(s, all)',
         state' = s, work' = s, proven' = s, reported' = all,
         closed' = <<>>, active' = NoneActive, pc' = "idle"
  PROVE  SoundRun' /\ Sound(proven, reported)'
<1>1. PICK acts : acts = chain'
  OBVIOUS
<1>2. Waited(s)' /\ Settled(s, Len(s.latest))'
  BY DEF Sound
<1>3. Covered(acts, s.missed, s.orders, all, s.latest, Places(s.latest))
  BY <1>1 DEF Sound
<1>4. PaymentInv'
  BY <1>1, <1>2, <1>3, RestPayments
<1>5. RunClock' /\ RunPayments' /\ Sound(state, reported)'
  BY <1>4 DEF PaymentInv, Sound
<1>6. Sound(proven, reported)'
  BY <1>5 DEF Sound, Waited, Settled, Behind
<1>7. Covered(acts, s.missed, s.orders, <<>>, s.latest, Places(s.latest))
  <2>1. \A X : <<>> \in Seq(X)
    OBVIOUS
  <2>2. QED
    BY <1>3, <2>1 DEF Covered
<1>8. Sound(state, <<>>)'
  BY <1>1, <1>5, <1>7 DEF Sound
<1>9. OwnInv' /\ RunReasons'
  BY DEF OwnInv, RunReasons, Justified
<1>10. QED
  BY <1>5, <1>6, <1>8, <1>9 DEF SoundRun

\* The chain grows while no run is under way: the contract comes to a sound state.
LEMMA OutsideIsSound ==
  ASSUME SystemInv, SystemInv', SoundInv, ChainGrows, pc' = "idle", UNCHANGED proofs,
         NEW s, Good(s), NEW all, Sound(s, all), proven' = s, reported' = all
  PROVE  SoundInv'
<1>1. TypeInv /\ IsState(s) /\ Ledger(s)
  BY DEF SystemInv, Good
<1>2. now' \in Nat /\ chain' \in Seq(Action)
  BY ProgramAssumption DEF SystemInv, TypeInv, EnvTyped
<1>3. Sound(s, all)'
  BY <1>1, <1>2, SoundOutlastsActions
<1>4. state' = s /\ work' = s /\ closed' = <<>> /\ active' = NoneActive
  BY DEF SystemInv, AtRest
<1>5. SoundRun' /\ Sound(proven, reported)'
  BY <1>1, <1>3, <1>4, RestIsSound
<1>6. \A proof \in proofs' : SoundProof(proof)'
  <2>. SUFFICES ASSUME NEW proof \in proofs PROVE SoundProof(proof)'
    OBVIOUS
  <2>1. GoodProof(proof) /\ SoundProof(proof)
    BY DEF SystemInv, SoundInv
  <2>2. QED
    BY <1>1, <1>2, <2>1, SoundProofOutlastsActions
<1>7. QED
  BY <1>5, <1>6 DEF SoundInv

\* Users, time and Tron leave the contract with what it had.
LEMMA QuietIsSound ==
  ASSUME SystemInv, SystemInv', SoundInv, Users \/ PassTime \/ Tron
  PROVE  SoundInv'
<1>1. PICK s : s = proven
  OBVIOUS
<1>2. PICK all : all = reported
  OBVIOUS
<1>3. Good(s) /\ Sound(s, all)
  BY <1>1, <1>2 DEF SystemInv, SoundInv
<1>4. CASE Users
  <2>1. BookStep /\ UNCHANGED <<now, proven, reported>> /\ Call(TRUE)
    BY <1>4, UsersStep
  <2>2. ChainGrows /\ pc' = "idle" /\ UNCHANGED proofs /\ proven' = s /\ reported' = all
    BY <1>1, <1>2, <2>1 DEF BookStep, Call
  <2>3. QED
    BY <1>3, <2>2, OutsideIsSound
<1>5. CASE PassTime
  <2>1. pc' = "idle" /\ UNCHANGED <<chain, proofs>> /\ proven' = s /\ reported' = all
        /\ now' = now + 1
    BY <1>1, <1>2, <1>5 DEF PassTime, run, book
  <2>2. now \in Nat /\ Len(chain) \in Nat
    BY ProgramAssumption, ChainType DEF SystemInv, TypeInv, EnvTyped
  <2>3. ChainGrows
    BY <2>1, <2>2 DEF ChainGrows
  <2>4. QED
    BY <1>3, <2>1, <2>3, OutsideIsSound
<1>6. CASE Tron
  <2>1. Environment /\ pc' = "idle" /\ UNCHANGED proofs /\ proven' = s /\ reported' = all
    BY <1>1, <1>2, <1>6 DEF Tron, Environment, ProduceBlock, Reorganize, book, run
  <2>2. TypeInv /\ TypeInv'
    BY DEF SystemInv
  <2>3. ChainGrows
    BY <2>1, <2>2, EnvironmentGrows
  <2>4. QED
    BY <1>3, <2>1, <2>3, OutsideIsSound
<1>7. QED
  BY <1>4, <1>5, <1>6

\* The state that the contract accepts is sound with all that it was told: its
\* blocks are those of the state before and more.
LEMMA AcceptIsSound ==
  ASSUME SystemInv, SystemInv', SoundInv, NEW proof \in proofs, Accept(proof)
  PROVE  SoundInv'
<1>1. TypeInv /\ GoodProof(proof) /\ SoundProof(proof) /\ Sound(proven, reported) /\ BookInv
      /\ EnvTyped
  BY DEF SystemInv, SoundInv, TypeInv
<1>2. PICK old : old = proof.old
  OBVIOUS
<1>3. PICK new : new = proof.new
  OBVIOUS
<1>4. PICK reports : reports = proof.closed
  OBVIOUS
<1>5. PICK ids : ids = IdsOf(reports)
  OBVIOUS
<1>6. PICK recorded : recorded = reported
  OBVIOUS
<1>7. PICK all : all = recorded \o reports
  OBVIOUS
<1>8. PICK acts : acts = chain
  OBVIOUS
<1>9. proven = old /\ reported' = all /\ Call(Book!Close(proven, new, ids))
  BY <1>2, <1>3, <1>4, <1>5, <1>6, <1>7 DEF Accept, StartsFromProven
<1>10. Book!Close(old, new, ids) /\ pc' = "idle" /\ UNCHANGED proofs /\ proven' = new
  BY <1>9 DEF Call, Book!Close
<1>11. ChainGrows
  <2>1. PICK m : m = Len(reports)
    OBVIOUS
  <2>2. m \in Nat /\ ids \in [1..m -> DOMAIN chain]
    BY <1>1, <1>4, <1>5, <2>1, ProofIds
  <2>3. BookStep
    BY <1>1, <1>10, <2>2, CloseBook
  <2>4. QED
    BY <2>3 DEF BookStep
<1>12. Good(old) /\ Good(new) /\ Len(old.latest) < Len(new.latest)
  BY <1>1, <1>2, <1>3 DEF GoodProof
<1>13. Sound(old, recorded) /\ Sound(new, reports)
  BY <1>1, <1>3, <1>4, <1>6, <1>9 DEF SoundProof
<1>14. PICK shorter : shorter = old.latest
  OBVIOUS
<1>15. PICK longer : longer = new.latest
  OBVIOUS
<1>16. PICK t : t = tron
  OBVIOUS
<1>17. /\ shorter \in Seq(Block) /\ longer \in Seq(Block) /\ t \in Seq(Block)
       /\ IsPrefix(shorter, t) /\ IsPrefix(longer, t) /\ Len(shorter) < Len(longer)
  BY <1>1, <1>12, <1>14, <1>15, <1>16 DEF Good, IsState, Final, EnvTyped
<1>18. Len(shorter) \in Nat /\ Len(longer) \in Nat
  BY <1>17, LenProperties
<1>19. /\ \A i \in 1..Len(shorter) : shorter[i] = t[i]
       /\ \A i \in 1..Len(longer) : longer[i] = t[i]
  BY <1>17, PrefixProperties
<1>20. Len(shorter) <= Len(longer) /\ \A i \in 1..Len(shorter) : longer[i] = shorter[i]
  BY <1>17, <1>18, <1>19
<1>21. Places(shorter) \in SUBSET Places(longer)
  BY <1>17, <1>20, MoreBlocks
<1>22. PICK orders, few, missed : orders = old.orders /\ few = old.missed /\ missed = new.missed
  OBVIOUS
<1>23. Covered(acts, few, orders, recorded, shorter, Places(shorter)) /\ few \subseteq missed
  BY <1>1, <1>2, <1>3, <1>8, <1>13, <1>14, <1>22 DEF Sound, SoundProof
<1>24. Covered(acts, missed, orders, recorded, longer, Places(longer))
  <2>1. Covered(acts, few, orders, recorded, longer, Places(longer))
    BY <1>17, <1>20, <1>21, <1>23, CoveredGrows
  <2>2. QED
    BY <1>17, <1>23, <2>1, CoveredOutlastsGaps
<1>25. Covered(acts, missed, new.orders, reports, longer, Places(longer))
  BY <1>8, <1>13, <1>15, <1>22 DEF Sound
<1>26. all \in Seq(CoveredBy(acts, missed, longer, Places(longer)))
  BY <1>7, <1>24, <1>25, CoveredBoth DEF Covered
<1>27. Sound(new, all)
  BY <1>8, <1>13, <1>15, <1>22, <1>25, <1>26 DEF Sound, Covered
<1>28. QED
  BY <1>9, <1>10, <1>11, <1>12, <1>27, OutsideIsSound

\* The states that provers start from are sound.
LEMMA StatesAreSound ==
  ASSUME SoundInv, NEW s \in States
  PROVE  Sound(s, <<>>)
<1>1. CASE s = proven
  <2>1. PICK all : all = reported
    OBVIOUS
  <2>2. Sound(s, all)
    BY <1>1, <2>1 DEF SoundInv
  <2>3. QED
    BY <2>2, SoundAlone
<1>2. ASSUME NEW proof \in proofs, s = proof.old PROVE Sound(s, <<>>)
  BY <1>2 DEF SoundInv, SoundProof
<1>3. ASSUME NEW proof \in proofs, s = proof.new PROVE Sound(s, <<>>)
  <2>1. PICK reports : reports = proof.closed
    OBVIOUS
  <2>2. Sound(s, reports)
    BY <1>3, <2>1 DEF SoundInv, SoundProof
  <2>3. QED
    BY <2>2, SoundAlone
<1>4. QED
  BY <1>1, <1>2, <1>3 DEF States

\* What is not the work of a prover stays sound while it works.
LEMMA OutsideStaysSound ==
  ASSUME SoundInv, UNCHANGED <<env, reported, book>>
  PROVE  /\ Sound(proven, reported)' /\ UNCHANGED <<chain, now, reported, proven>>
         /\ \A proof \in proofs : SoundProof(proof)'
         /\ \A s, reports : Sound(s, reports) => Sound(s, reports)'
<1>1. UNCHANGED <<chain, now, reported, proven>>
  BY DEF env, book
<1>2. \A s, reports : Sound(s, reports) => Sound(s, reports)'
  BY <1>1, SoundStays
<1>3. Sound(proven, reported)'
  BY <1>1 DEF SoundInv, Sound, Waited, Settled, Behind
<1>4. ASSUME NEW proof \in proofs PROVE SoundProof(proof)'
  BY <1>1 DEF SoundInv, SoundProof, Sound, Waited, Settled, Behind
<1>5. QED
  BY <1>1, <1>2, <1>3, <1>4

\* A run is sound when it begins.
LEMMA StartIsSound ==
  ASSUME SystemInv, SoundInv, NEW base \in States, StartFrom(base)
  PROVE  SoundInv'
<1>1. PICK skipped, actionCount \in 0..MaxActions, blockCount \in 1..MaxBlocks :
        StartOn(base, skipped, actionCount, blockCount)
  BY DEF StartFrom
<1>2. /\ state' = base /\ UNCHANGED <<book, proofs, active, closed>> /\ UNCHANGED <<env, reported>>
      /\ pc = "idle" /\ pc' = "verify"
  BY <1>1 DEF StartFrom, StartOn, Goto
<1>3. active' = NoneActive /\ closed' = <<>>
  BY <1>2 DEF SystemInv, AtRest
<1>4. IsState(base) /\ Ledger(base)
  BY StatesAreGood DEF Good
<1>18. TypeInv
  BY DEF SystemInv
<1>5. Sound(base, <<>>)
  BY StatesAreSound
<1>6. /\ Sound(proven, reported)' /\ UNCHANGED <<chain, now, reported, proven>>
      /\ \A proof \in proofs : SoundProof(proof)'
      /\ \A s, reports : Sound(s, reports) => Sound(s, reports)'
  BY <1>2, OutsideStaysSound
<1>7. Sound(base, <<>>)'
  BY <1>5, <1>6
<1>8. skipped \in Nat /\ actionCount \in Nat /\ blockCount \in Nat
  BY ProgramAssumption
<1>9. work'.latest = base.latest /\ work'.orders = base.orders
  BY <1>1, <1>4, <1>8, StartFields
<1>. DEFINE behind == Behind(base)
            after == Behind(work)'
            missed == work'.missed
<1>10. /\ behind \in Nat /\ after \in Nat /\ behind <= after /\ base.missed \subseteq missed
       /\ \A i \in behind + 1..after : i \in missed
  BY <1>1, <1>4, <1>8, <1>18, BehindType, StartBehind
<1>11. Sound(state, <<>>)'
  BY <1>2, <1>7 DEF Sound, Waited, Settled, Behind
<1>12. Waited(work)' /\ Settled(work, Looked(work.latest, pc))'
  <2>1. \A i \in DOMAIN chain : i \in Nat
    BY <1>18, ChainType DEF TypeInv
  <2>2. Waited(base) /\ Settled(base, Len(base.latest))
    BY <1>5 DEF Sound
  <2>3. ASSUME NEW i \in DOMAIN chain \ missed, i <= after
        PROVE  i \in DOMAIN chain \ base.missed /\ i <= behind
    <3>. HIDE DEF behind, after, missed
    <3>1. i \notin behind + 1..after
      BY <1>10, <2>3
    <3>2. QED
      BY <1>10, <2>1, <2>3, <3>1
  <2>4. Waited(work)'
    BY <1>6, <1>9, <2>2, <2>3 DEF Waited, ReachedBy
  <2>5. \A i \in DOMAIN chain : i <= behind => i <= after
    <3>. HIDE DEF behind, after
    <3>1. QED
      BY <1>10, <2>1
  <2>6. Looked(work.latest, pc)' = Len(base.latest)
    BY <1>2, <1>9 DEF Looked
  <2>7. Settled(work, Len(base.latest))'
    BY <1>6, <1>9, <2>2, <2>5 DEF Settled
  <2>8. QED
    BY <2>4, <2>6, <2>7 DEF Settled
<1>13. ListensToLast'
  BY <1>3 DEF ListensToLast, NoneActive
<1>14. Walked(base.latest, "verify", txs') = Places(base.latest)
  <2>1. base.latest \in Seq(Block)
    BY <1>4 DEF IsState
  <2>2. QED
    BY <2>1, AllWalked
<1>15. RunPayments'
  <2>1. Covered(chain, base.missed, base.orders, <<>>, base.latest, Places(base.latest))
    BY <1>5 DEF Sound
  <2>2. base.latest \in Seq(Block)
    BY <1>4 DEF IsState
  <2>. HIDE DEF missed
  <2>3. Covered(chain, missed, base.orders, <<>>, base.latest, Places(base.latest))
    BY <1>10, <2>1, <2>2, CoveredOutlastsGaps
  <2>4. QED
    BY <1>2, <1>3, <1>6, <1>9, <1>14, <2>3 DEF RunPayments, missed
<1>16. OwnInv' /\ RunReasons'
  BY <1>2, <1>3 DEF OwnInv, RunReasons, Justified
<1>19. state'.missed \subseteq work'.missed
  BY <1>2, <1>10
<1>17. QED
  BY <1>2, <1>6, <1>11, <1>12, <1>13, <1>15, <1>16, <1>19 DEF SoundInv, SoundRun, RunClock

\* It stays sound.
LEMMA StepIsSound ==
  ASSUME SystemInv, SoundInv, Step
  PROVE  SoundInv'
<1>1. RunStep /\ UNCHANGED <<book, proofs>>
  BY DEF Step, RunStep
<1>2. UNCHANGED <<env, reported, state>>
  BY <1>1 DEF RunStep, VerifyBlock, OpenOrder, CloseOrder, WalkThrough, IgnoreTx, CountTransfer,
         CountVote, FinishBlock
<1>3. TypeInv /\ ChainInOrder /\ RunLedger /\ Ledger(work)
  BY DEF SystemInv, RunLedger
<1>4. RunClock /\ RunPayments /\ OwnInv /\ RunReasons
  BY DEF SoundInv, SoundRun
<1>5. RunClock' /\ RunPayments' /\ OwnInv' /\ RunReasons'
  BY <1>1, <1>3, <1>4, StepClock, StepPayments, StepIsOwn, StepReasons
<1>6. /\ Sound(proven, reported)' /\ UNCHANGED <<chain, now, reported, proven>>
      /\ \A proof \in proofs : SoundProof(proof)'
      /\ \A s, reports : Sound(s, reports) => Sound(s, reports)'
  BY <1>1, <1>2, OutsideStaysSound
<1>7. Sound(state, <<>>)'
  <2>1. PICK s : s = state
    OBVIOUS
  <2>2. Sound(s, <<>>)'
    BY <1>6, <2>1 DEF SoundInv, SoundRun
  <2>3. QED
    BY <1>2, <2>1, <2>2 DEF Sound, Waited, Settled, Behind
<1>8. state'.missed \subseteq work'.missed
  <2>1. work'.missed = work.missed
    BY <1>1, <1>3, VerifyFields, OpenFields, CloseFields, TransferFields, VoteFields, FinishFields
       DEF RunStep, WalkThrough, IgnoreTx, TypeInv, RunTyped
  <2>2. QED
    BY <1>2, <2>1 DEF SoundInv, SoundRun
<1>9. QED
  BY <1>1, <1>5, <1>6, <1>7, <1>8 DEF SoundInv, SoundRun

\* A run that has come to its end is a sound proof.
LEMMA EndIsSound ==
  ASSUME SystemInv, SoundInv, pc = "verify", NEW proof,
         proof = [old |-> state, new |-> work, closed |-> closed]
  PROVE  SoundProof(proof)
<1>1. PICK s : s = work
  OBVIOUS
<1>2. PICK reports : reports = closed
  OBVIOUS
<1>3. s.latest \in Seq(Block)
  BY <1>1 DEF SystemInv, TypeInv, RunTyped, IsState
<1>4. Waited(s) /\ Settled(s, Len(s.latest))
  BY <1>1 DEF SoundInv, SoundRun, RunClock, Looked
<1>5. Covered(chain, s.missed, s.orders, reports, s.latest, Places(s.latest))
  BY <1>1, <1>2, <1>3, AllWalked DEF SoundInv, SoundRun, RunPayments
<1>6. Sound(s, reports)
  BY <1>4, <1>5 DEF Sound
<1>7. Sound(state, <<>>) /\ state.missed \subseteq s.missed
  BY <1>1 DEF SoundInv, SoundRun
<1>8. proof.old = state /\ proof.new = s /\ proof.closed = reports
  BY <1>1, <1>2
<1>9. QED
  BY <1>6, <1>7, <1>8 DEF SoundProof

\* A prover that ends leaves everything sound, with a proof or without.
LEMMA FinishIsSound ==
  ASSUME SystemInv, SystemInv', SoundInv, Finish
  PROVE  SoundInv'
<1>1. /\ state' = proven /\ Forget(proven) /\ UNCHANGED <<env, reported, book>>
  BY DEF Finish
<1>2. PICK s : s = proven
  OBVIOUS
<1>3. PICK all : all = reported
  OBVIOUS
<1>4. IsState(s) /\ Sound(s, all)
  BY <1>2, <1>3 DEF SystemInv, Good, SoundInv
<1>5. /\ UNCHANGED <<chain, now, reported, proven>>
      /\ \A proof \in proofs : SoundProof(proof)'
      /\ \A t, reports : Sound(t, reports) => Sound(t, reports)'
  BY <1>1, OutsideStaysSound
<1>6. Sound(s, all)'
  BY <1>4, <1>5
<1>7. /\ state' = s /\ work' = s /\ proven' = s /\ reported' = all /\ active' = NoneActive
      /\ closed' = <<>> /\ pc' = "idle"
  BY <1>1, <1>2, <1>3, <1>5 DEF Forget, Goto
<1>8. SoundRun' /\ Sound(proven, reported)'
  BY <1>4, <1>6, <1>7, RestIsSound
<1>9. \A proof \in proofs' : SoundProof(proof)'
  <2>1. CASE /\ pc = "verify" /\ blocks = <<>>
             /\ proofs' = proofs \cup {[old |-> state, new |-> work, closed |-> closed]}
    <3>1. PICK last : last = [old |-> state, new |-> work, closed |-> closed]
      OBVIOUS
    <3>2. SoundProof(last)
      BY <2>1, <3>1, EndIsSound
    <3>3. SoundProof(last)'
      BY <1>5, <3>2 DEF SoundProof, Sound, Waited, Settled, Behind
    <3>4. QED
      BY <1>5, <2>1, <3>1, <3>3
  <2>2. CASE UNCHANGED proofs
    BY <1>5, <2>2
  <2>3. QED
    BY <2>1, <2>2 DEF Finish
<1>10. QED
  BY <1>8, <1>9 DEF SoundInv

\* The system starts sound.
LEMMA SoundStarts == SystemInit => SoundInv
<1>. SUFFICES ASSUME SystemInit PROVE SoundInv
  OBVIOUS
<1>1. Init /\ TypeInv /\ proofs = {} /\ proven = state
  BY TypedInit DEF SystemInit
<1>2. PaymentInv /\ ReasonInv /\ OwnInv
  BY <1>1, PaymentInit, ReasonInit DEF Init, OwnInv
<1>3. Sound(state, reported)
  BY <1>2 DEF PaymentInv, Sound
<1>4. Sound(proven, reported)
  BY <1>1, <1>3
<1>5. reported = <<>>
  BY <1>1 DEF Init
<1>6. Sound(state, <<>>)
  BY <1>3, <1>5
<1>7. state.missed \subseteq work.missed
  BY <1>2 DEF PaymentInv
<1>8. QED
  BY <1>1, <1>2, <1>4, <1>6, <1>7 DEF SoundInv, SoundRun, PaymentInv, ReasonInv

\* Every step keeps it sound.
LEMMA SoundKeeps ==
  ASSUME SystemInv, SystemInv', SoundInv, [SystemNext]_systemVars
  PROVE  SoundInv'
<1>1. CASE UNCHANGED systemVars
  <2>1. UNCHANGED <<now, chain, tron, solid, state, reported>>
        /\ UNCHANGED <<pc, work, active, closed, blocks, txs>>
        /\ UNCHANGED <<status, busy, proven, proofs>>
    BY <1>1 DEF systemVars, vars, env, run, book
  <2>2. UNCHANGED <<env, reported, book>>
    BY <1>1 DEF systemVars, vars
  <2>3. /\ Sound(proven, reported)' /\ \A proof \in proofs : SoundProof(proof)'
        /\ \A s, reports : Sound(s, reports) => Sound(s, reports)'
    BY <2>2, OutsideStaysSound
  <2>4. Sound(state, <<>>)'
    <3>1. PICK s : s = state
      OBVIOUS
    <3>2. Sound(s, <<>>)'
      BY <2>3, <3>1 DEF SoundInv, SoundRun
    <3>3. QED
      BY <2>1, <3>1, <3>2 DEF Sound, Waited, Settled, Behind
  <2>5. Waited(work)' /\ Settled(work, Looked(work.latest, pc))' /\ ListensToLast'
    BY <2>1 DEF SoundInv, SoundRun, RunClock, Waited, Settled, ListensToLast, Behind
  <2>6. RunPayments' /\ OwnInv' /\ RunReasons'
    BY <2>1 DEF SoundInv, SoundRun, RunPayments, OwnInv, RunReasons, Justified, HasReason, Reached
  <2>8. state'.missed \subseteq work'.missed
    BY <2>1 DEF SoundInv, SoundRun
  <2>7. QED
    BY <2>1, <2>3, <2>4, <2>5, <2>6, <2>8 DEF SoundInv, SoundRun, RunClock
<1>2. QED
  BY <1>1, QuietIsSound, AcceptIsSound, StartIsSound, StepIsSound, FinishIsSound DEF SystemNext

\* Everything is sound in every state.
LEMMA AlwaysSound == SystemSpec => []SoundInv
BY SystemStarts, SystemKeeps, SoundStarts, SoundKeeps, PTL DEF SystemSpec

\* The values that the contract's copy of the program reads and sums are the same.
LEMMA SameSums ==
  /\ \A f : AtContract!SumFunction(f) = SumFunction(f)
  /\ \A tx : AtContract!ParsedValue(tx) = ParsedValue(tx)
  /\ \A n : AtContract!read_varint(n) = read_varint(n)
<1>1. \A f : AtContract!SumFunction(f) = SumFunction(f)
  BY DEF SumFunction, SumFunctionOnSet, FoldFunctionOnSet, MapThenFoldSet,
     AtContract!SumFunction, AtContract!SumFunctionOnSet, AtContract!FoldFunctionOnSet,
     AtContract!MapThenFoldSet
<1>2. \A n : AtContract!from_le_bytes(n) = from_le_bytes(n)
  BY <1>1 DEF from_le_bytes, AtContract!from_le_bytes
<1>3. \A n : AtContract!read_varint(n) = read_varint(n)
  BY <1>1 DEF read_varint, PlaceOf, Bits, AtContract!read_varint, AtContract!PlaceOf,
     AtContract!Bits
<1>4. QED
  BY <1>1, <1>2, <1>3 DEF ParsedValue, AtContract!ParsedValue

\* However provers race, crash and repeat themselves, what the contract pays for was
\* read from transfers in the life of the order by the times that the program reads
\* and the actions that were not left out, each counted for one order.
THEOREM ContractPaysAsRead == SystemSpec => []PaidAsRead
<1>1. SystemInv /\ SoundInv => PaidAsRead
  <2>. SUFFICES ASSUME SystemInv, SoundInv PROVE PaidAsRead
    OBVIOUS
  <2>1. PICK latest : latest = proven.latest
    OBVIOUS
  <2>2. PICK acts : acts = chain
    OBVIOUS
  <2>3. latest \in Seq(Block)
    BY <2>1 DEF SystemInv, Good, IsState
  <2>4. PICK orders : orders = proven.orders
    OBVIOUS
  <2>5. PICK reports : reports = reported
    OBVIOUS
  <2>0. PICK missed : missed = proven.missed
    OBVIOUS
  <2>6. Covered(acts, missed, orders, reports, latest, Places(latest))
    BY <2>0, <2>1, <2>2, <2>4, <2>5 DEF SoundInv, Sound
  <2>7. PaidByClock(acts, missed, orders, reports, latest)
    BY <2>3, <2>6, CoveredWasRead
  <2>8. ASSUME NEW id
        PROVE  AtContract!PaidIn(id, AtContract!LifeAsRead(id))
                 = ReadOver(acts, missed, latest, id)
    <3>1. \A n, time : AtContract!ReachedBy(latest, n, time) = ReachedBy(latest, n, time)
      BY SameSums DEF ReachedBy, AtContract!ReachedBy
    <3>2. AtContract!LifeAsRead(id) = ReadLife(acts, missed, latest, id)
      BY <2>0, <2>1, <2>2, <3>1 DEF AtContract!LifeAsRead, ReadLife, InLife
    <3>3. PICK heights : heights = AtContract!LifeAsRead(id)
      OBVIOUS
    <3>4. PICK T : T = PaidAt(latest, acts[id].address, heights)
      OBVIOUS
    <3>5. AtContract!TxsTo(acts[id].address, heights) = T
      BY <2>1, <3>4 DEF AtContract!TxsTo, PaidAt
    <3>6. [p \in T |-> AtContract!ParsedValue(latest[p[1]].txs[p[2]])] = ReadAt(latest, T)
      BY SameSums DEF ReadAt
    <3>7. AtContract!PaidIn(id, heights)
            = AtContract!SumFunction([p \in T |-> AtContract!ParsedValue(latest[p[1]].txs[p[2]])])
      BY <2>1, <2>2, <3>5 DEF AtContract!PaidIn, AtContract!SumTo
    <3>8. QED
      BY <3>2, <3>3, <3>4, <3>6, <3>7, SameSums DEF ReadOver
  <2>9. QED
    BY <2>4, <2>5, <2>7, <2>8 DEF PaidByClock, PaidAsRead, AtContract!InflowWasRead
<1>2. QED
  BY <1>1, AlwaysInOrder, AlwaysSound, PTL

=============================================================================
