------------------------------ MODULE OrderBook ------------------------------
(***************************************************************************)
(* What the contract UntronCore promises to the ZK program and to those    *)
(* who prove it: orders hold receivers, and everything that happens to a   *)
(* receiver is told by the action chain.  Money, accounts and settings are *)
(* left out, and so is the record of an order: the action that created it  *)
(* says all there is to know.  UntronCore implements this module, and      *)
(* UntronSystem uses it for the contract.                                  *)
(***************************************************************************)
EXTENDS Integers, Sequences, FiniteSets

CONSTANTS
  Receivers,     \* Tron addresses
  ZeroAddress,   \* what a deleted order reads as its receiver
  Sizes,         \* sizes of orders and of patches
  ORDER_TTL,
  MaxActions,    \* bound: length of the chain
  MaxBatch       \* bound: orders or receivers in one call

VARIABLES
  now,           \* the time in the unit of the chain's timestamps
  chain,         \* the actions: when, which address, size (0 in a closure)
  status,        \* of each ID: none, open or fulfilled
  busy,          \* the order that holds a receiver, or NoId
  proven         \* the state of the program that the last proof reached

vars == <<now, chain, status, busy, proven>>

NoId == 0
Ids  == 1..MaxActions

Init ==
  /\ chain = <<>>
  /\ status = [id \in Ids |-> "none"]
  /\ busy = [r \in Receivers \cup {ZeroAddress} |-> NoId]

IsExpired(id) == chain[id].timestamp + ORDER_TTL < now

Tell(address, size) == [timestamp |-> now, address |-> address, size |-> size]

Closures(addresses) == [i \in DOMAIN addresses |-> Tell(addresses[i], 0)]

\* The receiver that ending an order frees: an ID without an order has none.
ReceiverOf(id) == IF status[id] = "open" THEN chain[id].address ELSE ZeroAddress

ReceiversOf(ids) == [i \in DOMAIN ids |-> ReceiverOf(ids[i])]

IsOneOf(x, s) == \E i \in DOMAIN s : s[i] = x

\* Receivers become free, whoever holds them, and the chain tells each of them.
Free(addresses) ==
  /\ busy' = [r \in DOMAIN busy |-> IF IsOneOf(r, addresses) THEN NoId ELSE busy[r]]
  /\ chain' = chain \o Closures(addresses)

Settle(ids, as) ==
  status' = [id \in Ids |-> IF IsOneOf(id, ids) THEN as ELSE status[id]]

Open(receiver, size) ==
  LET freed == IF busy[receiver] = NoId THEN <<>> ELSE <<receiver>>
      id    == Len(chain) + Len(freed) + 1
  IN
  /\ id \in Ids
  /\ busy[receiver] # NoId => IsExpired(busy[receiver])
  /\ chain' = Append(chain \o Closures(freed), Tell(receiver, size))
  /\ busy' = [busy EXCEPT ![receiver] = id]
  /\ status' = [status EXCEPT ![id] = "open"]
  /\ UNCHANGED <<now, proven>>

Stop(id) ==
  /\ status[id] = "open"
  /\ Free(<<ReceiverOf(id)>>) /\ Settle(<<id>>, "none")
  /\ UNCHANGED <<now, proven>>

Fulfill(ids) ==
  /\ \A i \in DOMAIN ids : status[ids[i]] # "fulfilled"
  /\ Free(ReceiversOf(ids)) /\ Settle(ids, "fulfilled")
  /\ UNCHANGED <<now, proven>>

IsFulfilled_Negated(id) == status[id] # "fulfilled"

IsFulfilled(id) == status[id] = "fulfilled"

\* The elements of a set of positions, listed in increasing order.
InOrder(S) ==
  {s \in [1..Cardinality(S) -> S] :
     /\ \A x \in S : IsOneOf(x, s)
     /\ \A k, l \in DOMAIN s : k < l => s[k] < s[l]}

\* A proof from the current state is accepted, any other is refused.  Only the
\* orders that were not fulfilled still have a receiver to free.
Close(old, new, ids) ==
  /\ proven = old
  /\ proven' = new
  /\ \E s \in InOrder({i \in DOMAIN ids : ~IsFulfilled(ids[i])}) :
       Free(ReceiversOf([k \in DOMAIN s |-> ids[s[k]]]))
  /\ Settle(ids, "none")
  /\ UNCHANGED now

\* A provider registers receivers whose orders expired.
Release(receivers) ==
  /\ \A i \in DOMAIN receivers :
       busy[receivers[i]] # NoId /\ IsExpired(busy[receivers[i]])
  /\ Free(receivers)
  /\ UNCHANGED <<now, status, proven>>

\* The owner patches the chain.
Patch(receiver, size) ==
  /\ chain' = Append(chain, Tell(receiver, size))
  /\ UNCHANGED <<now, status, busy, proven>>

Pass == now' > now /\ UNCHANGED <<chain, status, busy, proven>>

\* Lists of distinct members of a set.
Lists(S) ==
  {s \in UNION {[1..n -> S] : n \in 0..MaxBatch} :
     \A i, j \in DOMAIN s : i # j => s[i] # s[j]}

Next ==
  \/ \E receiver \in Receivers, size \in Sizes :
       Open(receiver, size) \/ Patch(receiver, size)
  \/ \E id \in DOMAIN chain : Stop(id)
  \/ \E ids \in Lists(DOMAIN chain) : Fulfill(ids) \/ Close(proven, proven', ids)
  \/ \E receivers \in Lists(Receivers) : Release(receivers)
  \/ Pass

Spec == Init /\ [][Next]_vars
=============================================================================
