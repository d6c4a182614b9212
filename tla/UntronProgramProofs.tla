------------------------ MODULE UntronProgramProofs ------------------------
(***************************************************************************)
(* Proofs about the ZK program, for every value of its constants: the      *)
(* light client takes in final blocks only, however Tron is reorganized,   *)
(* and the ledger of actions and orders misses no action and closes no     *)
(* order twice.                                                            *)
(***************************************************************************)
EXTENDS UntronProgram, UntronSums, SequenceTheorems

(***************************************************************************)
(* What the functions of UntronBytes and of the community modules return.  *)
(***************************************************************************)

\* The bits of a number are among finitely many.
LEMMA BitsAreFinite ==
  ASSUME NEW n \in Nat
  PROVE  IsFiniteSet({PlaceOf(p) : p \in Bits(n)} \cap 0..WORD_BITS - 1)
<1>1. IsFiniteSet(0..WORD_BITS - 1)
  BY FS_Interval, BytesAssumption
<1>2. QED
  BY <1>1, FS_Subset

\* A number that is read from a varint is a natural number.
LEMMA ReadIsNat ==
  ASSUME NEW n \in Nat
  PROVE  read_varint(n) \in Nat
<1>. DEFINE S == {PlaceOf(p) : p \in Bits(n)} \cap 0..WORD_BITS - 1
            f == [q \in S |-> 2^q]
<1>1. IsFiniteSet(S)
  BY BitsAreFinite
<1>2. \A q \in S : f[q] \in Nat
  BY PowersAssumption
<1>3. DOMAIN f = S
  OBVIOUS
<1>4. SumFunctionOnSet(f, S) \in Nat
  <2>. HIDE DEF S, f
  <2>. QED
    BY <1>1, <1>2, SumNat
<1>5. read_varint(n) = SumFunctionOnSet(f, DOMAIN f)
  BY DEF read_varint, SumFunction
<1>6. QED
  BY <1>3, <1>4, <1>5

\* A value that is read from a transfer is a natural number.
LEMMA ValueIsNat ==
  ASSUME NEW n \in Nat
  PROVE  from_le_bytes(n) \in Nat
<1>. DEFINE S == 0..VALUE_BYTES - 1
            f == [i \in S |-> ((n \div BYTE^i) % BYTE) * BYTE^(VALUE_BYTES - 1 - i)]
<1>1. IsFiniteSet(S)
  BY FS_Interval, BytesAssumption
<1>2. ASSUME NEW i \in S PROVE f[i] \in Nat
  <2>. DEFINE power == BYTE^i
              weight == BYTE^(VALUE_BYTES - 1 - i)
  <2>1. power \in Nat \ {0}
    BY PowersAssumption
  <2>2. VALUE_BYTES - 1 - i \in S
    BY BytesAssumption
  <2>3. weight \in Nat
    BY <2>2, PowersAssumption
  <2>4. f[i] = ((n \div power) % BYTE) * weight
    OBVIOUS
  <2>. HIDE DEF f, power, weight
  <2>5. n \div power \in Nat
    BY <2>1
  <2>6. (n \div power) % BYTE \in Nat
    BY <2>5, BytesAssumption
  <2>7. QED
    BY <2>3, <2>4, <2>6
<1>3. DOMAIN f = S
  OBVIOUS
<1>4. SumFunctionOnSet(f, S) \in Nat
  <2>. HIDE DEF S, f
  <2>. QED
    BY <1>1, <1>2, SumNat
<1>5. from_le_bytes(n) = SumFunctionOnSet(f, DOMAIN f)
  BY DEF from_le_bytes, SumFunction
<1>6. QED
  BY <1>3, <1>4, <1>5

\* A set of numbers with a bound has a largest one.
LEMMA MaxExists ==
  ASSUME NEW b \in Nat, NEW S \in SUBSET (0..b), S # {}
  PROVE  Max(S) \in S /\ \A y \in S : y <= Max(S)
<1>. DEFINE T == {n \in Nat : \A U \in SUBSET (0..n) :
                    U # {} => \E x \in U : \A y \in U : x >= y}
<1>1. 0 \in T
  <2>1. ASSUME NEW U \in SUBSET (0..0), U # {} PROVE \E x \in U : \A y \in U : x >= y
    <3>1. \A x \in U : x = 0
      OBVIOUS
    <3>2. PICK x \in U : TRUE
      BY <2>1
    <3>3. \A y \in U : x >= y
      BY <3>1
    <3>4. QED
      BY <3>3
  <2>2. QED
    BY <2>1
<1>2. ASSUME NEW n \in Nat, n \in T PROVE n + 1 \in T
  <2>1. ASSUME NEW U \in SUBSET (0..n + 1), U # {} PROVE \E x \in U : \A y \in U : x >= y
    <3>1. CASE n + 1 \in U
      BY <3>1
    <3>2. CASE n + 1 \notin U
      <4>1. U \in SUBSET (0..n)
        BY <3>2
      <4>2. QED
        BY <1>2, <2>1, <4>1
    <3>3. QED
      BY <3>1, <3>2
  <2>2. QED
    BY <2>1
<1>3. Nat \subseteq T
  <2>. HIDE DEF T
  <2>. QED
    BY <1>1, <1>2, NaturalsByInduction
<1>4. \E x \in S : \A y \in S : x >= y
  BY <1>3
<1>5. Max(S) \in S /\ \A y \in S : Max(S) >= y
  BY <1>4 DEF Max
<1>6. QED
  BY <1>5

(***************************************************************************)
(* What an action leaves of the fields of the state it works on.           *)
(***************************************************************************)

Fields == {"latest", "timestamp", "cycle", "srs", "votes", "pending", "orders",
           "action_chain", "missed"}

\* The actions that follow the known and the skipped ones.
Following(known, skipped, count) == [i \in 1..count |-> known + skipped + i]

\* The start of a run adds the new actions to the pending ones.
LEMMA StartFields ==
  ASSUME NEW from, IsState(from),
         NEW skipped \in Nat, NEW actionCount \in Nat, NEW blockCount \in Nat,
         StartOn(from, skipped, actionCount, blockCount)
  PROVE  /\ DOMAIN work' = Fields
         /\ work'.latest = from.latest /\ work'.timestamp = from.timestamp
         /\ work'.cycle = from.cycle /\ work'.srs = from.srs
         /\ work'.votes = from.votes /\ work'.orders = from.orders
         /\ work'.action_chain = from.action_chain + skipped + actionCount
         /\ work'.pending =
              from.pending \o Following(from.action_chain, skipped, actionCount)
BY DEF StartOn, IsState, Fields, Following

\* What it does not pass of them is left out.
LEMMA StartLeavesOut ==
  ASSUME NEW from, IsState(from),
         NEW skipped \in Nat, NEW actionCount \in Nat, NEW blockCount \in Nat,
         StartOn(from, skipped, actionCount, blockCount)
  PROVE  work'.missed = from.missed \cup from.action_chain + 1..from.action_chain + skipped
BY DEF StartOn, IsState

\* VerifyBlock moves the latest block, its time and the cycle.
LEMMA VerifyFields ==
  ASSUME IsState(work), VerifyBlock
  PROVE  /\ DOMAIN work' = Fields
         /\ work'.latest =
              IF IsUnfinalized(blocks) THEN work.latest ELSE Append(work.latest, Head(blocks))
         /\ work'.timestamp =
              IF IsUnfinalized(blocks) THEN work.timestamp
              ELSE read_varint(Head(blocks).timestamp)
         /\ work'.cycle = Append(Shifted(work.cycle), Head(blocks).producer)
         /\ work'.srs = work.srs /\ work'.votes = work.votes
         /\ work'.orders = work.orders /\ work'.pending = work.pending
         /\ work'.action_chain = work.action_chain
         /\ work'.missed = work.missed
BY DEF VerifyBlock, IsState, Fields

\* OpenOrder moves the pending actions and the orders.
LEMMA OpenFields ==
  ASSUME IsState(work), OpenOrder
  PROVE  /\ DOMAIN work' = Fields
         /\ work'.latest = work.latest /\ work'.timestamp = work.timestamp
         /\ work'.cycle = work.cycle /\ work'.srs = work.srs
         /\ work'.votes = work.votes /\ work'.action_chain = work.action_chain
         /\ work'.missed = work.missed
         /\ work'.pending = Tail(work.pending)
         /\ work'.orders = With(work.orders, Head(work.pending), 0)
BY DEF OpenOrder, IsState, Fields

\* CloseOrder moves the pending actions and the orders.
LEMMA CloseFields ==
  ASSUME IsState(work), CloseOrder
  PROVE  /\ DOMAIN work' = Fields
         /\ work'.latest = work.latest /\ work'.timestamp = work.timestamp
         /\ work'.cycle = work.cycle /\ work'.srs = work.srs
         /\ work'.votes = work.votes /\ work'.action_chain = work.action_chain
         /\ work'.missed = work.missed
         /\ work'.pending = Tail(work.pending)
         /\ work'.orders =
              Without(work.orders, active[chain[Head(work.pending)].address])
BY DEF CloseOrder, IsState, Fields

\* CountTransfer moves the orders.
LEMMA TransferFields ==
  ASSUME IsState(work), CountTransfer
  PROVE  /\ DOMAIN work' = Fields
         /\ work'.latest = work.latest /\ work'.timestamp = work.timestamp
         /\ work'.cycle = work.cycle /\ work'.srs = work.srs
         /\ work'.votes = work.votes /\ work'.action_chain = work.action_chain
         /\ work'.missed = work.missed
         /\ work'.pending = work.pending
         /\ LET id     == active[Head(txs).to]
                inflow == work.orders[id] + ParsedValue(Head(txs))
            IN IF IsFilled(id, inflow)
                 THEN /\ work'.orders = Without(work.orders, id)
                      /\ closed' = Append(closed, Report(id, inflow))
                 ELSE /\ work'.orders = [work.orders EXCEPT ![id] = inflow]
                      /\ closed' = closed
BY DEF CountTransfer, IsState, Fields

\* CountVote moves the votes.
LEMMA VoteFields ==
  ASSUME IsState(work), CountVote
  PROVE  /\ DOMAIN work' = Fields
         /\ work'.latest = work.latest /\ work'.timestamp = work.timestamp
         /\ work'.cycle = work.cycle /\ work'.srs = work.srs
         /\ work'.orders = work.orders /\ work'.action_chain = work.action_chain
         /\ work'.missed = work.missed
         /\ work'.pending = work.pending
         /\ LET p == Head(txs).to
            IN work'.votes = With(work.votes, p, VotesOf(work.votes, p) + Head(txs).value)
BY DEF CountVote, IsState, Fields

\* FinishBlock moves the cycle, the producers and the votes, or nothing.
LEMMA FinishFields ==
  ASSUME IsState(work), FinishBlock
  PROVE  /\ DOMAIN work' = Fields
         /\ work'.latest = work.latest /\ work'.timestamp = work.timestamp
         /\ work'.orders = work.orders /\ work'.action_chain = work.action_chain
         /\ work'.missed = work.missed
         /\ work'.pending = work.pending
         /\ \/ /\ work'.cycle = work.cycle /\ work'.srs = work.srs
               /\ work'.votes = work.votes
            \/ /\ work'.cycle = <<>> /\ work'.srs \in Elected(work.votes)
               /\ work'.votes = Nothing
<1>1. CASE IsMaintenance(Len(work.latest))
  <2>1. PICK elected \in Elected(work.votes) : work' = AfterMaintenance(work, elected)
    BY <1>1 DEF FinishBlock
  <2>2. QED
    BY <2>1 DEF AfterMaintenance, IsState, Fields
<1>2. CASE ~IsMaintenance(Len(work.latest))
  BY <1>2 DEF FinishBlock, IsState, Fields
<1>3. QED
  BY <1>1, <1>2

(***************************************************************************)
(* Types.                                                                  *)
(***************************************************************************)

Reports == Seq([id : Ids, inflow : Nat])

\* The types of what the environment keeps.
EnvTyped ==
  /\ now \in 0..MaxTime
  /\ chain \in Seq(Action) /\ Len(chain) <= MaxActions
  /\ tron \in Seq(Block) /\ solid \in 0..Len(tron)

\* The types of what a run keeps.  While the contents of a block are looked at,
\* it is the latest one.
RunTyped ==
  /\ IsState(work)
  /\ pc \in {"idle", "verify", "actions", "txs"}
  /\ active \in [Addresses -> {NoId} \cup Ids]
  /\ closed \in Reports /\ blocks \in Seq(Block) /\ txs \in Seq(Tx)
  /\ pc \in {"actions", "txs"} => work.latest # <<>>

TypeInv == EnvTyped /\ IsState(state) /\ reported \in Reports /\ RunTyped

\* The types that are kept imply the type invariant.
LEMMA TypeInvImpliesTypeOK == TypeInv => TypeOK
BY DEF TypeInv, EnvTyped, RunTyped, TypeOK, Reports

RunStep ==
  \/ VerifyBlock \/ OpenOrder \/ CloseOrder \/ WalkThrough
  \/ IgnoreTx \/ CountTransfer \/ CountVote \/ FinishBlock

\* An order that is closed leaves the others as they were.
LEMMA WithoutProperties ==
  ASSUME NEW orders, NEW id
  PROVE  /\ DOMAIN Without(orders, id) = DOMAIN orders \ {id}
         /\ \A i \in DOMAIN orders \ {id} : Without(orders, id)[i] = orders[i]
         /\ \A S : orders \in [DOMAIN orders -> S]
              => Without(orders, id) \in [DOMAIN orders \ {id} -> S]
BY DEF Without

\* A function with one more entry, or with a new value for an entry it has.
LEMMA WithProperties ==
  ASSUME NEW f, NEW x, NEW v
  PROVE  /\ DOMAIN With(f, x, v) = DOMAIN f \cup {x}
         /\ With(f, x, v)[x] = v
         /\ \A y \in DOMAIN f \ {x} : With(f, x, v)[y] = f[y]
         /\ \A S : f \in [DOMAIN f -> S] /\ v \in S
              => With(f, x, v) \in [DOMAIN f \cup {x} -> S]
BY DEF With

\* The cycle stays short enough.
LEMMA ShiftedProperties ==
  ASSUME NEW cycle \in Seq(Producers), Len(cycle) <= FINALITY
  PROVE  /\ Shifted(cycle) \in Seq(Producers)
         /\ Len(Shifted(cycle)) = IF Len(cycle) = FINALITY THEN FINALITY - 1 ELSE Len(cycle)
         /\ Len(Shifted(cycle)) < FINALITY
         /\ \A i \in 1..Len(Shifted(cycle)) :
              Shifted(cycle)[i] = IF Len(cycle) = FINALITY THEN cycle[i + 1] ELSE cycle[i]
<1>1. CASE Len(cycle) = FINALITY
  <2>1. cycle # <<>>
    BY <1>1, ProgramAssumption
  <2>2. Shifted(cycle) = Tail(cycle)
    BY <1>1 DEF Shifted
  <2>3. QED
    BY <1>1, <2>1, <2>2, HeadTailProperties, ProgramAssumption
<1>2. CASE Len(cycle) # FINALITY
  BY <1>2, LenProperties, ProgramAssumption DEF Shifted
<1>3. QED
  BY <1>1, <1>2

\* VerifyBlock keeps the types.
LEMMA VerifyTyped ==
  ASSUME TypeInv, VerifyBlock
  PROVE  RunTyped'
<1>. USE DEF TypeInv, EnvTyped, RunTyped
<1>1. blocks # <<>> /\ Head(blocks) \in Block /\ blocks' \in Seq(Block)
  BY HeadTailProperties DEF VerifyBlock
<1>2. Head(blocks).producer \in Producers /\ Head(blocks).timestamp \in Nat
  BY <1>1 DEF Block
<1>3. read_varint(Head(blocks).timestamp) \in Nat
  BY <1>2, ReadIsNat
<1>4. IsState(work)'
  <2>1. work'.latest \in Seq(Block)
    <3>. DEFINE latest == work.latest
                block == Head(blocks)
    <3>1. latest \in Seq(Block) /\ block \in Block
      BY <1>1 DEF IsState
    <3>2. work'.latest = latest \/ work'.latest = Append(latest, block)
      BY VerifyFields
    <3>. HIDE DEF latest, block
    <3>3. Append(latest, block) \in Seq(Block)
      BY <3>1, AppendProperties
    <3>4. QED
      BY <3>1, <3>2, <3>3
  <2>2. work'.timestamp \in Nat
    BY <1>3, VerifyFields DEF IsState
  <2>3. work'.cycle \in Seq(Producers) /\ Len(work'.cycle) <= FINALITY
    <3>. DEFINE cycle == work.cycle
                shifted == Shifted(cycle)
                producer == Head(blocks).producer
                next == Append(shifted, producer)
    <3>1. cycle \in Seq(Producers) /\ Len(cycle) <= FINALITY
      BY DEF IsState
    <3>2. work'.cycle = next
      BY VerifyFields
    <3>3. shifted \in Seq(Producers) /\ Len(shifted) < FINALITY
      <4>. HIDE DEF cycle
      <4>. QED
        BY <3>1, ShiftedProperties
    <3>. HIDE DEF cycle, shifted
    <3>4. next \in Seq(Producers) /\ Len(next) = Len(shifted) + 1
      BY <1>2, <3>3, AppendProperties
    <3>5. Len(shifted) \in Nat
      BY <3>3, LenProperties
    <3>. HIDE DEF next
    <3>6. Len(next) <= FINALITY
      BY <3>3, <3>4, <3>5, ProgramAssumption
    <3>7. QED
      BY <3>2, <3>4, <3>6
  <2>4. QED
    BY <2>1, <2>2, <2>3, VerifyFields DEF IsState, Fields
<1>5. pc' \in {"idle", "verify", "actions", "txs"}
  BY DEF VerifyBlock, Goto
<1>6. pc' \in {"actions", "txs"} => work'.latest # <<>>
  <2>1. CASE IsUnfinalized(blocks)
    BY <2>1 DEF VerifyBlock
  <2>2. CASE ~IsUnfinalized(blocks)
    <3>. DEFINE latest == work.latest
                block == Head(blocks)
    <3>1. latest \in Seq(Block) /\ block \in Block
      BY <1>1 DEF IsState
    <3>2. work'.latest = Append(latest, block)
      BY <2>2, VerifyFields
    <3>. HIDE DEF latest, block
    <3>3. Append(latest, block) # <<>>
      BY <3>1, AppendProperties
    <3>4. QED
      BY <3>2, <3>3
  <2>3. QED
    BY <2>1, <2>2
<1>7. QED
  BY <1>1, <1>4, <1>5, <1>6 DEF VerifyBlock

\* OpenOrder keeps the types.
LEMMA OpenTyped ==
  ASSUME TypeInv, OpenOrder
  PROVE  RunTyped'
<1>. USE DEF TypeInv, EnvTyped, RunTyped
<1>1. work.pending # <<>> /\ work.pending \in Seq(Ids)
  BY DEF OpenOrder, IsDue, IsState
<1>2. Head(work.pending) \in Ids /\ Tail(work.pending) \in Seq(Ids)
  BY <1>1, HeadTailProperties
<1>3. IsState(work)'
  <2>. DEFINE orders == work.orders
              id == Head(work.pending)
              none == 0
              opened == With(orders, id, none)
  <2>1. orders \in [DOMAIN orders -> Nat] /\ DOMAIN orders \subseteq Ids /\ none \in Nat
    BY DEF IsState
  <2>2. work'.orders = opened
    BY OpenFields
  <2>3. id \in Ids
    BY <1>2
  <2>. HIDE DEF orders, id, none
  <2>4. opened \in [DOMAIN orders \cup {id} -> Nat]
    BY <2>1, WithProperties
  <2>. HIDE DEF opened
  <2>5. DOMAIN opened \subseteq Ids /\ opened \in [DOMAIN opened -> Nat]
    BY <2>1, <2>3, <2>4
  <2>6. DOMAIN work'.orders \subseteq Ids /\ work'.orders \in [DOMAIN work'.orders -> Nat]
    BY <2>2, <2>5
  <2>7. QED
    BY <1>2, <2>6, OpenFields DEF IsState, Fields
<1>4. active' \in [Addresses -> {NoId} \cup Ids]
  BY <1>2 DEF OpenOrder
<1>5. QED
  BY <1>3, <1>4, OpenFields DEF OpenOrder

\* CloseOrder keeps the types.
LEMMA CloseTyped ==
  ASSUME TypeInv, CloseOrder
  PROVE  RunTyped'
<1>. USE DEF TypeInv, EnvTyped, RunTyped
<1>1. work.pending # <<>> /\ work.pending \in Seq(Ids)
  BY DEF CloseOrder, IsDue, IsState
<1>2. Tail(work.pending) \in Seq(Ids)
  BY <1>1, HeadTailProperties
<1>. DEFINE orders == work.orders
            id == active[chain[Head(work.pending)].address]
            left == Without(orders, id)
<1>3. orders \in [DOMAIN orders -> Nat] /\ DOMAIN orders \subseteq Ids
  BY DEF IsState
<1>4. IsState(work)'
  <2>1. work'.orders = left
    BY CloseFields
  <2>. HIDE DEF orders, id
  <2>2. DOMAIN left = DOMAIN orders \ {id} /\ left \in [DOMAIN orders \ {id} -> Nat]
    BY <1>3, WithoutProperties
  <2>. HIDE DEF left
  <2>3. DOMAIN left \subseteq Ids /\ left \in [DOMAIN left -> Nat]
    BY <1>3, <2>2
  <2>4. DOMAIN work'.orders \subseteq Ids /\ work'.orders \in [DOMAIN work'.orders -> Nat]
    BY <2>1, <2>3
  <2>5. QED
    BY <1>2, <2>4, CloseFields DEF IsState, Fields
<1>5. active' \in [Addresses -> {NoId} \cup Ids]
  BY DEF CloseOrder
<1>6. closed' \in Reports
  <2>1. CASE id \in DOMAIN orders
    <3>1. Report(id, orders[id]) \in [id : Ids, inflow : Nat]
      BY <1>3, <2>1 DEF Report
    <3>2. closed' = Append(closed, Report(id, orders[id]))
      BY <2>1 DEF CloseOrder
    <3>3. QED
      BY <3>1, <3>2, AppendProperties DEF Reports
  <2>2. CASE id \notin DOMAIN orders
    BY <2>2 DEF CloseOrder
  <2>3. QED
    BY <2>1, <2>2
<1>7. QED
  BY <1>4, <1>5, <1>6, CloseFields DEF CloseOrder

\* WalkThrough keeps the types.
LEMMA WalkTyped ==
  ASSUME TypeInv, WalkThrough
  PROVE  RunTyped'
<1>. USE DEF TypeInv, EnvTyped, RunTyped
<1>1. work.latest # <<>> /\ work.latest \in Seq(Block)
  BY DEF WalkThrough, IsState
<1>2. Last(work.latest).txs \in Seq(Tx)
  <2>1. Last(work.latest) \in Block
    BY <1>1, LenProperties, ElementOfSeq DEF Last
  <2>2. QED
    BY <2>1 DEF Block
<1>3. txs' \in PassedLists \cup {Last(work.latest).txs}
  BY DEF WalkThrough
<1>4. txs' \in Seq(Tx)
  BY <1>2, <1>3, ProgramAssumption
<1>5. QED
  BY <1>1, <1>4 DEF WalkThrough, Goto

\* IgnoreTx keeps the types.
LEMMA IgnoreTyped ==
  ASSUME TypeInv, IgnoreTx
  PROVE  RunTyped'
<1>. USE DEF TypeInv, EnvTyped, RunTyped
<1>1. txs' \in Seq(Tx)
  BY HeadTailProperties DEF IgnoreTx, NextTx
<1>2. QED
  BY <1>1 DEF IgnoreTx

\* The value of a transfer that is looked at is a number.
LEMMA HeadValueIsNat ==
  ASSUME TypeInv, txs # <<>>
  PROVE  ParsedValue(Head(txs)) \in Nat
<1>1. Head(txs) \in Tx
  BY HeadTailProperties DEF TypeInv, RunTyped
<1>2. Head(txs).value \in Nat
  BY <1>1 DEF Tx
<1>3. QED
  BY <1>2, ValueIsNat DEF ParsedValue

\* CountTransfer keeps the types.
LEMMA TransferTyped ==
  ASSUME TypeInv, CountTransfer
  PROVE  RunTyped'
<1>. USE DEF TypeInv, EnvTyped, RunTyped
<1>. DEFINE orders == work.orders
            id == active[Head(txs).to]
            inflow == orders[id] + ParsedValue(Head(txs))
            left == Without(orders, id)
            counted == [orders EXCEPT ![id] = inflow]
<1>1. txs # <<>> /\ id \in DOMAIN orders
  BY DEF CountTransfer
<1>2. txs' \in Seq(Tx)
  BY <1>1, HeadTailProperties DEF CountTransfer, NextTx
<1>3. ParsedValue(Head(txs)) \in Nat
  BY <1>1, HeadValueIsNat
<1>4. orders \in [DOMAIN orders -> Nat] /\ DOMAIN orders \subseteq Ids
  BY DEF IsState
<1>5. inflow \in Nat
  BY <1>1, <1>3, <1>4
<1>6. \/ work'.orders = left /\ closed' = Append(closed, Report(id, inflow))
      \/ work'.orders = counted /\ closed' = closed
  BY TransferFields
<1>7. work'.orders \in [DOMAIN work'.orders -> Nat] /\ DOMAIN work'.orders \subseteq Ids
  <2>. HIDE DEF orders, id, inflow
  <2>1. DOMAIN left = DOMAIN orders \ {id} /\ left \in [DOMAIN orders \ {id} -> Nat]
    BY <1>4, WithoutProperties
  <2>2. DOMAIN counted = DOMAIN orders /\ counted \in [DOMAIN orders -> Nat]
    BY <1>4, <1>5
  <2>. HIDE DEF left, counted
  <2>3. QED
    BY <1>4, <1>6, <2>1, <2>2
<1>8. closed' \in Reports
  <2>1. Report(id, inflow) \in [id : Ids, inflow : Nat]
    BY <1>1, <1>4, <1>5 DEF Report
  <2>. HIDE DEF id, inflow
  <2>2. Append(closed, Report(id, inflow)) \in Reports
    BY <2>1, AppendProperties DEF Reports
  <2>3. QED
    BY <1>6, <2>2
<1>9. IsState(work)'
  BY <1>7, TransferFields DEF IsState, Fields
<1>10. QED
  BY <1>2, <1>8, <1>9, TransferFields DEF CountTransfer

\* CountVote keeps the types.
LEMMA VoteTyped ==
  ASSUME TypeInv, CountVote
  PROVE  RunTyped'
<1>. USE DEF TypeInv, EnvTyped, RunTyped
<1>. DEFINE votes == work.votes
            p == Head(txs).to
            count == VotesOf(votes, p) + Head(txs).value
            counted == With(votes, p, count)
<1>1. txs # <<>>
  BY DEF CountVote
<1>2. Head(txs) \in Tx /\ txs' \in Seq(Tx)
  BY <1>1, HeadTailProperties DEF CountVote, NextTx
<1>3. Head(txs).value \in Nat /\ p \in Producers
  BY <1>2 DEF Tx, CountVote, ParsesAsVote
<1>4. votes \in [DOMAIN votes -> Nat] /\ DOMAIN votes \subseteq Producers
  BY DEF IsState
<1>5. count \in Nat
  <2>1. VotesOf(votes, p) \in Nat
    <3>. HIDE DEF votes
    <3>. QED
      BY <1>4 DEF VotesOf
  <2>2. QED
    BY <1>3, <2>1
<1>6. work'.votes = counted
  BY VoteFields
<1>7. work'.votes \in [DOMAIN work'.votes -> Nat] /\ DOMAIN work'.votes \subseteq Producers
  <2>1. p \in Producers
    BY <1>3
  <2>. HIDE DEF votes, p, count
  <2>2. counted \in [DOMAIN votes \cup {p} -> Nat]
    BY <1>4, <1>5, WithProperties
  <2>. HIDE DEF counted
  <2>3. QED
    BY <1>4, <1>6, <2>1, <2>2
<1>8. IsState(work)'
  BY <1>7, VoteFields DEF IsState, Fields
<1>9. QED
  BY <1>2, <1>8, VoteFields DEF CountVote

\* FinishBlock keeps the types.
LEMMA FinishTyped ==
  ASSUME TypeInv, FinishBlock
  PROVE  RunTyped'
<1>. USE DEF TypeInv, EnvTyped, RunTyped
<1>1. IsState(work)'
  <2>1. Elected(work.votes) \subseteq SUBSET Producers
    BY DEF Elected, IsState
  <2>2. DOMAIN Nothing = {} /\ Nothing \in [DOMAIN Nothing -> Nat]
    BY DEF Nothing
  <2>3. <<>> \in Seq(Producers) /\ Len(<<>>) <= FINALITY
    BY ProgramAssumption
  <2>4. work'.cycle \in Seq(Producers) /\ Len(work'.cycle) <= FINALITY
    BY <2>3, FinishFields DEF IsState
  <2>5. work'.srs \subseteq Producers
    BY <2>1, FinishFields DEF IsState
  <2>6. DOMAIN work'.votes \subseteq Producers /\ work'.votes \in [DOMAIN work'.votes -> Nat]
    BY <2>2, FinishFields DEF IsState
  <2>7. QED
    BY <2>4, <2>5, <2>6, FinishFields DEF IsState, Fields
<1>2. QED
  BY <1>1 DEF FinishBlock, Goto

\* A step of a run keeps the types.
LEMMA StepTyped ==
  ASSUME TypeInv, RunStep
  PROVE  TypeInv'
<1>1. RunTyped'
  BY VerifyTyped, OpenTyped, CloseTyped, WalkTyped, IgnoreTyped, TransferTyped, VoteTyped,
     FinishTyped DEF RunStep
<1>2. UNCHANGED <<env, state, reported>>
  BY DEF RunStep, VerifyBlock, OpenOrder, CloseOrder, WalkThrough, IgnoreTx, CountTransfer,
         CountVote, FinishBlock
<1>3. QED
  BY <1>1, <1>2 DEF TypeInv, EnvTyped, env

\* A run that starts from a state of the right type has the right types.
LEMMA StartTyped ==
  ASSUME TypeInv, NEW from, IsState(from),
         NEW skipped \in Nat, NEW actionCount \in Nat, NEW blockCount \in Nat,
         StartOn(from, skipped, actionCount, blockCount)
  PROVE  RunTyped'
<1>. USE DEF TypeInv, EnvTyped, RunTyped
<1>. DEFINE known == from.action_chain
            last == known + skipped + actionCount
            pending == from.pending
            news == Following(known, skipped, actionCount)
            height == Len(from.latest)
<1>1. known \in Nat /\ last <= Len(chain) /\ Len(chain) \in Nat
  BY LenProperties DEF StartOn, IsState
<1>2. last \in 0..MaxActions
  <2>1. Len(chain) <= MaxActions /\ MaxActions \in Nat
    BY ProgramAssumption
  <2>. HIDE DEF known
  <2>2. QED
    BY <1>1, <2>1
<1>3. news \in Seq(Ids)
  <2>. HIDE DEF known
  <2>1. \A i \in 1..actionCount : known + skipped + i \in Ids
    <3>1. MaxActions \in Nat
      BY ProgramAssumption
    <3>2. QED
      BY <1>1, <1>2, <3>1 DEF Ids
  <2>2. news \in [1..actionCount -> Ids]
    BY <2>1 DEF Following
  <2>. HIDE DEF news
  <2>3. QED
    BY <2>2
<1>4. work'.pending \in Seq(Ids)
  <2>1. pending \in Seq(Ids)
    BY DEF IsState
  <2>2. work'.pending = pending \o news
    BY StartFields, Zenon
  <2>. HIDE DEF pending, news
  <2>3. QED
    BY <1>3, <2>1, <2>2, ConcatProperties
<1>5. IsState(work)'
  <2>. DEFINE end == work'.action_chain
              ids == work'.pending
              left == work'.missed
  <2>1. end \in 0..MaxActions
    <3>1. end = last
      BY StartFields
    <3>2. QED
      BY <1>2, <3>1
  <2>2. left \subseteq Ids
    <3>1. left = from.missed \cup known + 1..known + skipped /\ from.missed \subseteq Ids
      BY StartLeavesOut DEF IsState
    <3>. HIDE DEF known
    <3>2. known + 1..known + skipped \subseteq Ids
      BY <1>1, <1>2, ProgramAssumption DEF Ids
    <3>3. QED
      BY <3>1, <3>2
  <2>. HIDE DEF end, ids, left, known
  <2>3. IsState(from) /\ ids \in Seq(Ids)
    BY <1>4 DEF ids
  <2>4. QED
    BY <2>1, <2>2, <2>3, StartFields DEF IsState, Fields, end, ids, left
<1>6. blocks' \in Seq(Block)
  <2>1. height \in Nat /\ height + blockCount <= Len(tron) /\ Len(tron) \in Nat
    BY LenProperties DEF StartOn, IsState
  <2>2. blocks' = SubSeq(tron, height + 1, height + blockCount)
    BY DEF StartOn
  <2>. HIDE DEF height
  <2>3. \A i \in height + 1..height + blockCount : tron[i] \in Block
    BY <2>1, ElementOfSeq
  <2>4. QED
    BY <2>1, <2>2, <2>3, SubSeqProperties
<1>7. QED
  BY <1>5, <1>6 DEF StartOn, Goto

\* Nothing is left of a run when it is over.
LEMMA ForgetTyped ==
  ASSUME TypeInv, NEW proven, IsState(proven), Forget(proven)
  PROVE  RunTyped'
BY DEF TypeInv, RunTyped, Forget, Goto, NoneActive, Reports

\* AppendAction keeps the types.
LEMMA AppendTyped ==
  ASSUME TypeInv, NEW address \in Addresses, NEW size \in Sizes, AppendAction(address, size)
  PROVE  TypeInv'
<1>. USE DEF TypeInv, EnvTyped, RunTyped
<1>1. PICK t \in Times : /\ now' = t
                         /\ chain' = Append(chain, [timestamp |-> t, address |-> address,
                                                    size |-> size])
  BY DEF AppendAction
<1>2. t \in 0..MaxTime /\ t \in Nat
  BY ProgramAssumption DEF Times
<1>. DEFINE action == [timestamp |-> t, address |-> address, size |-> size]
<1>3. action \in Action
  BY <1>2, ProgramAssumption DEF Action
<1>4. chain' \in Seq(Action) /\ Len(chain') <= MaxActions
  <2>. HIDE DEF action
  <2>1. chain' = Append(chain, action)
    BY <1>1 DEF action
  <2>2. Len(chain) < MaxActions /\ Len(chain) \in Nat
    BY LenProperties DEF AppendAction
  <2>3. QED
    BY <1>3, <2>1, <2>2, AppendProperties, ProgramAssumption
<1>5. QED
  BY <1>1, <1>2, <1>4 DEF AppendAction, run

\* The number of blocks that Tron will not take back is a number of blocks.
LEMMA SolidType ==
  ASSUME NEW t \in Seq(Block), NEW s \in 0..Len(t)
  PROVE  /\ Max({s} \cup Solidified(t)) \in 0..Len(t)
         /\ s <= Max({s} \cup Solidified(t))
         /\ \A n \in Solidified(t) : n <= Max({s} \cup Solidified(t))
<1>. DEFINE S == {s} \cup Solidified(t)
            b == Len(t)
<1>1. b \in Nat
  BY LenProperties
<1>2. S \in SUBSET (0..b) /\ S # {}
  BY <1>1 DEF Solidified
<1>3. s \in S /\ Solidified(t) \subseteq S
  OBVIOUS
<1>. HIDE DEF S, b
<1>4. Max(S) \in S /\ \A y \in S : y <= Max(S)
  BY <1>1, <1>2, MaxExists
<1>5. Max(S) \in 0..b /\ s <= Max(S) /\ \A n \in Solidified(t) : n <= Max(S)
  BY <1>2, <1>3, <1>4
<1>6. QED
  BY <1>5 DEF S, b

\* ProduceBlock keeps the types.
LEMMA ProduceTyped ==
  ASSUME TypeInv, NEW producer \in Producers, NEW list \in TxLists,
         ProduceBlock(producer, list)
  PROVE  TypeInv'
<1>. USE DEF TypeInv, EnvTyped, RunTyped
<1>1. PICK t \in Times : /\ now' = t
                         /\ tron' = Append(tron, [timestamp |-> t, producer |-> producer,
                                                  txs |-> list])
  BY DEF ProduceBlock
<1>2. t \in 0..MaxTime /\ t \in Nat
  <2>1. now \in Nat /\ MaxTime \in Nat
    BY ProgramAssumption
  <2>2. t <= MaxTime /\ (t = now \/ t = now + 1)
    BY DEF Times
  <2>3. QED
    BY <2>1, <2>2
<1>. DEFINE block == [timestamp |-> t, producer |-> producer, txs |-> list]
<1>3. block \in Block
  BY <1>2, ProgramAssumption DEF Block
<1>4. tron' \in Seq(Block) /\ Len(tron') = Len(tron) + 1
  <2>. HIDE DEF block
  <2>1. tron' = Append(tron, block)
    BY <1>1 DEF block
  <2>2. QED
    BY <1>3, <2>1, AppendProperties
<1>5. Len(tron) \in Nat /\ solid \in 0..Len(tron')
  BY <1>4, LenProperties
<1>6. solid' \in 0..Len(tron')
  BY <1>4, <1>5, SolidType DEF ProduceBlock
<1>7. QED
  BY <1>1, <1>2, <1>4, <1>6 DEF ProduceBlock, run

\* Reorganize keeps the types.
LEMMA ReorganizeTyped ==
  ASSUME TypeInv, NEW n \in Nat, Reorganize(n)
  PROVE  TypeInv'
<1>. USE DEF TypeInv, EnvTyped, RunTyped
<1>1. n < Len(tron) /\ solid <= n /\ Len(tron) \in Nat
  BY LenProperties DEF Reorganize
<1>2. \A i \in 1..n : tron[i] \in Block
  BY <1>1, ElementOfSeq
<1>3. SubSeq(tron, 1, n) \in Seq(Block) /\ Len(SubSeq(tron, 1, n)) = n
  BY <1>2, SubSeqProperties
<1>4. QED
  BY <1>1, <1>3 DEF Reorganize, run

\* The initial types.
LEMMA TypedInit == Init => TypeInv
<1>. SUFFICES ASSUME Init PROVE TypeInv
  OBVIOUS
<1>. DEFINE first == [latest |-> <<>>, timestamp |-> 0, cycle |-> <<>>,
                      srs |-> InitialSRs, votes |-> Nothing, pending |-> <<>>,
                      orders |-> Nothing, action_chain |-> 0, missed |-> {}]
<1>1. DOMAIN first = Fields
  BY DEF Fields
<1>2. Nothing \in [DOMAIN Nothing -> Nat] /\ DOMAIN Nothing = {}
  BY DEF Nothing
<1>3. IsState(first)
  BY <1>1, <1>2, ProgramAssumption DEF IsState, Fields
<1>4. state = first /\ work = first
  BY DEF Init
<1>. HIDE DEF first
<1>5. EnvTyped
  BY ProgramAssumption DEF Init, EnvTyped
<1>6. RunTyped
  <2>1. active \in [Addresses -> {NoId} \cup Ids]
    BY DEF Init, NoneActive
  <2>2. IsState(work) /\ pc = "idle"
    BY <1>3, <1>4 DEF Init
  <2>3. closed = <<>> /\ blocks = <<>> /\ txs = <<>>
    BY DEF Init
  <2>4. QED
    BY <2>1, <2>2, <2>3 DEF RunTyped, Reports
<1>7. IsState(state) /\ reported = <<>>
  BY <1>3, <1>4 DEF Init
<1>8. QED
  BY <1>5, <1>6, <1>7 DEF TypeInv, Reports

\* Every step keeps the types.
LEMMA TypedNext ==
  ASSUME TypeInv, [Next]_vars
  PROVE  TypeInv'
<1>1. ASSUME NEW address \in Addresses, NEW size \in Sizes, AppendAction(address, size)
      PROVE  TypeInv'
  BY <1>1, AppendTyped
<1>2. ASSUME NEW producer \in Producers, NEW list \in TxLists, ProduceBlock(producer, list)
      PROVE  TypeInv'
  BY <1>2, ProduceTyped
<1>3. ASSUME NEW n \in 0..MaxBlocks, Reorganize(n) PROVE TypeInv'
  BY <1>3, ReorganizeTyped
<1>4. ASSUME NEW skipped \in 0..MaxActions, NEW actionCount \in 0..MaxActions,
             NEW blockCount \in 1..MaxBlocks, Start(skipped, actionCount, blockCount)
      PROVE  TypeInv'
  <2>1. PICK from : from = state
    OBVIOUS
  <2>2. IsState(from) /\ StartOn(from, skipped, actionCount, blockCount)
    BY <1>4, <2>1 DEF Start, TypeInv
  <2>3. RunTyped'
    BY <2>2, StartTyped
  <2>4. UNCHANGED <<env, state, reported>>
    BY <1>4 DEF Start, StartOn
  <2>5. QED
    BY <2>3, <2>4 DEF TypeInv, EnvTyped, env
<1>5. CASE RunStep
  BY <1>5, StepTyped
<1>6. CASE Commit
  <2>1. PICK proven : proven = work
    OBVIOUS
  <2>2. IsState(proven) /\ Forget(proven)
    BY <1>6, <2>1 DEF Commit, TypeInv, RunTyped
  <2>3. RunTyped'
    BY <2>2, ForgetTyped
  <2>4. reported' \in Reports
    BY <1>6, ConcatProperties DEF Commit, TypeInv, RunTyped, Reports
  <2>5. QED
    BY <1>6, <2>3, <2>4 DEF Commit, TypeInv, EnvTyped, RunTyped, env
<1>7. CASE Abort
  <2>1. PICK proven : proven = state
    OBVIOUS
  <2>2. IsState(proven) /\ Forget(proven)
    BY <1>7, <2>1 DEF Abort, TypeInv
  <2>3. RunTyped'
    BY <2>2, ForgetTyped
  <2>4. QED
    BY <1>7, <2>3 DEF Abort, TypeInv, EnvTyped, env
<1>8. CASE UNCHANGED vars
  BY <1>8 DEF vars, env, run, TypeInv, EnvTyped, RunTyped
<1>9. QED
  BY <1>1, <1>2, <1>3, <1>4, <1>5, <1>6, <1>7, <1>8
     DEF Next, Environment, Program, RunStep

\* The types hold in every state.
LEMMA AlwaysTyped == Spec => []TypeInv
BY TypedInit, TypedNext, PTL DEF Spec

\* Every variable has its type in every behaviour of the program, and a state
\* never remembers more than FINALITY producers.
THEOREM TypeCorrect == Spec => []TypeOK
BY AlwaysTyped, TypeInvImpliesTypeOK, PTL

(***************************************************************************)
(* The ledger of actions and orders.                                       *)
(*                                                                         *)
(* A state knows actions up to action_chain; those before the first        *)
(* pending one are behind it, and those between two pending ones were left *)
(* out.  An action that was not is looked at once, and its ID is then      *)
(* either that of an open order, or of a reported one, or of a closure.    *)
(***************************************************************************)

\* The last of the actions that are behind a state.
Behind(s) == IF s.pending = <<>> THEN s.action_chain ELSE Head(s.pending) - 1

\* The actions of the contract are in the order of their times.
ChainInOrder ==
  /\ \A i \in DOMAIN chain : chain[i].timestamp <= now
  /\ \A i, j \in DOMAIN chain : i < j => chain[i].timestamp <= chain[j].timestamp

\* The pending actions are those, in their order, that were not left out between the
\* ones behind a state and the last one it knows.
PendingInOrder(s) ==
  /\ \A k \in DOMAIN s.pending :
       s.pending[k] \in Behind(s) + 1..s.action_chain /\ s.pending[k] \notin s.missed
  /\ \A k, l \in DOMAIN s.pending : k < l => s.pending[k] < s.pending[l]
  /\ \A i \in Behind(s) + 1..s.action_chain :
       i \in s.missed \/ \E k \in DOMAIN s.pending : s.pending[k] = i
  /\ \A i \in s.missed : i <= s.action_chain

\* A state knows actions of the contract; its orders were opened by actions
\* behind it.
Ledger(s) ==
  /\ s.action_chain <= Len(chain)
  /\ PendingInOrder(s)
  /\ \A id \in DOMAIN s.orders : id <= Behind(s)

\* Every action that is not later than the blocks of a state is behind it.
UpToDate(s) ==
  /\ s.timestamp < now
  /\ \A i \in DOMAIN chain : chain[i].timestamp <= s.timestamp => i <= Behind(s)

\* What a run from one state to another may report: orders that were open in the
\* first or that it opened itself, that are not open in the second, each once.
MayReport(old, new) == DOMAIN old.orders \cup Behind(old) + 1..Behind(new)

Settles(old, new, reports) ==
  /\ Behind(old) <= Behind(new)
  /\ DOMAIN new.orders \subseteq MayReport(old, new)
  /\ \A i \in DOMAIN reports :
       reports[i].id \in MayReport(old, new) /\ reports[i].id \notin DOMAIN new.orders
  /\ \A i, j \in DOMAIN reports : reports[i].id = reports[j].id => i = j

\* An active address has an action of its own behind the state.
Listens ==
  \A a \in Addresses : active[a] # NoId =>
    /\ active[a] \in DOMAIN chain \ work.missed /\ active[a] <= Behind(work)
    /\ chain[active[a]].address = a

\* The run so far, as the ledger sees it.
RunLedger ==
  /\ Ledger(work) /\ Settles(state, work, closed) /\ Listens
  /\ pc \in {"verify", "txs"} => UpToDate(work)

\* What is behind a state is part of what it knows.
LEMMA BehindType ==
  ASSUME NEW s, IsState(s), Ledger(s)
  PROVE  /\ Behind(s) \in Nat /\ Len(s.pending) \in Nat /\ s.action_chain \in Nat
         /\ Behind(s) <= s.action_chain
         /\ DOMAIN s.pending = 1..Len(s.pending)
<1>. DEFINE pending == s.pending
            known == s.action_chain
<1>1. pending \in Seq(Ids) /\ known \in Nat
  BY DEF IsState
<1>2. Len(pending) \in Nat /\ DOMAIN pending = 1..Len(pending)
  BY <1>1, LenProperties
<1>3. CASE pending = <<>>
  BY <1>1, <1>2, <1>3 DEF Behind
<1>4. CASE pending # <<>>
  <2>1. 1 \in DOMAIN pending /\ Head(pending) = pending[1] /\ pending[1] \in Ids
    <3>. HIDE DEF pending
    <3>1. Len(pending) # 0
      BY <1>1, <1>4, EmptySeq
    <3>2. 1 \in DOMAIN pending
      BY <1>2, <3>1
    <3>3. QED
      BY <1>1, <1>2, <1>4, <3>2, ElementOfSeq
  <2>2. pending[1] \in Nat /\ 1 <= pending[1]
    BY <2>1 DEF Ids
  <2>3. Behind(s) = pending[1] - 1
    BY <1>4, <2>1 DEF Behind
  <2>4. pending[1] <= known
    BY <2>1 DEF Ledger, PendingInOrder
  <2>. HIDE DEF pending, known
  <2>5. Behind(s) \in Nat /\ Behind(s) <= known
    BY <1>1, <2>2, <2>3, <2>4
  <2>6. QED
    BY <1>1, <1>2, <2>5 DEF pending, known
<1>5. QED
  BY <1>3, <1>4

\* The orders of a state are numbers of actions behind it.
LEMMA OrdersAreBehind ==
  ASSUME NEW s, IsState(s), Ledger(s)
  PROVE  \A id \in DOMAIN s.orders : id <= Behind(s) /\ id \in Nat
<1>1. \A id \in DOMAIN s.orders : id <= Behind(s)
  BY DEF Ledger
<1>2. \A id \in DOMAIN s.orders : id \in Nat
  BY DEF IsState, Ids
<1>3. QED
  BY <1>1, <1>2

\* The first pending action is the one after those behind the state.
LEMMA HeadIsNext ==
  ASSUME NEW s, IsState(s), Ledger(s), s.pending # <<>>
  PROVE  /\ Head(s.pending) = Behind(s) + 1 /\ Behind(s) + 1 <= s.action_chain
         /\ Head(s.pending) \notin s.missed /\ Head(s.pending) = s.pending[1]
         /\ Len(s.pending) >= 1
<1>. DEFINE pending == s.pending
<1>1. pending \in Seq(Ids) /\ Behind(s) = Head(pending) - 1
  BY DEF IsState, Behind
<1>. HIDE DEF pending
<1>2. Len(pending) \in Nat /\ DOMAIN pending = 1..Len(pending) /\ Len(pending) # 0
  BY <1>1, LenProperties, EmptySeq DEF pending
<1>3. 1 \in DOMAIN pending /\ Head(pending) = pending[1] /\ pending[1] \in Ids
  BY <1>1, <1>2, ElementOfSeq DEF pending
<1>4. pending[1] <= s.action_chain /\ pending[1] \notin s.missed
  BY <1>3 DEF Ledger, PendingInOrder, pending
<1>5. pending[1] \in Nat
  BY <1>3 DEF Ids
<1>6. Behind(s) + 1 = pending[1]
  BY <1>1, <1>3, <1>5
<1>7. QED
  BY <1>2, <1>3, <1>4, <1>6 DEF pending

\* A state without its first pending action: what else comes to be behind it was
\* left out.
LEMMA NextBehind ==
  ASSUME NEW s, IsState(s), Ledger(s), s.pending # <<>>,
         NEW t, t.pending = Tail(s.pending), t.action_chain = s.action_chain,
         t.missed = s.missed
  PROVE  /\ Behind(t) \in Nat /\ Behind(s) + 1 <= Behind(t) /\ Behind(t) <= s.action_chain
         /\ PendingInOrder(t)
         /\ \A i \in Behind(s) + 2..Behind(t) : i \in s.missed
<1>. DEFINE pending == s.pending
            tail == t.pending
            known == s.action_chain
            behind == Behind(s)
            after == Behind(t)
            n == Len(pending) - 1
<1>1. /\ behind \in Nat /\ Len(pending) \in Nat /\ known \in Nat
      /\ DOMAIN pending = 1..Len(pending)
  BY BehindType
<1>2. pending[1] = behind + 1 /\ behind + 1 <= known /\ Len(pending) >= 1
  BY HeadIsNext
<1>3. /\ \A k \in DOMAIN pending : pending[k] \in behind + 1..known /\ pending[k] \notin s.missed
      /\ \A k, l \in DOMAIN pending : k < l => pending[k] < pending[l]
      /\ \A i \in behind + 1..known : i \in s.missed \/ \E k \in DOMAIN pending : pending[k] = i
      /\ \A i \in s.missed : i <= known
  BY DEF Ledger, PendingInOrder
<1>4. /\ tail \in Seq(Ids) /\ Len(tail) = n /\ DOMAIN tail = 1..n
      /\ \A k \in 1..n : tail[k] = pending[k + 1]
  <2>1. PICK p : p = pending
    OBVIOUS
  <2>2. p \in Seq(Ids) /\ p # <<>>
    BY <2>1 DEF IsState
  <2>3. PICK q : q = Tail(p)
    OBVIOUS
  <2>4. q \in Seq(Ids) /\ Len(q) = Len(p) - 1 /\ \A k \in 1..Len(p) - 1 : q[k] = p[k + 1]
    BY <2>2, <2>3, HeadTailProperties
  <2>5. DOMAIN q = 1..Len(q)
    BY <2>4, LenProperties
  <2>6. tail = q
    BY <2>1, <2>3
  <2>7. QED
    BY <2>1, <2>4, <2>5, <2>6
<1>5. tail = <<>> => after = known
  BY DEF Behind
<1>6. tail # <<>> => after = Head(tail) - 1
  BY DEF Behind
<1>7. t.action_chain = known /\ t.missed = s.missed
  OBVIOUS
<1>. HIDE DEF pending, tail, known, behind, after, n
<1>8. n \in Nat /\ Len(pending) = n + 1
  BY <1>1, <1>2 DEF n
<1>9. \A k \in 1..n : k + 1 \in DOMAIN pending /\ 1 \in DOMAIN pending
  BY <1>1, <1>8
<1>10. \A k \in 1..n : tail[k] \in behind + 2..known /\ tail[k] \notin s.missed
  <2>1. ASSUME NEW k \in 1..n PROVE tail[k] \in behind + 2..known /\ tail[k] \notin s.missed
    <3>1. tail[k] = pending[k + 1] /\ k + 1 \in DOMAIN pending /\ 1 \in DOMAIN pending /\ 1 < k + 1
      BY <1>4, <1>9
    <3>2. pending[1] < pending[k + 1] /\ pending[k + 1] \in behind + 1..known
          /\ pending[k + 1] \notin s.missed
      BY <1>3, <3>1
    <3>3. QED
      BY <1>1, <1>2, <3>1, <3>2
  <2>2. QED
    BY <2>1
<1>11. \A k, l \in 1..n : k < l => tail[k] < tail[l]
  <2>1. ASSUME NEW k \in 1..n, NEW l \in 1..n, k < l PROVE tail[k] < tail[l]
    <3>1. k + 1 \in DOMAIN pending /\ l + 1 \in DOMAIN pending /\ k + 1 < l + 1
      BY <1>8, <1>9, <2>1
    <3>2. QED
      BY <1>3, <1>4, <3>1
  <2>2. QED
    BY <2>1
<1>12. \A i \in behind + 2..known : i \in s.missed \/ \E k \in 1..n : tail[k] = i
  <2>1. ASSUME NEW i \in behind + 2..known, i \notin s.missed PROVE \E k \in 1..n : tail[k] = i
    <3>1. i \in behind + 1..known
      BY <1>1, <2>1
    <3>2. PICK k \in DOMAIN pending : pending[k] = i
      BY <1>3, <2>1, <3>1
    <3>3. k # 1
      BY <1>1, <1>2, <2>1, <3>2
    <3>4. k - 1 \in 1..n /\ (k - 1) + 1 = k
      BY <1>1, <1>8, <3>3
    <3>5. QED
      BY <1>4, <3>2, <3>4
  <2>2. QED
    BY <2>1
<1>13. /\ after \in Nat /\ behind + 1 <= after /\ after <= known
       /\ \A k \in 1..n : after < tail[k]
       /\ \A i \in behind + 2..after : i \in s.missed
  <2>1. CASE tail = <<>>
    <3>1. n = 0 /\ after = known
      BY <1>4, <1>5, <2>1, EmptySeq
    <3>2. QED
      BY <1>1, <1>2, <1>12, <3>1
  <2>2. CASE tail # <<>>
    <3>1. 1 \in 1..n /\ Head(tail) = tail[1]
      BY <1>4, <1>8, <2>2, EmptySeq
    <3>2. tail[1] \in behind + 2..known /\ after = tail[1] - 1
      BY <1>6, <1>10, <2>2, <3>1
    <3>3. after \in Nat /\ behind + 1 <= after /\ after <= known
      BY <1>1, <3>2
    <3>4. ASSUME NEW k \in 1..n PROVE tail[1] <= tail[k]
      <4>1. CASE k = 1
        BY <1>1, <3>2, <4>1
      <4>2. CASE 1 < k
        <5>1. tail[1] < tail[k] /\ tail[k] \in behind + 2..known
          BY <1>10, <1>11, <3>1, <4>2
        <5>2. QED
          BY <1>1, <3>2, <5>1
      <4>3. QED
        BY <1>8, <4>1, <4>2
    <3>5. ASSUME NEW k \in 1..n PROVE after < tail[k]
      <4>1. tail[k] \in behind + 2..known
        BY <1>10
      <4>2. QED
        BY <1>1, <3>2, <3>4, <4>1
    <3>6. ASSUME NEW i \in behind + 2..after PROVE i \in s.missed
      <4>1. i \in behind + 2..known /\ i < tail[1]
        BY <1>1, <3>2, <3>3
      <4>2. \A k \in 1..n : tail[k] # i
        <5>1. ASSUME NEW k \in 1..n PROVE tail[k] # i
          <6>1. tail[k] \in behind + 2..known /\ tail[1] <= tail[k]
            BY <1>10, <3>4
          <6>2. QED
            BY <1>1, <3>2, <4>1, <6>1
        <5>2. QED
          BY <5>1
      <4>3. QED
        BY <1>12, <4>1, <4>2
    <3>7. QED
      BY <3>3, <3>5, <3>6
  <2>3. QED
    BY <2>1, <2>2
<1>14. \A k \in 1..n : tail[k] \in after + 1..known /\ tail[k] \notin s.missed
  BY <1>1, <1>10, <1>13
<1>15. \A i \in after + 1..known : i \in s.missed \/ \E k \in 1..n : tail[k] = i
  <2>1. after + 1..known \subseteq behind + 2..known
    BY <1>1, <1>13
  <2>2. QED
    BY <1>12, <2>1
<1>16. PendingInOrder(t)
  BY <1>3, <1>4, <1>7, <1>11, <1>14, <1>15 DEF PendingInOrder, tail, after
<1>17. QED
  BY <1>13, <1>16 DEF behind, after, known

\* What the ledger sees of a state and of a run.
SameLedger ==
  /\ work'.pending = work.pending /\ work'.orders = work.orders
  /\ work'.action_chain = work.action_chain /\ work'.missed = work.missed
  /\ UNCHANGED <<chain, now, state, active, closed>>

\* A step that leaves the ledger alone keeps it in order.
LEMMA SameLedgerKept ==
  ASSUME Ledger(work), Settles(state, work, closed), Listens, SameLedger
  PROVE  /\ Ledger(work)' /\ Settles(state, work, closed)' /\ Listens'
         /\ Behind(work)' = Behind(work)
<1>1. Behind(work)' = Behind(work) /\ Behind(state)' = Behind(state)
  BY DEF SameLedger, Behind
<1>2. Ledger(work)'
  BY <1>1 DEF SameLedger, Ledger, PendingInOrder
<1>3. Settles(state, work, closed)'
  BY <1>1 DEF SameLedger, Settles, MayReport
<1>4. Listens'
  BY <1>1 DEF SameLedger, Listens
<1>5. QED
  BY <1>1, <1>2, <1>3, <1>4

\* When an action is pending that is later than the latest block, all the actions
\* that are not later are behind the state.
LEMMA DoneIsUpToDate ==
  ASSUME TypeInv, ChainInOrder, Ledger(work), ActionsDone
  PROVE  UpToDate(work)
<1>. DEFINE behind == Behind(work)
            time == work.timestamp
            head == Head(work.pending)
<1>1. IsState(work) /\ work.pending # <<>>
  BY DEF TypeInv, RunTyped, ActionsDone
<1>2. head = behind + 1 /\ behind + 1 <= work.action_chain /\ behind \in Nat
  BY <1>1, HeadIsNext, BehindType
<1>3. work.action_chain <= Len(chain) /\ chain \in Seq(Action) /\ work.action_chain \in Nat
  BY <1>1 DEF Ledger, TypeInv, EnvTyped, IsState
<1>4. behind + 1 \in DOMAIN chain
  <2>. HIDE DEF behind, head
  <2>1. Len(chain) \in Nat /\ DOMAIN chain = 1..Len(chain)
    BY <1>3, LenProperties
  <2>2. QED
    BY <1>2, <1>3, <2>1
<1>5. ~(chain[head].timestamp <= time)
  BY <1>1 DEF ActionsDone, IsDue
<1>6. time \in Nat /\ now \in Nat
  BY <1>1, ProgramAssumption DEF IsState, TypeInv, EnvTyped
<1>7. \A i \in DOMAIN chain : chain[i].timestamp \in Nat /\ i \in Nat
  <2>1. \A i \in DOMAIN chain : chain[i] \in Action
    BY <1>3
  <2>2. \A i \in DOMAIN chain : i \in Nat
    BY <1>3, LenProperties
  <2>3. QED
    BY <2>1, <2>2 DEF Action
<1>8. chain[behind + 1].timestamp <= now
  BY <1>4 DEF ChainInOrder
<1>9. \A i \in DOMAIN chain : behind + 1 < i => chain[behind + 1].timestamp <= chain[i].timestamp
  BY <1>4 DEF ChainInOrder
<1>. HIDE DEF behind, time, head
<1>10. time < chain[behind + 1].timestamp
  BY <1>2, <1>4, <1>5, <1>6, <1>7
<1>11. time < now
  BY <1>4, <1>6, <1>7, <1>8, <1>10
<1>12. ASSUME NEW i \in DOMAIN chain, chain[i].timestamp <= time PROVE i <= behind
  <2>1. CASE i = behind + 1
    BY <1>6, <1>7, <1>10, <1>12, <2>1
  <2>2. CASE behind + 1 < i
    <3>1. chain[behind + 1].timestamp <= chain[i].timestamp
      BY <1>9, <2>2
    <3>2. QED
      BY <1>4, <1>6, <1>7, <1>10, <1>12, <3>1
  <2>3. QED
    BY <1>2, <1>7, <2>1, <2>2
<1>13. QED
  BY <1>11, <1>12 DEF UpToDate, behind, time

\* The steps that change neither actions nor orders.
LEMMA QuietLedger ==
  ASSUME TypeInv, ChainInOrder, RunLedger,
         VerifyBlock \/ WalkThrough \/ IgnoreTx \/ CountVote \/ FinishBlock
  PROVE  RunLedger'
<1>1. IsState(work)
  BY DEF TypeInv, RunTyped
<1>2. SameLedger
  <2>1. CASE VerifyBlock
    BY <1>1, <2>1, VerifyFields DEF VerifyBlock, SameLedger, env
  <2>2. CASE WalkThrough
    BY <2>2 DEF WalkThrough, SameLedger, env
  <2>3. CASE IgnoreTx
    BY <2>3 DEF IgnoreTx, SameLedger, env
  <2>4. CASE CountVote
    BY <1>1, <2>4, VoteFields DEF CountVote, SameLedger, env
  <2>5. CASE FinishBlock
    BY <1>1, <2>5, FinishFields DEF FinishBlock, SameLedger, env
  <2>6. QED
    BY <2>1, <2>2, <2>3, <2>4, <2>5
<1>3. Ledger(work)' /\ Settles(state, work, closed)' /\ Listens' /\ Behind(work)' = Behind(work)
  BY <1>2, SameLedgerKept DEF RunLedger
<1>4. ASSUME pc' \in {"verify", "txs"} PROVE UpToDate(work) /\ work'.timestamp = work.timestamp
  <2>1. CASE VerifyBlock
    <3>1. IsUnfinalized(blocks)
      BY <1>4, <2>1 DEF VerifyBlock, Goto
    <3>2. QED
      BY <1>1, <2>1, <3>1, VerifyFields DEF VerifyBlock, RunLedger
  <2>2. CASE WalkThrough
    BY <2>2, DoneIsUpToDate DEF WalkThrough, RunLedger
  <2>3. CASE IgnoreTx
    BY <2>3 DEF IgnoreTx, RunLedger
  <2>4. CASE CountVote
    BY <1>1, <2>4, VoteFields DEF CountVote, RunLedger
  <2>5. CASE FinishBlock
    BY <1>1, <2>5, FinishFields DEF FinishBlock, RunLedger
  <2>6. QED
    BY <2>1, <2>2, <2>3, <2>4, <2>5
<1>5. pc' \in {"verify", "txs"} => UpToDate(work)'
  BY <1>2, <1>3, <1>4 DEF UpToDate, SameLedger
<1>6. QED
  BY <1>3, <1>5 DEF RunLedger

\* An order that is opened is a new one.
LEMMA OpenLedger ==
  ASSUME TypeInv, ChainInOrder, Ledger(state), RunLedger, OpenOrder
  PROVE  RunLedger'
<1>1. IsState(work) /\ Ledger(work) /\ IsState(state) /\ work.pending # <<>>
  BY DEF TypeInv, RunTyped, RunLedger, OpenOrder, IsDue
<1>2. UNCHANGED <<chain, now, state, closed>> /\ pc' = "actions"
  BY DEF OpenOrder, env
<1>. DEFINE behind == Behind(work)
            behindOld == Behind(state)
            after == Behind(work)'
            id == Head(work.pending)
            orders == work.orders
            old == DOMAIN state.orders
            address == chain[id].address
            known == work.action_chain
<1>3. behind \in Nat /\ behindOld \in Nat /\ id = behind + 1 /\ behind + 1 <= known /\ known \in Nat
      /\ id \notin work.missed
  BY <1>1, BehindType, HeadIsNext
<1>4. after \in Nat /\ behind + 1 <= after /\ PendingInOrder(work)'
  <2>1. PICK t : t = work'
    OBVIOUS
  <2>2. t.pending = Tail(work.pending) /\ t.action_chain = work.action_chain
        /\ t.missed = work.missed
    BY <1>1, <2>1, OpenFields
  <2>3. Behind(t) \in Nat /\ Behind(work) + 1 <= Behind(t) /\ PendingInOrder(t)
    BY <1>1, <2>2, NextBehind
  <2>4. QED
    BY <2>1, <2>3 DEF Behind, PendingInOrder
<1>5. DOMAIN work'.orders = DOMAIN orders \cup {id}
  BY <1>1, OpenFields DEF With
<1>6. Behind(state)' = behindOld
  BY <1>2 DEF Behind
<1>7. /\ behindOld <= behind /\ DOMAIN orders \subseteq old \cup behindOld + 1..behind
      /\ \A i \in DOMAIN closed : closed[i].id \in old \cup behindOld + 1..behind
                                  /\ closed[i].id \notin DOMAIN orders
      /\ \A i, j \in DOMAIN closed : closed[i].id = closed[j].id => i = j
  BY DEF RunLedger, Settles, MayReport
<1>8. \A i \in DOMAIN orders : i <= behind
  BY <1>1 DEF Ledger
<1>9. \A i \in old : i <= behindOld /\ i \in Nat
  BY <1>1, OrdersAreBehind
<1>10. Ledger(work)'
  <2>1. work'.action_chain <= Len(chain')
    BY <1>1, <1>2, OpenFields DEF Ledger
  <2>2. \A i \in DOMAIN work'.orders : i <= Behind(work)'
    <3>1. \A i \in DOMAIN orders : i \in Nat
      BY <1>1 DEF IsState, Ids
    <3>. HIDE DEF behind, id, orders, after
    <3>2. \A i \in DOMAIN orders \cup {id} : i <= after
      BY <1>3, <1>4, <1>8, <3>1
    <3>3. QED
      BY <1>5, <3>2 DEF after
  <2>3. QED
    BY <1>4, <2>1, <2>2 DEF Ledger
<1>11. Settles(state, work, closed)'
  <2>. HIDE DEF behind, behindOld, id, orders, old, after
  <2>1. behindOld <= after
    BY <1>3, <1>4, <1>7
  <2>2. old \cup behindOld + 1..behind \subseteq old \cup behindOld + 1..after
    BY <1>3, <1>4
  <2>3. id \in behindOld + 1..after
    BY <1>3, <1>4, <1>7
  <2>4. DOMAIN orders \cup {id} \subseteq old \cup behindOld + 1..after
    BY <1>7, <2>2, <2>3
  <2>5. \A i \in DOMAIN closed : closed[i].id # id
    <3>1. \A i \in old \cup behindOld + 1..behind : i # id
      BY <1>3, <1>7, <1>9
    <3>2. QED
      BY <1>7, <3>1
  <2>6. \A i \in DOMAIN closed : closed[i].id \in old \cup behindOld + 1..after
                                 /\ closed[i].id \notin DOMAIN orders \cup {id}
    BY <1>7, <2>2, <2>5
  <2>7. MayReport(state, work)' = old \cup behindOld + 1..after
    BY <1>2, <1>6 DEF MayReport, old, after
  <2>8. QED
    BY <1>2, <1>5, <1>6, <1>7, <2>1, <2>4, <2>6, <2>7 DEF Settles, after
<1>12. Listens'
  <2>1. id \in DOMAIN chain \ work.missed
    <3>1. known <= Len(chain) /\ chain \in Seq(Action)
      BY <1>1 DEF Ledger, TypeInv, EnvTyped
    <3>. HIDE DEF id, known, behind
    <3>2. QED
      BY <1>3, <3>1, LenProperties
  <2>2. active' = [active EXCEPT ![address] = id] /\ active \in [Addresses -> {NoId} \cup Ids]
    BY DEF OpenOrder, TypeInv, RunTyped
  <2>3. \A a \in Addresses : active'[a] = IF a = address THEN id ELSE active[a]
    BY <2>2
  <2>4. \A a \in Addresses : active[a] # NoId =>
          active[a] \in DOMAIN chain \ work.missed /\ active[a] <= behind /\ chain[active[a]].address = a
    BY DEF RunLedger, Listens
  <2>5. \A a \in Addresses : active[a] \in Nat
    BY <2>2 DEF NoId, Ids
  <2>6. chain[id].address = address
    OBVIOUS
  <2>. HIDE DEF id, behind, address, after
  <2>7. \A a \in Addresses : active'[a] # NoId =>
          active'[a] \in DOMAIN chain \ work.missed /\ active'[a] <= after /\ chain[active'[a]].address = a
    BY <1>3, <1>4, <2>1, <2>3, <2>4, <2>5, <2>6
  <2>8. QED
    BY <1>1, <1>2, <2>7, OpenFields DEF Listens, after
<1>13. QED
  BY <1>2, <1>10, <1>11, <1>12 DEF RunLedger

\* A report of an order that is open until then.
LEMMA ReportOne ==
  ASSUME NEW D, NEW M, D \subseteq M,
         NEW reports \in Reports, NEW r \in [id : Ids, inflow : Nat], r.id \in D,
         \A i \in DOMAIN reports : reports[i].id \in M /\ reports[i].id \notin D,
         \A i, j \in DOMAIN reports : reports[i].id = reports[j].id => i = j,
         NEW next, next = Append(reports, r)
  PROVE  /\ \A i \in DOMAIN next : next[i].id \in M /\ next[i].id \notin D \ {r.id}
         /\ \A i, j \in DOMAIN next : next[i].id = next[j].id => i = j
<1>. DEFINE n == Len(reports)
<1>1. reports \in Seq([id : Ids, inflow : Nat])
  BY DEF Reports
<1>2. n \in Nat /\ DOMAIN reports = 1..n
  BY <1>1, LenProperties
<1>3. /\ next \in Seq([id : Ids, inflow : Nat]) /\ Len(next) = n + 1 /\ next[n + 1] = r
      /\ \A i \in 1..n : next[i] = reports[i]
  BY <1>1, AppendProperties
<1>4. DOMAIN next = 1..n + 1
  BY <1>3, LenProperties
<1>. HIDE DEF n
<1>5. \A i \in 1..n : next[i].id \in M /\ next[i].id \notin D
  BY <1>2, <1>3
<1>6. \A i \in DOMAIN next : i \in 1..n \/ i = n + 1
  BY <1>2, <1>4
<1>7. \A i, j \in 1..n : next[i].id = next[j].id => i = j
  BY <1>2, <1>3
<1>8. ASSUME NEW i \in DOMAIN next PROVE next[i].id \in M /\ next[i].id \notin D \ {r.id}
  BY <1>3, <1>5, <1>6
<1>9. ASSUME NEW i \in DOMAIN next, NEW j \in DOMAIN next, next[i].id = next[j].id PROVE i = j
  <2>1. \A k \in 1..n : next[k].id # r.id
    BY <1>5
  <2>2. QED
    BY <1>3, <1>6, <1>7, <1>9, <2>1
<1>10. QED
  BY <1>8, <1>9

\* An order that is closed by a later action on its address.
LEMMA CloseLedger ==
  ASSUME TypeInv, ChainInOrder, Ledger(state), RunLedger, CloseOrder
  PROVE  RunLedger'
<1>1. IsState(work) /\ Ledger(work) /\ IsState(state) /\ work.pending # <<>>
  BY DEF TypeInv, RunTyped, RunLedger, CloseOrder, IsDue
<1>2. UNCHANGED <<chain, now, state>> /\ pc' = "actions"
  BY DEF CloseOrder, env
<1>. DEFINE behind == Behind(work)
            behindOld == Behind(state)
            after == Behind(work)'
            orders == work.orders
            old == DOMAIN state.orders
            address == chain[Head(work.pending)].address
            id == active[address]
            D == DOMAIN orders
            M == old \cup behindOld + 1..behind
            M1 == old \cup behindOld + 1..after
<1>3. behind \in Nat /\ behindOld \in Nat
  BY <1>1, BehindType
<1>4. after \in Nat /\ behind + 1 <= after /\ PendingInOrder(work)'
  <2>1. PICK t : t = work'
    OBVIOUS
  <2>2. t.pending = Tail(work.pending) /\ t.action_chain = work.action_chain
        /\ t.missed = work.missed
    BY <1>1, <2>1, CloseFields
  <2>3. Behind(t) \in Nat /\ Behind(work) + 1 <= Behind(t) /\ PendingInOrder(t)
    BY <1>1, <2>2, NextBehind
  <2>4. QED
    BY <2>1, <2>3 DEF Behind, PendingInOrder
<1>5. DOMAIN work'.orders = D \ {id}
  <2>1. work'.orders = Without(orders, id)
    BY <1>1, CloseFields
  <2>2. QED
    BY <2>1 DEF Without
<1>6. Behind(state)' = behindOld
  BY <1>2 DEF Behind
<1>7. /\ behindOld <= behind /\ D \subseteq M
      /\ \A i \in DOMAIN closed : closed[i].id \in M /\ closed[i].id \notin D
      /\ \A i, j \in DOMAIN closed : closed[i].id = closed[j].id => i = j
  BY DEF RunLedger, Settles, MayReport
<1>8. Ledger(work)'
  <2>1. work'.action_chain <= Len(chain')
    BY <1>1, <1>2, CloseFields DEF Ledger
  <2>2. \A i \in D : i <= behind /\ i \in Nat
    BY <1>1, OrdersAreBehind
  <2>. HIDE DEF behind, D, id, after
  <2>3. \A i \in D \ {id} : i <= after
    BY <1>3, <1>4, <2>2
  <2>4. QED
    BY <1>4, <1>5, <2>1, <2>3 DEF Ledger, after
<1>9. Settles(state, work, closed)'
  <2>1. /\ \A i \in DOMAIN closed' : closed'[i].id \in M /\ closed'[i].id \notin D \ {id}
        /\ \A i, j \in DOMAIN closed' : closed'[i].id = closed'[j].id => i = j
    <3>1. CASE id \in D
      <4>1. closed' = Append(closed, Report(id, orders[id]))
        BY <3>1 DEF CloseOrder
      <4>2. PICK r : r = Report(id, orders[id])
        OBVIOUS
      <4>3. r \in [id : Ids, inflow : Nat] /\ r.id = id
        BY <1>1, <3>1, <4>2 DEF Report, IsState
      <4>4. closed \in Reports
        BY DEF TypeInv, RunTyped
      <4>5. PICK next : next = closed'
        OBVIOUS
      <4>6. next = Append(closed, r)
        BY <4>1, <4>2, <4>5
      <4>. HIDE DEF D, M, id
      <4>7. /\ \A i \in DOMAIN next : next[i].id \in M /\ next[i].id \notin D \ {r.id}
            /\ \A i, j \in DOMAIN next : next[i].id = next[j].id => i = j
        BY <1>7, <3>1, <4>3, <4>4, <4>6, ReportOne
      <4>8. QED
        BY <4>3, <4>5, <4>7
    <3>2. CASE id \notin D
      <4>1. closed' = closed
        BY <3>2 DEF CloseOrder
      <4>2. QED
        BY <1>7, <4>1
    <3>3. QED
      BY <3>1, <3>2
  <2>2. M \subseteq M1
    <3>. HIDE DEF behind, behindOld, old, after
    <3>. QED
      BY <1>3, <1>4
  <2>3. MayReport(state, work)' = M1
    BY <1>2, <1>6 DEF MayReport
  <2>4. behindOld <= after
    <3>. HIDE DEF behind, behindOld, after
    <3>. QED
      BY <1>3, <1>4, <1>7
  <2>. HIDE DEF behind, behindOld, D, M, M1, id
  <2>5. QED
    BY <1>5, <1>6, <1>7, <2>1, <2>2, <2>3, <2>4 DEF Settles
<1>10. Listens'
  <2>1. active' = [active EXCEPT ![address] = NoId] /\ active \in [Addresses -> {NoId} \cup Ids]
    BY DEF CloseOrder, TypeInv, RunTyped
  <2>2. \A a \in Addresses : active'[a] = IF a = address THEN NoId ELSE active[a]
    BY <2>1
  <2>3. \A a \in Addresses : active[a] # NoId =>
          active[a] \in DOMAIN chain \ work.missed /\ active[a] <= behind /\ chain[active[a]].address = a
    BY DEF RunLedger, Listens
  <2>4. \A a \in Addresses : active[a] \in Nat
    BY <2>1 DEF NoId, Ids
  <2>. HIDE DEF behind, address, after
  <2>5. \A a \in Addresses : active'[a] # NoId =>
          active'[a] \in DOMAIN chain \ work.missed /\ active'[a] <= after /\ chain[active'[a]].address = a
    BY <1>3, <1>4, <2>2, <2>3, <2>4
  <2>6. QED
    BY <1>1, <1>2, <2>5, CloseFields DEF Listens, after
<1>11. QED
  BY <1>2, <1>8, <1>9, <1>10 DEF RunLedger

\* A transfer is added to an order, which is closed when it is filled.
LEMMA TransferLedger ==
  ASSUME TypeInv, ChainInOrder, Ledger(state), RunLedger, CountTransfer
  PROVE  RunLedger'
<1>1. IsState(work) /\ Ledger(work) /\ IsState(state)
  BY DEF TypeInv, RunTyped, RunLedger
<1>2. UNCHANGED <<chain, now, state, active, pc>>
  BY DEF CountTransfer, env
<1>. DEFINE id == active[Head(txs).to]
            inflow == work.orders[id] + ParsedValue(Head(txs))
            D == DOMAIN work.orders
            M == MayReport(state, work)
<1>3. id \in D
  BY DEF CountTransfer
<1>4. /\ work'.pending = work.pending /\ work'.action_chain = work.action_chain
      /\ work'.missed = work.missed /\ work'.timestamp = work.timestamp
  BY <1>1, TransferFields
<1>5. Behind(work)' = Behind(work) /\ Behind(state)' = Behind(state)
  BY <1>2, <1>4 DEF Behind
<1>6. MayReport(state, work)' = M
  BY <1>2, <1>5 DEF MayReport
<1>7. /\ Behind(state) <= Behind(work) /\ D \subseteq M
      /\ \A i \in DOMAIN closed : closed[i].id \in M /\ closed[i].id \notin D
      /\ \A i, j \in DOMAIN closed : closed[i].id = closed[j].id => i = j
  BY DEF RunLedger, Settles
<1>8. /\ DOMAIN work'.orders \subseteq D
      /\ \A i \in DOMAIN closed' : closed'[i].id \in M /\ closed'[i].id \notin DOMAIN work'.orders
      /\ \A i, j \in DOMAIN closed' : closed'[i].id = closed'[j].id => i = j
  <2>1. CASE IsFilled(id, inflow)
    <3>1. work'.orders = Without(work.orders, id) /\ closed' = Append(closed, Report(id, inflow))
      BY <1>1, <2>1, TransferFields
    <3>2. DOMAIN work'.orders = D \ {id}
      BY <3>1 DEF Without
    <3>3. PICK r : r = Report(id, inflow)
      OBVIOUS
    <3>4. closed \in Reports /\ closed' \in Reports
      BY TransferTyped DEF TypeInv, RunTyped
    <3>5. r \in [id : Ids, inflow : Nat] /\ r.id = id
      <4>1. closed \in Seq([id : Ids, inflow : Nat])
        BY <3>4 DEF Reports
      <4>2. id \in Ids
        BY <1>1, <1>3 DEF IsState
      <4>3. work.orders[id] \in Nat
        BY <1>1, <1>3 DEF IsState
      <4>4. Head(txs) \in Tx
        BY HeadTailProperties DEF TypeInv, RunTyped, CountTransfer
      <4>5. Head(txs).value \in Nat
        BY <4>4 DEF Tx
      <4>6. ParsedValue(Head(txs)) \in Nat
        BY <4>5, ValueIsNat DEF ParsedValue
      <4>7. inflow \in Nat
        BY <4>3, <4>6
      <4>8. QED
        BY <3>3, <4>2, <4>7 DEF Report
    <3>6. PICK next : next = closed'
      OBVIOUS
    <3>7. next = Append(closed, r)
      BY <3>1, <3>3, <3>6
    <3>. HIDE DEF D, M, id
    <3>8. /\ \A i \in DOMAIN next : next[i].id \in M /\ next[i].id \notin D \ {r.id}
          /\ \A i, j \in DOMAIN next : next[i].id = next[j].id => i = j
      BY <1>3, <1>7, <3>4, <3>5, <3>7, ReportOne
    <3>9. QED
      BY <3>2, <3>5, <3>6, <3>8
  <2>2. CASE ~IsFilled(id, inflow)
    <3>1. work'.orders = [work.orders EXCEPT ![id] = inflow] /\ closed' = closed
      BY <1>1, <2>2, TransferFields
    <3>2. DOMAIN work'.orders = D
      BY <3>1
    <3>. HIDE DEF D, M
    <3>3. QED
      BY <1>7, <3>1, <3>2
  <2>3. QED
    BY <2>1, <2>2
<1>9. Ledger(work)'
  <2>1. work.action_chain <= Len(chain) /\ PendingInOrder(work)
        /\ \A i \in D : i <= Behind(work)
    BY <1>1 DEF Ledger
  <2>2. PendingInOrder(work)'
    BY <1>4, <1>5, <2>1 DEF PendingInOrder
  <2>. HIDE DEF D
  <2>3. QED
    BY <1>2, <1>4, <1>5, <1>8, <2>1, <2>2 DEF Ledger
<1>10. Settles(state, work, closed)'
  <2>. HIDE DEF D, M
  <2>. QED
    BY <1>5, <1>6, <1>7, <1>8 DEF Settles
<1>11. Listens'
  BY <1>2, <1>4, <1>5 DEF RunLedger, Listens
<1>12. pc' \in {"verify", "txs"} => UpToDate(work)'
  BY <1>2, <1>4, <1>5 DEF RunLedger, UpToDate
<1>13. QED
  BY <1>9, <1>10, <1>11, <1>12 DEF RunLedger

\* Every step of a run.
LEMMA StepLedger ==
  ASSUME TypeInv, ChainInOrder, Ledger(state), RunLedger, RunStep
  PROVE  RunLedger'
BY QuietLedger, OpenLedger, CloseLedger, TransferLedger DEF RunStep

\* The reports on record: of orders that are behind the state and no longer open,
\* each once.
OnRecord(s, reports) ==
  /\ \A i \in DOMAIN reports : reports[i].id <= Behind(s) /\ reports[i].id \notin DOMAIN s.orders
  /\ \A i, j \in DOMAIN reports : reports[i].id = reports[j].id => i = j

LedgerInv ==
  /\ ChainInOrder
  /\ Ledger(state) /\ UpToDate(state) /\ OnRecord(state, reported)
  /\ RunLedger
  /\ pc = "idle" => work = state /\ active = NoneActive /\ closed = <<>>

\* What a run settles joins what is on record.
LEMMA RecordGrows ==
  ASSUME NEW old, NEW new, NEW recorded \in Reports, NEW reports \in Reports,
         IsState(old), IsState(new), Ledger(old), Ledger(new),
         OnRecord(old, recorded), Settles(old, new, reports)
  PROVE  OnRecord(new, recorded \o reports)
<1>. DEFINE D == DOMAIN old.orders
            E == DOMAIN new.orders
            behindOld == Behind(old)
            behind == Behind(new)
            M == D \cup behindOld + 1..behind
            m == Len(recorded)
            n == Len(reports)
            all == recorded \o reports
            T == [id : Ids, inflow : Nat]
<1>1. behind \in Nat /\ behindOld \in Nat /\ behindOld <= behind
  BY BehindType DEF Settles
<1>2. \A i \in D : i <= behindOld /\ i \in Nat
  BY OrdersAreBehind
<1>3. E \subseteq M /\ \A i \in DOMAIN reports : reports[i].id \in M /\ reports[i].id \notin E
  BY DEF Settles, MayReport
<1>4. \A i \in DOMAIN recorded : recorded[i].id <= behindOld /\ recorded[i].id \notin D
  BY DEF OnRecord
<1>5. /\ \A i, j \in DOMAIN recorded : recorded[i].id = recorded[j].id => i = j
      /\ \A i, j \in DOMAIN reports : reports[i].id = reports[j].id => i = j
  BY DEF OnRecord, Settles
<1>6. recorded \in Seq(T) /\ reports \in Seq(T)
  BY DEF Reports
<1>7. m \in Nat /\ n \in Nat /\ DOMAIN recorded = 1..m /\ DOMAIN reports = 1..n
  BY <1>6, LenProperties
<1>8. /\ all \in Seq(T) /\ Len(all) = m + n
      /\ \A i \in 1..m + n : all[i] = IF i <= m THEN recorded[i] ELSE reports[i - m]
  <2>. HIDE DEF T
  <2>. QED
    BY <1>6, ConcatProperties
<1>9. DOMAIN all = 1..m + n
  <2>. HIDE DEF T, all, m, n
  <2>. QED
    BY <1>7, <1>8, LenProperties
<1>10. \A i \in DOMAIN recorded : recorded[i].id \in Nat
  <2>1. \A i \in DOMAIN recorded : recorded[i] \in T
    <3>. HIDE DEF T
    <3>. QED
      BY <1>6, <1>7, ElementOfSeq
  <2>2. QED
    BY <2>1 DEF Ids
<1>. HIDE DEF D, E, behindOld, behind, m, n, all, T
<1>11. \A x \in M : x <= behind
  BY <1>1, <1>2
<1>12. \A i \in 1..m : recorded[i].id \notin M
  BY <1>1, <1>4, <1>7, <1>10
<1>13. ASSUME NEW i \in 1..m + n PROVE all[i].id <= behind /\ all[i].id \notin E
  <2>1. CASE i <= m
    <3>1. i \in 1..m /\ all[i] = recorded[i]
      BY <1>7, <1>8, <2>1
    <3>2. recorded[i].id <= behind
      BY <1>1, <1>4, <1>7, <1>10, <3>1
    <3>3. QED
      BY <1>3, <1>12, <3>1, <3>2
  <2>2. CASE ~(i <= m)
    <3>1. i - m \in 1..n /\ all[i] = reports[i - m]
      BY <1>7, <1>8, <2>2
    <3>. HIDE DEF M
    <3>2. QED
      BY <1>3, <1>7, <1>11, <3>1
  <2>3. QED
    BY <2>1, <2>2
<1>14. ASSUME NEW i \in 1..m + n, NEW j \in 1..m + n, all[i].id = all[j].id PROVE i = j
  <2>. HIDE DEF M
  <2>1. ASSUME NEW k \in 1..m + n
        PROVE  \/ k \in 1..m /\ all[k] = recorded[k]
               \/ k - m \in 1..n /\ ~(k <= m) /\ all[k] = reports[k - m]
    <3>1. CASE k <= m
      BY <1>7, <1>8, <3>1
    <3>2. CASE ~(k <= m)
      BY <1>7, <1>8, <3>2
    <3>3. QED
      BY <3>1, <3>2
  <2>2. CASE i \in 1..m /\ j \in 1..m
    <3>1. all[i] = recorded[i] /\ all[j] = recorded[j]
      BY <1>7, <2>1, <2>2
    <3>2. QED
      BY <1>5, <1>7, <1>14, <2>2, <3>1
  <2>3. CASE i - m \in 1..n /\ j - m \in 1..n
    <3>1. all[i] = reports[i - m] /\ all[j] = reports[j - m]
      BY <1>7, <2>1, <2>3
    <3>2. i - m = j - m
      BY <1>5, <1>7, <1>14, <2>3, <3>1
    <3>3. QED
      BY <1>7, <3>2
  <2>4. CASE i \in 1..m /\ j - m \in 1..n
    <3>1. all[i] = recorded[i] /\ all[j] = reports[j - m]
      BY <1>7, <2>1, <2>4
    <3>2. QED
      BY <1>3, <1>7, <1>12, <1>14, <2>4, <3>1
  <2>5. CASE i - m \in 1..n /\ j \in 1..m
    <3>1. all[j] = recorded[j]
      BY <1>7, <2>1, <2>5
    <3>2. all[i] = reports[i - m]
      BY <1>7, <2>1, <2>5
    <3>3. QED
      BY <1>3, <1>7, <1>12, <1>14, <2>5, <3>1, <3>2
  <2>6. QED
    BY <2>1, <2>2, <2>3, <2>4, <2>5
<1>15. \A i \in DOMAIN all : all[i].id <= behind /\ all[i].id \notin E
  BY <1>9, <1>13
<1>16. \A i, j \in DOMAIN all : all[i].id = all[j].id => i = j
  BY <1>9, <1>14
<1>17. QED
  BY <1>15, <1>16 DEF OnRecord, all, behind, E

\* New actions are later than all that is up to date.
ChainGrows ==
  /\ now <= now' /\ DOMAIN chain \subseteq DOMAIN chain' /\ Len(chain) <= Len(chain')
  /\ \A i \in DOMAIN chain : chain'[i] = chain[i]
  /\ \A i \in DOMAIN chain' : i \notin DOMAIN chain =>
       chain'[i].timestamp = now' /\ \A j \in DOMAIN chain : j < i

\* The chain of actions stays in the order of time when it grows.
LEMMA ChainStaysInOrder ==
  ASSUME TypeInv, ChainInOrder, ChainGrows, now' \in Nat, chain' \in Seq(Action)
  PROVE  ChainInOrder'
<1>1. \A i \in DOMAIN chain : chain[i].timestamp \in Nat /\ i \in Nat
  <2>1. chain \in Seq(Action)
    BY DEF TypeInv, EnvTyped
  <2>2. \A i \in DOMAIN chain : chain[i] \in Action /\ i \in Nat
    BY <2>1, LenProperties, ElementOfSeq
  <2>3. QED
    BY <2>2 DEF Action
<1>2. now \in Nat /\ now <= now'
  BY ProgramAssumption DEF TypeInv, EnvTyped, ChainGrows
<1>3. ASSUME NEW i \in DOMAIN chain' PROVE chain'[i].timestamp <= now'
  <2>1. CASE i \in DOMAIN chain
    BY <1>1, <1>2, <2>1 DEF ChainInOrder, ChainGrows
  <2>2. CASE i \notin DOMAIN chain
    BY <1>2, <2>2 DEF ChainGrows
  <2>3. QED
    BY <2>1, <2>2
<1>4. ASSUME NEW i \in DOMAIN chain', NEW j \in DOMAIN chain', i < j
      PROVE  chain'[i].timestamp <= chain'[j].timestamp
  <2>1. CASE j \notin DOMAIN chain
    <3>1. chain'[j].timestamp = now'
      BY <2>1 DEF ChainGrows
    <3>2. QED
      BY <1>3, <3>1
  <2>2. CASE j \in DOMAIN chain /\ i \in DOMAIN chain
    BY <1>4, <2>2 DEF ChainInOrder, ChainGrows
  <2>3. CASE j \in DOMAIN chain /\ i \notin DOMAIN chain
    <3>1. j < i
      BY <2>3 DEF ChainGrows
    <3>2. i \in Nat /\ j \in Nat
      BY <1>1, <2>3, LenProperties
    <3>3. QED
      BY <1>4, <3>1, <3>2
  <2>4. QED
    BY <2>1, <2>2, <2>3
<1>5. QED
  BY <1>3, <1>4 DEF ChainInOrder

\* A state stays in line with a chain that grows.
LEMMA GrowthKeepsLedgers ==
  ASSUME TypeInv, ChainGrows, now' \in Nat, chain' \in Seq(Action), NEW s, IsState(s)
  PROVE  /\ Ledger(s) => Ledger(s)'
         /\ UpToDate(s) => UpToDate(s)'
<1>1. Len(chain) \in Nat /\ Len(chain') \in Nat
  BY LenProperties DEF TypeInv, EnvTyped
<1>2. s.action_chain \in Nat /\ s.timestamp \in Nat /\ now \in Nat /\ now <= now'
  BY ProgramAssumption DEF IsState, TypeInv, EnvTyped, ChainGrows
<1>3. Ledger(s) => Ledger(s)'
  <2>1. s.action_chain <= Len(chain) => s.action_chain <= Len(chain')
    BY <1>1, <1>2 DEF ChainGrows
  <2>2. QED
    BY <2>1 DEF Ledger
<1>4. ASSUME UpToDate(s) PROVE UpToDate(s)'
  <2>1. s.timestamp < now'
    BY <1>2, <1>4 DEF UpToDate
  <2>2. ASSUME NEW i \in DOMAIN chain', chain'[i].timestamp <= s.timestamp PROVE i <= Behind(s)
    <3>1. i \in DOMAIN chain
      BY <1>2, <2>1, <2>2 DEF ChainGrows
    <3>2. QED
      BY <1>4, <2>2, <3>1 DEF UpToDate, ChainGrows
  <2>3. QED
    BY <2>1, <2>2 DEF UpToDate
<1>5. QED
  BY <1>3, <1>4

\* Where nothing is done yet there is nothing to settle.
LEMMA NothingToSettle ==
  ASSUME NEW s, IsState(s), Ledger(s)
  PROVE  Settles(s, s, <<>>)
<1>1. Behind(s) \in Nat
  BY BehindType
<1>2. QED
  BY <1>1 DEF Settles, MayReport

\* What is behind a run that starts: what was left out may join it.
LEMMA StartBehind ==
  ASSUME TypeInv, NEW from, IsState(from), Ledger(from),
         NEW skipped \in Nat, NEW actionCount \in Nat, NEW blockCount \in Nat,
         StartOn(from, skipped, actionCount, blockCount)
  PROVE  /\ Behind(work)' \in Nat /\ Behind(from) <= Behind(work)'
         /\ \A i \in Behind(from) + 1..Behind(work)' : i \in work'.missed
         /\ PendingInOrder(work)'
         /\ work'.missed = from.missed \cup from.action_chain + 1..from.action_chain + skipped
<1>. DEFINE known == from.action_chain
            last == work'.action_chain
            left == work'.missed
            pending == from.pending
            news == Following(known, skipped, actionCount)
            next == work'.pending
            behind == Behind(from)
            after == Behind(work)'
            m == Len(pending)
<1>1. /\ next = pending \o news /\ last = known + skipped + actionCount
      /\ left = from.missed \cup known + 1..known + skipped
  <2>1. next = pending \o news
    BY StartFields, Zenon
  <2>2. last = known + skipped + actionCount
    BY StartFields
  <2>3. left = from.missed \cup known + 1..known + skipped
    BY StartLeavesOut
  <2>4. QED
    BY <2>1, <2>2, <2>3, Zenon
<1>2. /\ behind \in Nat /\ m \in Nat /\ known \in Nat /\ behind <= known
      /\ DOMAIN pending = 1..m
  BY BehindType
<1>3. news \in Seq(Nat) /\ Len(news) = actionCount
      /\ \A i \in 1..actionCount : news[i] = known + skipped + i
  <2>. HIDE DEF known
  <2>1. news \in [1..actionCount -> Nat]
    BY <1>2 DEF Following
  <2>2. \A i \in 1..actionCount : news[i] = known + skipped + i
    BY DEF Following
  <2>. HIDE DEF news
  <2>3. QED
    BY <2>1, <2>2
<1>4. pending \in Seq(Nat)
  <2>1. pending \in Seq(Ids) /\ Ids \subseteq Nat
    BY DEF IsState, Ids
  <2>. HIDE DEF pending
  <2>2. QED
    BY <2>1, SeqMonotonic
<1>5. /\ \A k \in DOMAIN pending : pending[k] \in behind + 1..known /\ pending[k] \notin from.missed
      /\ \A k, l \in DOMAIN pending : k < l => pending[k] < pending[l]
      /\ \A i \in behind + 1..known :
           i \in from.missed \/ \E k \in DOMAIN pending : pending[k] = i
  BY DEF Ledger, PendingInOrder
<1>6. pending = <<>> => behind = known
  BY DEF Behind
<1>7. pending # <<>> => behind = Head(pending) - 1
  BY DEF Behind
<1>8. next = <<>> => after = last
  BY DEF Behind
<1>9. next # <<>> => after = Head(next) - 1
  BY DEF Behind
<1>10. actionCount = 0 => skipped = 0
  BY DEF StartOn
<1>11. \A i \in from.missed : i <= known /\ i \in Nat
  BY DEF Ledger, PendingInOrder, IsState, Ids
<1>. HIDE DEF known, last, left, pending, news, next, behind, after, m
<1>12. /\ next \in Seq(Nat) /\ Len(next) = m + actionCount
       /\ \A k \in 1..m + actionCount : next[k] = IF k <= m THEN pending[k] ELSE news[k - m]
  BY <1>1, <1>3, <1>4, ConcatProperties DEF m
<1>13. DOMAIN next = 1..m + actionCount
  BY <1>12, LenProperties
<1>14. \A k \in 1..m : k \in DOMAIN next /\ next[k] = pending[k] /\ k \in DOMAIN pending
  BY <1>2, <1>12, <1>13
<1>15. \A j \in 1..actionCount : m + j \in DOMAIN next /\ next[m + j] = known + skipped + j
  <2>1. ASSUME NEW j \in 1..actionCount
        PROVE  m + j \in DOMAIN next /\ next[m + j] = known + skipped + j
    <3>1. m + j \in 1..m + actionCount /\ ~(m + j <= m) /\ (m + j) - m = j
      BY <1>2
    <3>2. QED
      BY <1>3, <1>12, <1>13, <3>1
  <2>2. QED
    BY <2>1
<1>16. \A k \in DOMAIN next : k \in 1..m \/ \E j \in 1..actionCount : k = m + j
  <2>1. ASSUME NEW k \in DOMAIN next, k \notin 1..m PROVE \E j \in 1..actionCount : k = m + j
    <3>1. k - m \in 1..actionCount /\ k = m + (k - m)
      BY <1>2, <1>13, <2>1
    <3>2. QED
      BY <3>1
  <2>2. QED
    BY <2>1
<1>17. (m = 0 <=> pending = <<>>) /\ (m + actionCount = 0 <=> next = <<>>)
  BY <1>4, <1>12, EmptySeq DEF m
<1>18. \/ after = behind /\ (m # 0 \/ skipped = 0)
       \/ m = 0 /\ behind = known /\ after = known + skipped
  <2>1. CASE m # 0
    <3>1. 1 \in 1..m /\ pending # <<>> /\ next # <<>>
      BY <1>2, <1>17, <2>1
    <3>2. next[1] = pending[1] /\ Head(next) = next[1] /\ Head(pending) = pending[1]
      BY <1>14, <3>1
    <3>3. QED
      BY <1>7, <1>9, <2>1, <3>1, <3>2
  <2>2. CASE m = 0 /\ actionCount = 0
    <3>1. next = <<>> /\ pending = <<>> /\ skipped = 0
      BY <1>10, <1>17, <2>2
    <3>2. last = known
      BY <1>1, <1>2, <2>2, <3>1
    <3>3. QED
      BY <1>6, <1>8, <3>1, <3>2
  <2>3. CASE m = 0 /\ actionCount # 0
    <3>1. next # <<>> /\ pending = <<>> /\ 1 \in 1..actionCount
      BY <1>17, <2>3
    <3>2. next[m + 1] = known + skipped + 1 /\ m + 1 = 1
      BY <1>15, <2>3, <3>1
    <3>3. Head(next) = next[1]
      BY <3>1
    <3>4. after = (known + skipped + 1) - 1
      BY <1>9, <3>1, <3>2, <3>3
    <3>5. QED
      BY <1>2, <1>6, <2>3, <3>1, <3>4
  <2>4. QED
    BY <2>1, <2>2, <2>3
<1>19. after \in Nat /\ behind <= after /\ after <= known + skipped
  BY <1>2, <1>18
<1>20. \A i \in behind + 1..after : i \in left
  BY <1>1, <1>2, <1>18
<1>21. \A k \in 1..m : next[k] \in after + 1..known /\ next[k] \notin left
  <2>1. ASSUME NEW k \in 1..m PROVE next[k] \in after + 1..known /\ next[k] \notin left
    <3>1. next[k] \in behind + 1..known /\ next[k] \notin from.missed
      BY <1>5, <1>14
    <3>2. after = behind
      BY <1>2, <1>18
    <3>3. QED
      BY <1>1, <1>2, <3>1, <3>2
  <2>2. QED
    BY <2>1
<1>22. \A k \in DOMAIN next : next[k] \in after + 1..last /\ next[k] \notin left
  <2>1. ASSUME NEW k \in DOMAIN next PROVE next[k] \in after + 1..last /\ next[k] \notin left
    <3>1. CASE k \in 1..m
      BY <1>1, <1>2, <1>19, <1>21, <3>1
    <3>2. CASE \E j \in 1..actionCount : k = m + j
      <4>1. PICK j \in 1..actionCount : k = m + j
        BY <3>2
      <4>2. next[k] = known + skipped + j
        BY <1>15, <4>1
      <4>3. next[k] \in after + 1..last
        BY <1>1, <1>2, <1>19, <4>2
      <4>4. next[k] \notin from.missed /\ next[k] \notin known + 1..known + skipped
        BY <1>2, <1>11, <4>2
      <4>5. QED
        BY <1>1, <4>3, <4>4
    <3>3. QED
      BY <1>16, <3>1, <3>2
  <2>2. QED
    BY <2>1
<1>23. ASSUME NEW k \in DOMAIN next, NEW l \in DOMAIN next, k < l PROVE next[k] < next[l]
  <2>1. CASE k \in 1..m /\ l \in 1..m
    BY <1>5, <1>14, <1>23, <2>1
  <2>2. CASE k \in 1..m /\ l \notin 1..m
    <3>1. PICK j \in 1..actionCount : l = m + j
      BY <1>16, <2>2
    <3>2. next[l] = known + skipped + j /\ next[k] \in after + 1..known
      BY <1>15, <1>21, <2>2, <3>1
    <3>3. QED
      BY <1>2, <1>19, <3>2
  <2>3. CASE k \notin 1..m
    <3>1. PICK i \in 1..actionCount : k = m + i
      BY <1>16, <2>3
    <3>2. l \notin 1..m
      BY <1>2, <1>23, <3>1
    <3>3. PICK j \in 1..actionCount : l = m + j
      BY <1>16, <3>2
    <3>4. next[k] = known + skipped + i /\ next[l] = known + skipped + j
      BY <1>15, <3>1, <3>3
    <3>5. QED
      BY <1>2, <1>23, <3>1, <3>3, <3>4
  <2>4. QED
    BY <2>1, <2>2, <2>3
<1>24. ASSUME NEW i \in after + 1..last, i \notin left PROVE \E k \in DOMAIN next : next[k] = i
  <2>1. CASE i <= known
    <3>1. i \in behind + 1..known /\ i \notin from.missed
      BY <1>1, <1>2, <1>19, <1>24, <2>1
    <3>2. PICK k \in DOMAIN pending : pending[k] = i
      BY <1>5, <3>1
    <3>3. QED
      BY <1>2, <1>14, <3>2
  <2>2. CASE ~(i <= known)
    <3>1. i - (known + skipped) \in 1..actionCount
      BY <1>1, <1>2, <1>19, <1>24, <2>2
    <3>2. PICK j \in 1..actionCount : j = i - (known + skipped)
      BY <3>1
    <3>3. m + j \in DOMAIN next /\ next[m + j] = known + skipped + j
      BY <1>15, <3>2
    <3>4. known + skipped + j = i
      BY <1>2, <1>19, <1>24, <3>2
    <3>5. QED
      BY <3>3, <3>4
  <2>3. QED
    BY <2>1, <2>2
<1>25. \A i \in left : i <= last
  BY <1>1, <1>2, <1>11
<1>26. PendingInOrder(work)'
  BY <1>22, <1>23, <1>24, <1>25 DEF PendingInOrder, next, after, left, last
<1>27. QED
  BY <1>1, <1>19, <1>20, <1>26 DEF behind, after, left, known

\* A run that starts from a state that is up to date has its ledger in order.
LEMMA StartLedger ==
  ASSUME TypeInv, NEW from, IsState(from), Ledger(from), UpToDate(from),
         NEW skipped \in Nat, NEW actionCount \in Nat, NEW blockCount \in Nat,
         StartOn(from, skipped, actionCount, blockCount),
         active = NoneActive, closed = <<>>, state' = from
  PROVE  RunLedger'
<1>. DEFINE behind == Behind(from)
            after == Behind(work)'
<1>1. UNCHANGED <<chain, now, active, closed>> /\ pc' = "verify"
  BY DEF StartOn, env, Goto
<1>2. /\ work'.action_chain = from.action_chain + skipped + actionCount
      /\ work'.orders = from.orders /\ work'.timestamp = from.timestamp
  BY StartFields
<1>3. behind \in Nat /\ after \in Nat /\ behind <= after /\ PendingInOrder(work)'
  BY BehindType, StartBehind
<1>4. Behind(state)' = behind
  BY DEF Behind
<1>5. \A id \in DOMAIN from.orders : id <= behind /\ id \in Nat
  BY OrdersAreBehind
<1>. HIDE DEF behind, after
<1>6. \A id \in DOMAIN from.orders : id <= after
  BY <1>3, <1>5
<1>7. Ledger(work)'
  <2>1. work'.action_chain <= Len(chain')
    BY <1>1, <1>2 DEF StartOn
  <2>2. QED
    BY <1>2, <1>3, <1>6, <2>1 DEF Ledger, after
<1>8. Settles(state, work, closed)'
  BY <1>1, <1>2, <1>3, <1>4 DEF Settles, MayReport, after
<1>9. Listens'
  BY <1>1 DEF Listens, NoneActive
<1>10. UpToDate(work)'
  <2>1. \A i \in DOMAIN chain : i \in Nat
    BY LenProperties DEF TypeInv, EnvTyped
  <2>2. \A i \in DOMAIN chain : i <= behind => i <= after
    BY <1>3, <2>1
  <2>3. QED
    BY <1>1, <1>2, <2>2 DEF UpToDate, behind, after
<1>11. QED
  BY <1>7, <1>8, <1>9, <1>10 DEF RunLedger

\* When no run is under way, its ledger is that of the state.
LEMMA RestLedger ==
  ASSUME NEW proven, IsState(proven), Ledger(proven), Forget(proven), state' = proven,
         UNCHANGED chain
  PROVE  RunLedger'
<1>1. work' = proven /\ closed' = <<>> /\ active' = NoneActive /\ pc' = "idle"
  BY DEF Forget, Goto
<1>2. Settles(proven, proven, <<>>)
  BY NothingToSettle
<1>3. Settles(state, work, closed)'
  BY <1>1, <1>2 DEF Settles, MayReport, Behind
<1>4. Ledger(work)'
  BY <1>1 DEF Ledger, PendingInOrder, Behind
<1>5. Listens'
  BY <1>1 DEF Listens, NoneActive
<1>6. QED
  BY <1>1, <1>3, <1>4, <1>5 DEF RunLedger

\* The ledger is in order at the start.
LEMMA LedgerInit == Init => LedgerInv
<1>. SUFFICES ASSUME Init PROVE LedgerInv
  OBVIOUS
<1>1. state.action_chain = 0 /\ state.pending = <<>> /\ state.timestamp = 0
      /\ state.missed = {} /\ DOMAIN state.orders = {} /\ work = state
  BY DEF Init, Nothing
<1>2. now = 1 /\ chain = <<>> /\ reported = <<>> /\ closed = <<>> /\ active = NoneActive
      /\ pc = "idle"
  BY DEF Init
<1>3. Behind(state) = 0
  BY <1>1 DEF Behind
<1>4. Ledger(state)
  BY <1>1, <1>2, <1>3 DEF Ledger, PendingInOrder
<1>5. UpToDate(state) /\ ChainInOrder /\ OnRecord(state, reported)
  BY <1>1, <1>2 DEF UpToDate, ChainInOrder, OnRecord
<1>6. Settles(state, work, closed)
  BY <1>1, <1>2, <1>3 DEF Settles, MayReport
<1>7. Listens
  BY <1>2 DEF Listens, NoneActive
<1>8. QED
  BY <1>1, <1>2, <1>4, <1>5, <1>6, <1>7 DEF LedgerInv, RunLedger

\* An action of the environment, while no run is under way.
LEMMA EnvironmentLedger ==
  ASSUME TypeInv, TypeInv', LedgerInv, pc = "idle", ChainGrows, UNCHANGED <<state, reported, run>>
  PROVE  LedgerInv'
<1>1. now' \in Nat /\ chain' \in Seq(Action)
  BY ProgramAssumption DEF TypeInv, EnvTyped
<1>2. ChainInOrder'
  BY <1>1, ChainStaysInOrder DEF LedgerInv
<1>3. PICK s : s = state
  OBVIOUS
<1>4. Ledger(s)' /\ UpToDate(s)'
  BY <1>1, <1>3, GrowthKeepsLedgers DEF LedgerInv, TypeInv
<1>5. IsState(s) /\ state' = s /\ work' = s /\ closed' = <<>> /\ active' = NoneActive /\ pc' = "idle"
  BY <1>3 DEF LedgerInv, TypeInv, run
<1>6. Ledger(state)' /\ UpToDate(state)' /\ Ledger(work)'
  BY <1>4, <1>5 DEF Ledger, UpToDate, PendingInOrder, Behind
<1>7. Settles(state, work, closed)'
  <2>1. Settles(state, work, closed)
    BY DEF LedgerInv, RunLedger
  <2>2. QED
    BY <2>1 DEF Settles, MayReport, Behind, run
<1>8. Listens'
  BY <1>5 DEF Listens, NoneActive
<1>9. OnRecord(state, reported)'
  BY DEF LedgerInv, OnRecord, Behind
<1>10. QED
  BY <1>2, <1>5, <1>6, <1>7, <1>8, <1>9 DEF LedgerInv, RunLedger

\* The environment only ever adds to the chain of actions.
LEMMA EnvironmentGrows ==
  ASSUME TypeInv, TypeInv', Environment
  PROVE  ChainGrows /\ now' \in Nat /\ chain' \in Seq(Action)
<1>1. ASSUME NEW address \in Addresses, NEW size \in Sizes, AppendAction(address, size)
      PROVE  ChainGrows
  <2>1. PICK t \in Times : /\ now' = t
                           /\ chain' = Append(chain, [timestamp |-> t, address |-> address,
                                                      size |-> size])
    BY <1>1 DEF AppendAction
  <2>2. now \in Nat /\ now <= now' /\ t \in Nat
    BY <2>1, ProgramAssumption DEF Times, TypeInv, EnvTyped
  <2>. DEFINE action == [timestamp |-> t, address |-> address, size |-> size]
  <2>3. action \in Action /\ action.timestamp = t
    BY <2>2, ProgramAssumption DEF Action
  <2>4. chain' = Append(chain, action) /\ chain \in Seq(Action)
    BY <2>1 DEF TypeInv, EnvTyped
  <2>. HIDE DEF action
  <2>5. /\ Len(chain') = Len(chain) + 1 /\ chain'[Len(chain) + 1] = action
        /\ \A i \in 1..Len(chain) : chain'[i] = chain[i]
    BY <2>3, <2>4, AppendProperties
  <2>6. chain' \in Seq(Action) /\ Len(chain) \in Nat /\ DOMAIN chain = 1..Len(chain)
    BY <2>4, LenProperties DEF TypeInv, EnvTyped
  <2>7. DOMAIN chain' = 1..Len(chain) + 1
    BY <2>5, <2>6, LenProperties
  <2>8. QED
    BY <2>1, <2>2, <2>3, <2>5, <2>6, <2>7 DEF ChainGrows
<1>2. ASSUME NEW producer \in Producers, NEW list \in TxLists, ProduceBlock(producer, list)
      PROVE  ChainGrows
  <2>1. now \in Nat /\ now <= now' /\ chain' = chain
    BY <1>2, ProgramAssumption DEF ProduceBlock, Times, TypeInv, EnvTyped
  <2>2. Len(chain) \in Nat
    BY LenProperties DEF TypeInv, EnvTyped
  <2>3. QED
    BY <2>1, <2>2 DEF ChainGrows
<1>3. ASSUME NEW n \in 0..MaxBlocks, Reorganize(n) PROVE ChainGrows
  <2>1. now \in Nat /\ now' = now /\ chain' = chain
    BY <1>3, ProgramAssumption DEF Reorganize, TypeInv, EnvTyped
  <2>2. Len(chain) \in Nat
    BY LenProperties DEF TypeInv, EnvTyped
  <2>3. QED
    BY <2>1, <2>2 DEF ChainGrows
<1>4. now' \in Nat /\ chain' \in Seq(Action)
  BY ProgramAssumption DEF TypeInv, EnvTyped
<1>5. QED
  BY <1>1, <1>2, <1>3, <1>4 DEF Environment

\* Every step keeps the ledger in order.
LEMMA LedgerNext ==
  ASSUME TypeInv, LedgerInv, [Next]_vars
  PROVE  LedgerInv'
<1>0. TypeInv'
  BY TypedNext
<1>1. CASE Environment
  BY <1>0, <1>1, EnvironmentGrows, EnvironmentLedger
     DEF Environment, AppendAction, ProduceBlock, Reorganize
<1>2. ASSUME NEW skipped \in 0..MaxActions, NEW actionCount \in 0..MaxActions,
             NEW blockCount \in 1..MaxBlocks, Start(skipped, actionCount, blockCount)
      PROVE  LedgerInv'
  <2>1. PICK from : from = state
    OBVIOUS
  <2>2. IsState(from) /\ StartOn(from, skipped, actionCount, blockCount) /\ Ledger(from) /\ UpToDate(from)
        /\ state' = from
    BY <1>2, <2>1 DEF Start, TypeInv, LedgerInv
  <2>3. active = NoneActive /\ closed = <<>>
    BY <1>2 DEF LedgerInv, Start, StartOn
  <2>4. RunLedger'
    BY <2>2, <2>3, StartLedger
  <2>5. UNCHANGED <<chain, now, state, reported>> /\ pc' = "verify"
    BY <1>2 DEF Start, StartOn, env, Goto
  <2>6. QED
    BY <2>4, <2>5 DEF LedgerInv, ChainInOrder, Ledger, UpToDate, OnRecord, Behind, PendingInOrder
<1>3. CASE RunStep
  <2>1. RunLedger'
    BY <1>3, StepLedger DEF LedgerInv
  <2>2. UNCHANGED <<chain, now, state, reported>>
    BY <1>3 DEF RunStep, VerifyBlock, OpenOrder, CloseOrder, WalkThrough, IgnoreTx, CountTransfer,
           CountVote, FinishBlock, env
  <2>3. pc' # "idle"
    BY <1>3 DEF RunStep, VerifyBlock, OpenOrder, CloseOrder, WalkThrough, IgnoreTx, CountTransfer,
           CountVote, FinishBlock, Goto
  <2>4. QED
    BY <2>1, <2>2, <2>3
       DEF LedgerInv, ChainInOrder, Ledger, UpToDate, OnRecord, Behind, PendingInOrder
<1>4. CASE Commit
  <2>1. PICK proven : proven = work
    OBVIOUS
  <2>2. IsState(proven) /\ Ledger(proven) /\ UpToDate(proven)
    BY <1>4, <2>1 DEF Commit, TypeInv, RunTyped, LedgerInv, RunLedger
  <2>3. Forget(proven) /\ state' = proven /\ UNCHANGED <<chain, now>>
    BY <1>4, <2>1 DEF Commit, env
  <2>4. RunLedger'
    BY <2>2, <2>3, RestLedger
  <2>5. OnRecord(proven, reported \o closed)
    <3>1. PICK old : old = state
      OBVIOUS
    <3>2. IsState(old) /\ Ledger(old) /\ OnRecord(old, reported) /\ Settles(old, proven, closed)
      BY <2>1, <3>1 DEF TypeInv, LedgerInv, RunLedger
    <3>3. reported \in Reports /\ closed \in Reports
      BY DEF TypeInv, RunTyped
    <3>4. QED
      BY <2>2, <3>2, <3>3, RecordGrows
  <2>6. reported' = reported \o closed
    BY <1>4 DEF Commit
  <2>7. work' = proven /\ closed' = <<>> /\ active' = NoneActive
    BY <2>3 DEF Forget
  <2>8. Ledger(state)' /\ UpToDate(state)' /\ OnRecord(state, reported)'
    BY <2>2, <2>3, <2>5, <2>6 DEF Ledger, UpToDate, OnRecord, Behind, PendingInOrder
  <2>9. QED
    BY <2>3, <2>4, <2>7, <2>8 DEF LedgerInv, ChainInOrder
<1>5. CASE Abort
  <2>1. PICK proven : proven = state
    OBVIOUS
  <2>2. IsState(proven) /\ Ledger(proven)
    BY <2>1 DEF TypeInv, LedgerInv
  <2>3. Forget(proven) /\ state' = proven /\ UNCHANGED <<chain, now, reported, state>>
    BY <1>5, <2>1 DEF Abort, env
  <2>4. RunLedger'
    BY <2>2, <2>3, RestLedger
  <2>5. work' = state' /\ closed' = <<>> /\ active' = NoneActive
    BY <2>1, <2>3 DEF Forget
  <2>6. QED
    BY <2>3, <2>4, <2>5
       DEF LedgerInv, ChainInOrder, Ledger, UpToDate, OnRecord, Behind, PendingInOrder
<1>6. CASE UNCHANGED vars
  BY <1>6 DEF vars, env, run, LedgerInv, RunLedger, ChainInOrder, Ledger, UpToDate, OnRecord,
              Settles, MayReport, Listens, Behind, PendingInOrder
<1>7. QED
  BY <1>1, <1>2, <1>3, <1>4, <1>5, <1>6 DEF Next, Program, RunStep

\* The ledger is in order in every state.
LEMMA AlwaysLedger == Spec => []LedgerInv
BY LedgerInit, LedgerNext, AlwaysTyped, PTL DEF Spec

\* No order is reported twice, by one run or by several, and none that was reported
\* is still open, whatever runs are cut short and start again.
THEOREM EachClosedOnce == Spec => []ClosedOnce
<1>1. LedgerInv => ClosedOnce
  BY DEF LedgerInv, OnRecord, ClosedOnce
<1>2. QED
  BY <1>1, AlwaysLedger, PTL

\* No block is taken in ahead of an action that it reaches and that the state has not
\* come to, were actions left out or not.
THEOREM BlocksAreCovered == Spec => []ActionsCoverBlocks
<1>1. ASSUME TypeInv, LedgerInv PROVE ActionsCoverBlocks
  <2>1. IsState(state) /\ Ledger(state) /\ UpToDate(state)
    BY <1>1 DEF TypeInv, LedgerInv
  <2>. DEFINE behind == Behind(state)
              pending == state.pending
              known == state.action_chain
  <2>2. behind \in Nat /\ known \in Nat /\ behind <= known
    BY <2>1, BehindType
  <2>3. \A k \in DOMAIN pending : pending[k] \in behind + 1..known
    BY <2>1 DEF Ledger, PendingInOrder
  <2>4. \A i \in DOMAIN chain : chain[i].timestamp <= state.timestamp => i <= behind
    BY <2>1 DEF UpToDate
  <2>5. \A i \in DOMAIN chain : i \in Nat
    BY <1>1, LenProperties DEF TypeInv, EnvTyped
  <2>. HIDE DEF behind, pending, known
  <2>6. ASSUME NEW i \in DOMAIN chain, i <= behind
        PROVE  i <= known /\ i \notin ToSet(pending)
    BY <2>2, <2>3, <2>5, <2>6 DEF ToSet
  <2>7. QED
    BY <2>4, <2>6 DEF ActionsCoverBlocks, pending, known
<1>2. QED
  BY <1>1, AlwaysTyped, AlwaysLedger, PTL

(***************************************************************************)
(* Finality.                                                               *)
(*                                                                         *)
(* The light client sees a number of blocks and their producers.  The      *)
(* producers on the cycle are distinct, and those of the last FINALITY     *)
(* blocks are all on it when a run ends: that many producers built on top  *)
(* of the latest block that was taken in.                                  *)
(***************************************************************************)

\* A sequence that is a prefix of another one, element by element.
LEMMA PrefixProperties ==
  ASSUME NEW S, NEW s \in Seq(S), NEW t \in Seq(S)
  PROVE  IsPrefix(s, t) <=> Len(s) <= Len(t) /\ \A i \in 1..Len(s) : s[i] = t[i]
<1>. DEFINE n == Len(s)
<1>1. n \in Nat /\ Len(t) \in Nat
  BY LenProperties
<1>2. SubSeq(s, 1, n) = s
  BY SubSeqFull
<1>3. ASSUME n <= Len(t)
      PROVE  SubSeq(t, 1, n) = s <=> \A i \in 1..n : s[i] = t[i]
  <2>. DEFINE u == SubSeq(t, 1, n)
  <2>1. \A i \in 1..n : t[i] \in S
    BY <1>1, <1>3, ElementOfSeq
  <2>2. u \in Seq(S) /\ Len(u) = n /\ \A i \in 1..n : u[i] = t[i]
    BY <1>1, <2>1, SubSeqProperties
  <2>. HIDE DEF u
  <2>3. (\A i \in 1..n : s[i] = t[i]) => u = s
    BY <2>2, SeqEqual
  <2>4. u = s => \A i \in 1..n : s[i] = t[i]
    BY <2>2
  <2>5. QED
    BY <2>3, <2>4 DEF u
<1>4. IsPrefix(s, t) <=> n <= Len(t) /\ SubSeq(t, 1, n) = s
  BY <1>2 DEF IsPrefix
<1>. HIDE DEF n
<1>5. IsPrefix(s, t) <=> n <= Len(t) /\ \A i \in 1..n : s[i] = t[i]
  BY <1>3, <1>4
<1>6. QED
  BY <1>5 DEF n

\* No producer is on the cycle twice.
NoneTwice(s) == \A i, j \in 1..Len(s.cycle) : s.cycle[i] = s.cycle[j] => i = j

\* The blocks that a state took in are final.
Final(s) == Len(s.latest) <= solid /\ IsPrefix(s.latest, tron)

\* Tron keeps all the blocks that FINALITY producers built on.
KeptByTron == \A n \in Solidified(tron) : n <= solid

\* How many blocks on top of the latest one a run has verified.
OnTop == IF Len(blocks) < FINALITY THEN FINALITY - Len(blocks) ELSE 0

\* The blocks of a run are those of Tron, one after another, and the last
\* producers on its cycle are those of the blocks on top.
RunBlocks ==
  LET height == Len(work.latest)
      cycle  == work.cycle
  IN
  /\ height + OnTop + Len(blocks) <= Len(tron)
  /\ \A i \in 1..height : work.latest[i] = tron[i]
  /\ \A i \in 1..Len(blocks) : blocks[i] = tron[height + OnTop + i]
  /\ OnTop <= Len(cycle)
  /\ \A k \in 1..OnTop : cycle[Len(cycle) - OnTop + k] = tron[height + k].producer

\* A run takes in at least one block, on top of those it started from.
RunGrows ==
  /\ Len(state.latest) <= Len(work.latest)
  /\ \A i \in 1..Len(state.latest) : work.latest[i] = state.latest[i]
  /\ Len(blocks) <= FINALITY => Len(state.latest) < Len(work.latest)

RunFinality ==
  /\ NoneTwice(work)
  /\ pc # "idle" => RunBlocks /\ RunGrows
  /\ pc \in {"actions", "txs"} => Len(blocks) >= FINALITY

FinalityInv ==
  /\ KeptByTron /\ NoneTwice(state) /\ Final(state) /\ RunFinality
  /\ pc = "idle" => work = state

\* A block is verified: it is taken in, or it joins those on top.
LEMMA VerifyFinality ==
  ASSUME TypeInv, RunFinality, VerifyBlock
  PROVE  RunFinality'
<1>. DEFINE latest == work.latest
            height == Len(latest)
            cycle == work.cycle
            shifted == Shifted(cycle)
            block == Head(blocks)
            producer == block.producer
            next == Append(shifted, producer)
            b == Len(blocks)
            left == Tail(blocks)
            onTop == OnTop
            c == Len(cycle)
<1>1. IsState(work) /\ blocks \in Seq(Block) /\ blocks # <<>> /\ tron \in Seq(Block)
  BY DEF TypeInv, RunTyped, EnvTyped, VerifyBlock
<1>2. latest \in Seq(Block) /\ cycle \in Seq(Producers) /\ c <= FINALITY
  BY <1>1 DEF IsState
<1>3. pc = "verify" /\ blocks' = left /\ UNCHANGED <<tron, state>> /\ ~IsRecent(producer, cycle)
  BY DEF VerifyBlock, env
<1>4. RunBlocks /\ RunGrows
  BY <1>3 DEF RunFinality
<1>5. /\ height + onTop + b <= Len(tron)
      /\ \A i \in 1..height : latest[i] = tron[i]
      /\ \A i \in 1..b : blocks[i] = tron[height + onTop + i]
      /\ onTop <= c
      /\ \A k \in 1..onTop : cycle[c - onTop + k] = tron[height + k].producer
  BY <1>4 DEF RunBlocks
<1>6. /\ block \in Block /\ left \in Seq(Block) /\ Len(left) = b - 1 /\ block = blocks[1]
      /\ \A i \in 1..Len(left) : left[i] = blocks[i + 1]
  BY <1>1, HeadTailProperties
<1>7. b \in Nat /\ b >= 1 /\ height \in Nat /\ c \in Nat /\ Len(tron) \in Nat
  BY <1>1, <1>2, LenProperties, EmptySeq
<1>8. producer \in Producers
  BY <1>6 DEF Block
<1>9. /\ shifted \in Seq(Producers) /\ Len(shifted) < FINALITY
      /\ Len(shifted) = IF c = FINALITY THEN FINALITY - 1 ELSE c
      /\ \A i \in 1..Len(shifted) : shifted[i] = IF c = FINALITY THEN cycle[i + 1] ELSE cycle[i]
  <2>. HIDE DEF cycle
  <2>. QED
    BY <1>2, ShiftedProperties
<1>10. /\ next \in Seq(Producers) /\ Len(next) = Len(shifted) + 1
       /\ next[Len(shifted) + 1] = producer
       /\ \A i \in 1..Len(shifted) : next[i] = shifted[i]
  <2>. HIDE DEF shifted, producer
  <2>. QED
    BY <1>8, <1>9, AppendProperties
<1>11. /\ work'.cycle = next
       /\ work'.latest = IF IsUnfinalized(blocks) THEN latest ELSE Append(latest, block)
  BY <1>1, VerifyFields
<1>12. onTop = IF b < FINALITY THEN FINALITY - b ELSE 0
  BY DEF OnTop
<1>13. OnTop' = IF b - 1 < FINALITY THEN FINALITY - (b - 1) ELSE 0
  BY <1>3, <1>6 DEF OnTop
<1>14. NoneTwice(work)'
  <2>1. \A i, j \in 1..c : cycle[i] = cycle[j] => i = j
    BY DEF RunFinality, NoneTwice
  <2>2. \A i \in 1..Len(shifted) : shifted[i] # producer
    <3>1. DOMAIN shifted = 1..Len(shifted)
      <4>. HIDE DEF shifted
      <4>. QED
        BY <1>9, LenProperties
    <3>2. QED
      BY <1>3, <3>1 DEF IsRecent, ToSet
  <2>3. Len(shifted) \in Nat
    <3>. HIDE DEF shifted
    <3>. QED
      BY <1>9, LenProperties
  <2>. HIDE DEF cycle, shifted, producer, next, c
  <2>4. \A i, j \in 1..Len(shifted) : shifted[i] = shifted[j] => i = j
    <3>1. CASE c = FINALITY
      <4>1. \A i \in 1..Len(shifted) : i + 1 \in 1..c /\ shifted[i] = cycle[i + 1]
        BY <1>7, <1>9, <2>3, <3>1
      <4>2. QED
        BY <2>1, <2>3, <4>1
    <3>2. CASE c # FINALITY
      BY <1>7, <1>9, <2>1, <3>2
    <3>3. QED
      BY <3>1, <3>2
  <2>5. \A i \in 1..Len(next) : i \in 1..Len(shifted) \/ i = Len(shifted) + 1
    BY <1>10, <2>3
  <2>6. ASSUME NEW i \in 1..Len(next), NEW j \in 1..Len(next), next[i] = next[j] PROVE i = j
    <3>1. CASE i \in 1..Len(shifted) /\ j \in 1..Len(shifted)
      BY <1>10, <2>4, <2>6, <3>1
    <3>2. CASE i = Len(shifted) + 1 /\ j = Len(shifted) + 1
      BY <3>2
    <3>3. CASE i \in 1..Len(shifted) /\ j = Len(shifted) + 1
      BY <1>10, <2>2, <2>6, <3>3
    <3>4. CASE i = Len(shifted) + 1 /\ j \in 1..Len(shifted)
      BY <1>10, <2>2, <2>6, <3>4
    <3>5. QED
      BY <2>5, <3>1, <3>2, <3>3, <3>4
  <2>7. QED
    BY <1>11, <2>6 DEF NoneTwice
<1>15. CASE IsUnfinalized(blocks)
  <2>1. b <= FINALITY /\ pc' = "verify"
    BY <1>3, <1>15 DEF IsUnfinalized, VerifyBlock
  <2>2. work'.latest = latest
    BY <1>11, <1>15
  <2>. HIDE DEF latest, height, cycle, shifted, block, producer, next, b, left, onTop, c
  <2>3. OnTop' = onTop + 1 /\ onTop \in Nat /\ onTop + 1 <= FINALITY
    BY <1>7, <1>12, <1>13, <2>1, ProgramAssumption
  <2>4. Len(shifted) \in Nat /\ onTop <= Len(shifted)
    BY <1>5, <1>7, <1>9, <2>3, ProgramAssumption
  <2>5. ASSUME NEW k \in 1..onTop PROVE shifted[Len(shifted) - onTop + k] = tron[height + k].producer
    <3>1. Len(shifted) - onTop + k \in 1..Len(shifted)
      BY <2>3, <2>4
    <3>2. shifted[Len(shifted) - onTop + k] = cycle[c - onTop + k]
      <4>1. CASE c = FINALITY
        <5>1. (Len(shifted) - onTop + k) + 1 = c - onTop + k
          BY <1>7, <1>9, <2>3, <2>4, <4>1
        <5>2. shifted[Len(shifted) - onTop + k] = cycle[(Len(shifted) - onTop + k) + 1]
          BY <1>9, <3>1, <4>1
        <5>3. QED
          BY <5>1, <5>2
      <4>2. CASE c # FINALITY
        BY <1>9, <3>1, <4>2
      <4>3. QED
        BY <4>1, <4>2
    <3>3. QED
      BY <1>5, <3>2
  <2>6. ASSUME NEW k \in 1..onTop + 1
        PROVE  next[Len(next) - (onTop + 1) + k] = tron[height + k].producer
    <3>1. CASE k = onTop + 1
      <4>1. Len(next) - (onTop + 1) + k = Len(shifted) + 1
        BY <1>10, <2>3, <2>4, <3>1
      <4>2. producer = tron[height + onTop + 1].producer
        <5>1. block = tron[height + onTop + 1]
          BY <1>5, <1>6, <1>7
        <5>2. QED
          BY <5>1 DEF producer
      <4>3. height + k = height + onTop + 1
        BY <1>7, <2>3, <3>1
      <4>4. QED
        BY <1>10, <4>1, <4>2, <4>3
    <3>2. CASE k \in 1..onTop
      <4>1. Len(next) - (onTop + 1) + k = Len(shifted) - onTop + k
        BY <1>10, <2>3, <2>4, <3>2
      <4>2. Len(shifted) - onTop + k \in 1..Len(shifted)
        BY <2>3, <2>4, <3>2
      <4>3. QED
        BY <1>10, <2>5, <3>2, <4>1, <4>2
    <3>3. QED
      BY <2>3, <3>1, <3>2
  <2>7. onTop + 1 <= Len(next)
    BY <1>10, <2>3, <2>4
  <2>8. height + (onTop + 1) + Len(left) <= Len(tron)
    BY <1>5, <1>6, <1>7, <2>3
  <2>9. ASSUME NEW i \in 1..Len(left) PROVE left[i] = tron[height + (onTop + 1) + i]
    <3>1. i + 1 \in 1..b /\ left[i] = blocks[i + 1]
      BY <1>6, <1>7
    <3>2. height + onTop + (i + 1) = height + (onTop + 1) + i
      BY <1>6, <1>7, <2>3
    <3>3. QED
      BY <1>5, <3>1, <3>2
  <2>10. RunBlocks'
    <3>1. Len(work'.latest) = height
      BY <2>2 DEF height
    <3>2. QED
      BY <1>3, <1>5, <1>11, <2>2, <2>3, <2>6, <2>7, <2>8, <2>9, <3>1 DEF RunBlocks, latest
  <2>11. RunGrows'
    <3>1. b <= FINALITY /\ Len(left) <= FINALITY
      BY <1>6, <1>7, <2>1, ProgramAssumption
    <3>2. QED
      BY <1>3, <1>4, <2>2, <3>1 DEF RunGrows, latest, b
  <2>12. QED
    BY <1>14, <2>1, <2>10, <2>11 DEF RunFinality
<1>16. CASE ~IsUnfinalized(blocks)
  <2>. DEFINE longer == Append(latest, block)
  <2>1. ~(b <= FINALITY)
    BY <1>16 DEF IsUnfinalized
  <2>2. work'.latest = longer
    BY <1>11, <1>16
  <2>3. /\ longer \in Seq(Block) /\ Len(longer) = height + 1 /\ longer[height + 1] = block
        /\ \A i \in 1..height : longer[i] = latest[i]
    <3>. HIDE DEF latest, block
    <3>. QED
      BY <1>2, <1>6, AppendProperties
  <2>4. Len(state.latest) <= height /\ Len(state.latest) \in Nat
        /\ \A i \in 1..Len(state.latest) : latest[i] = state.latest[i]
    <3>1. state.latest \in Seq(Block)
      BY DEF TypeInv, IsState
    <3>2. Len(state.latest) \in Nat
      BY <3>1, LenProperties
    <3>3. QED
      BY <1>4, <3>2 DEF RunGrows
  <2>. HIDE DEF latest, height, cycle, shifted, block, producer, next, b, left, onTop, c, longer
  <2>5. OnTop' = 0 /\ onTop = 0 /\ b - 1 >= FINALITY
    BY <1>7, <1>12, <1>13, <2>1, ProgramAssumption
  <2>6. height + 1 + 0 + Len(left) <= Len(tron)
    BY <1>5, <1>6, <1>7, <2>5
  <2>7. ASSUME NEW i \in 1..Len(left) PROVE left[i] = tron[height + 1 + 0 + i]
    <3>1. i + 1 \in 1..b /\ left[i] = blocks[i + 1]
      BY <1>6, <1>7
    <3>2. height + onTop + (i + 1) = height + 1 + 0 + i
      BY <1>6, <1>7, <2>5
    <3>3. QED
      BY <1>5, <3>1, <3>2
  <2>8. block = tron[height + 1]
    <3>1. blocks[1] = tron[height + onTop + 1] /\ height + onTop + 1 = height + 1
      BY <1>5, <1>7, <2>5
    <3>2. QED
      BY <1>6, <3>1
  <2>9. \A i \in 1..height + 1 : longer[i] = tron[i]
    BY <1>5, <1>7, <2>3, <2>8
  <2>10. RunBlocks'
    <3>1. 0 <= Len(next)
      BY <1>10, LenProperties
    <3>2. Len(work'.latest) = height + 1
      BY <2>2, <2>3
    <3>3. \A i \in 1..height + 1 : work'.latest[i] = tron'[i]
      BY <1>3, <2>2, <2>9
    <3>4. Len(work'.latest) + OnTop' + Len(blocks') <= Len(tron')
      BY <1>3, <2>5, <2>6, <3>2
    <3>5. \A i \in 1..Len(blocks') : blocks'[i] = tron'[Len(work'.latest) + OnTop' + i]
      BY <1>3, <2>5, <2>7, <3>2
    <3>6. OnTop' <= Len(work'.cycle)
      BY <1>11, <2>5, <3>1
    <3>7. 1..OnTop' = {}
      BY <2>5
    <3>8. QED
      BY <3>2, <3>3, <3>4, <3>5, <3>6, <3>7 DEF RunBlocks
  <2>11. RunGrows'
    <3>1. Len(state.latest) < height + 1
      BY <1>7, <2>4
    <3>2. \A i \in 1..Len(state.latest) : longer[i] = state.latest[i]
      BY <1>7, <2>3, <2>4
    <3>3. QED
      BY <1>3, <2>2, <2>3, <3>1, <3>2, <1>7, <2>4 DEF RunGrows
  <2>12. Len(blocks') >= FINALITY
    BY <1>3, <1>6, <2>5
  <2>13. QED
    BY <1>14, <2>10, <2>11, <2>12 DEF RunFinality
<1>17. QED
  BY <1>15, <1>16

\* The steps that look at the contents of a block.
LEMMA ContentsFinality ==
  ASSUME TypeInv, RunFinality,
         \/ OpenOrder \/ CloseOrder \/ WalkThrough \/ IgnoreTx \/ CountTransfer \/ CountVote
         \/ FinishBlock
  PROVE  RunFinality'
<1>1. IsState(work) /\ tron \in Seq(Block) /\ blocks \in Seq(Block)
  BY DEF TypeInv, RunTyped, EnvTyped
<1>2. pc \in {"actions", "txs"}
  BY DEF OpenOrder, CloseOrder, WalkThrough, IgnoreTx, CountTransfer, CountVote, FinishBlock
<1>3. RunBlocks /\ RunGrows /\ Len(blocks) >= FINALITY /\ NoneTwice(work)
  BY <1>2 DEF RunFinality
<1>4. UNCHANGED <<tron, state, blocks>>
  BY DEF OpenOrder, CloseOrder, WalkThrough, IgnoreTx, CountTransfer, CountVote, FinishBlock, env
<1>5. /\ work'.latest = work.latest
      /\ work'.cycle = work.cycle \/ work'.cycle = <<>>
  <2>1. CASE OpenOrder
    BY <1>1, <2>1, OpenFields
  <2>2. CASE CloseOrder
    BY <1>1, <2>2, CloseFields
  <2>3. CASE WalkThrough \/ IgnoreTx
    BY <2>3 DEF WalkThrough, IgnoreTx
  <2>4. CASE CountTransfer
    BY <1>1, <2>4, TransferFields
  <2>5. CASE CountVote
    BY <1>1, <2>5, VoteFields
  <2>6. CASE FinishBlock
    BY <1>1, <2>6, FinishFields
  <2>7. QED
    BY <2>1, <2>2, <2>3, <2>4, <2>5, <2>6
<1>. DEFINE b == Len(blocks)
<1>6. OnTop = 0 /\ OnTop' = 0
  <2>1. b \in Nat /\ b >= FINALITY
    BY <1>1, <1>3, LenProperties
  <2>2. OnTop = (IF b < FINALITY THEN FINALITY - b ELSE 0) /\ OnTop' = OnTop
    BY <1>4 DEF OnTop
  <2>. HIDE DEF b
  <2>3. QED
    BY <2>1, <2>2, ProgramAssumption
<1>7. NoneTwice(work)'
  <2>1. CASE work'.cycle = work.cycle
    BY <1>3, <2>1 DEF NoneTwice
  <2>2. CASE work'.cycle = <<>>
    <3>1. 1..Len(work'.cycle) = {}
      BY <2>2
    <3>2. QED
      BY <3>1 DEF NoneTwice
  <2>3. QED
    BY <1>5, <2>1, <2>2
<1>8. RunBlocks'
  <2>1. 0 <= Len(work'.cycle)
    <3>1. CASE work'.cycle = work.cycle
      BY <1>3, <1>6, <3>1 DEF RunBlocks
    <3>2. CASE work'.cycle = <<>>
      BY <3>2
    <3>3. QED
      BY <1>5, <3>1, <3>2
  <2>2. 1..OnTop' = {}
    BY <1>6
  <2>3. Len(work'.latest) = Len(work.latest)
    BY <1>5
  <2>4. OnTop' <= Len(work'.cycle)
    BY <1>6, <2>1
  <2>5. Len(work'.latest) + OnTop' + Len(blocks') <= Len(tron')
    BY <1>3, <1>4, <1>6, <2>3 DEF RunBlocks
  <2>6. \A i \in 1..Len(work'.latest) : work'.latest[i] = tron'[i]
    BY <1>3, <1>4, <1>5, <2>3 DEF RunBlocks
  <2>7. \A i \in 1..Len(blocks') : blocks'[i] = tron'[Len(work'.latest) + OnTop' + i]
    BY <1>3, <1>4, <1>6, <2>3 DEF RunBlocks
  <2>8. QED
    BY <2>2, <2>4, <2>5, <2>6, <2>7 DEF RunBlocks
<1>9. RunGrows'
  <2>1. Len(work'.latest) = Len(work.latest)
    BY <1>5
  <2>2. QED
    BY <1>3, <1>4, <1>5, <2>1 DEF RunGrows
<1>10. QED
  BY <1>3, <1>4, <1>7, <1>8, <1>9 DEF RunFinality

\* Every step of a run keeps its blocks in line with Tron.
LEMMA StepFinality ==
  ASSUME TypeInv, RunFinality, RunStep
  PROVE  RunFinality'
BY VerifyFinality, ContentsFinality DEF RunStep

\* A run that starts from a final state has its blocks in order.
LEMMA StartFinality ==
  ASSUME TypeInv, NEW from, IsState(from), NoneTwice(from),
         NEW skipped \in Nat, NEW actionCount \in Nat, NEW blockCount \in Nat,
         StartOn(from, skipped, actionCount, blockCount), state' = from
  PROVE  RunFinality'
<1>. DEFINE latest == from.latest
            height == Len(latest)
            next == SubSeq(tron, height + 1, height + blockCount)
<1>1. latest \in Seq(Block) /\ tron \in Seq(Block)
  BY DEF IsState, TypeInv, EnvTyped
<1>2. height \in Nat /\ Len(tron) \in Nat
  BY <1>1, LenProperties
<1>3. blockCount > FINALITY /\ height + blockCount <= Len(tron) /\ FINALITY \in Nat
  BY ProgramAssumption DEF StartOn
<1>4. \A i \in 1..height : latest[i] = tron[i]
  <2>1. IsPrefix(latest, tron)
    BY DEF StartOn, Extends
  <2>. HIDE DEF latest
  <2>2. QED
    BY <1>1, <2>1, PrefixProperties
<1>5. work'.latest = latest /\ work'.cycle = from.cycle /\ blocks' = next /\ tron' = tron
      /\ pc' = "verify"
  BY StartFields DEF StartOn, env, Goto
<1>6. Len(next) = blockCount /\ \A i \in 1..blockCount : next[i] = tron[height + i]
  <2>. HIDE DEF height, latest
  <2>1. \A i \in height + 1..height + blockCount : tron[i] \in Block
    BY <1>1, <1>2, <1>3, ElementOfSeq
  <2>2. /\ Len(next) = IF height + 1 <= height + blockCount
                         THEN (height + blockCount) - (height + 1) + 1 ELSE 0
        /\ \A i \in 1..(height + blockCount) - (height + 1) + 1 :
             next[i] = tron[(height + 1) + i - 1]
    BY <1>2, <2>1, SubSeqProperties
  <2>. HIDE DEF next
  <2>3. Len(next) = blockCount
    BY <1>2, <1>3, <2>2
  <2>4. \A i \in 1..blockCount : i \in 1..(height + blockCount) - (height + 1) + 1
                                 /\ (height + 1) + i - 1 = height + i
    BY <1>2, <1>3
  <2>5. QED
    BY <2>2, <2>3, <2>4
<1>7. OnTop' = 0
  BY <1>3, <1>5, <1>6 DEF OnTop
<1>8. from.cycle \in Seq(Producers)
  BY DEF IsState
<1>. HIDE DEF next
<1>9. RunBlocks'
  <2>1. 1..OnTop' = {}
    BY <1>7
  <2>2. OnTop' <= Len(work'.cycle)
    BY <1>5, <1>7, <1>8, LenProperties
  <2>3. Len(work'.latest) = height /\ Len(blocks') = blockCount
    BY <1>5, <1>6
  <2>4. Len(work'.latest) + OnTop' + Len(blocks') <= Len(tron')
    BY <1>2, <1>3, <1>5, <1>7, <2>3
  <2>5. \A i \in 1..Len(work'.latest) : work'.latest[i] = tron'[i]
    BY <1>4, <1>5, <2>3
  <2>6. \A i \in 1..Len(blocks') : blocks'[i] = tron'[Len(work'.latest) + OnTop' + i]
    BY <1>2, <1>5, <1>6, <1>7, <2>3
  <2>7. QED
    BY <2>1, <2>2, <2>4, <2>5, <2>6 DEF RunBlocks
<1>10. RunGrows'
  <2>1. Len(work'.latest) = height /\ Len(state'.latest) = height /\ Len(blocks') = blockCount
    BY <1>5, <1>6
  <2>2. \A i \in 1..height : work'.latest[i] = state'.latest[i]
    BY <1>5
  <2>. HIDE DEF height
  <2>3. QED
    BY <1>2, <1>3, <2>1, <2>2 DEF RunGrows
<1>11. NoneTwice(work)'
  BY <1>5 DEF NoneTwice
<1>12. QED
  BY <1>5, <1>9, <1>10, <1>11 DEF RunFinality

\* The producers of blocks are producers.
LEMMA ProducersOfBlocks ==
  ASSUME NEW t \in Seq(Block)
  PROVE  \A i \in DOMAIN t : t[i].producer \in Producers
<1>1. \A i \in DOMAIN t : t[i] \in Block
  OBVIOUS
<1>2. QED
  BY <1>1 DEF Block

\* When the blocks of a run are used up, the ones that it took in are final:
\* FINALITY producers built on them.
LEMMA EndIsFinal ==
  ASSUME TypeInv, KeptByTron, RunFinality, pc = "verify", blocks = <<>>
  PROVE  Final(work) /\ Len(state.latest) < Len(work.latest)
<1>. DEFINE latest == work.latest
            height == Len(latest)
            cycle == work.cycle
            c == Len(cycle)
            t == Len(tron)
<1>1. latest \in Seq(Block) /\ cycle \in Seq(Producers) /\ tron \in Seq(Block) /\ solid \in Nat
  BY DEF TypeInv, RunTyped, EnvTyped, IsState
<1>2. height \in Nat /\ c \in Nat /\ t \in Nat /\ FINALITY \in Nat \ {0}
  BY <1>1, LenProperties, ProgramAssumption
<1>3. OnTop = FINALITY
  BY <1>2 DEF OnTop
<1>4. RunBlocks /\ RunGrows /\ NoneTwice(work)
  BY DEF RunFinality
<1>5. /\ height + FINALITY + 0 <= t /\ FINALITY <= c
      /\ \A i \in 1..height : latest[i] = tron[i]
      /\ \A k \in 1..FINALITY : cycle[c - FINALITY + k] = tron[height + k].producer
  BY <1>3, <1>4 DEF RunBlocks
<1>6. \A i, j \in 1..c : cycle[i] = cycle[j] => i = j
  BY <1>4 DEF NoneTwice
<1>7. Len(state.latest) < height
  BY <1>2, <1>4 DEF RunGrows
<1>8. Len(state.latest) \in Nat
  <2>1. state.latest \in Seq(Block)
    BY DEF TypeInv, IsState
  <2>2. QED
    BY <2>1, LenProperties
<1>9. height \in Solidified(tron)
  <2>. DEFINE f == [k \in 1..FINALITY |-> tron[height + k].producer]
              K == 1..FINALITY
              P == {tron[i].producer : i \in height + 1..t}
  <2>1. \A k \in K : f[k] \in P
    <3>. HIDE DEF height, t
    <3>1. \A k \in K : height + k \in height + 1..t
      BY <1>2, <1>5
    <3>2. QED
      BY <3>1
  <2>2. \A k, m \in K : f[k] = f[m] => k = m
    <3>1. \A k \in K : f[k] = cycle[c - FINALITY + k]
      BY <1>5
    <3>. HIDE DEF height, t, f, cycle, c, P
    <3>2. \A k \in K : c - FINALITY + k \in 1..c
      BY <1>2, <1>5
    <3>3. ASSUME NEW k \in K, NEW m \in K, f[k] = f[m] PROVE k = m
      <4>1. c - FINALITY + k = c - FINALITY + m
        BY <1>6, <3>1, <3>2, <3>3
      <4>2. QED
        BY <1>2, <4>1
    <3>4. QED
      BY <3>3
  <2>3. IsFiniteSet(P)
    <3>1. height + 1..t \subseteq DOMAIN tron
      <4>. HIDE DEF height
      <4>. QED
        BY <1>1, <1>2, LenProperties
    <3>2. P \subseteq Producers
      BY <1>1, <3>1, ProducersOfBlocks
    <3>3. QED
      BY <3>2, FS_Subset, ProgramAssumption
  <2>4. IsFiniteSet(K) /\ Cardinality(K) = FINALITY
    <3>. DEFINE n == FINALITY
    <3>1. n \in Nat \ {0}
      BY <1>2
    <3>. HIDE DEF n
    <3>2. Cardinality(1..n) = (IF 1 > n THEN 0 ELSE n - 1 + 1) /\ IsFiniteSet(1..n)
      BY <3>1, FS_Interval
    <3>3. Cardinality(1..n) = n
      BY <3>1, <3>2
    <3>4. QED
      BY <3>2, <3>3 DEF n
  <2>5. f \in Injection(K, P)
    <3>1. f \in [K -> P]
      BY <2>1
    <3>. HIDE DEF f, K, P
    <3>2. QED
      BY <2>2, <3>1 DEF Injection, IsInjective
  <2>. HIDE DEF f, K, P
  <2>6. Cardinality(K) <= Cardinality(P)
    BY <2>3, <2>5, FS_Injection
  <2>7. Cardinality(P) \in Nat
    BY <2>3, FS_CardinalityType
  <2>8. Cardinality(P) >= FINALITY
    BY <1>2, <2>4, <2>6, <2>7
  <2>9. height \in 1..t
    BY <1>2, <1>5, <1>7, <1>8
  <2>10. QED
    BY <2>8, <2>9 DEF Solidified, P, t
<1>10. height <= solid
  BY <1>9 DEF KeptByTron
<1>11. IsPrefix(latest, tron)
  <2>. HIDE DEF latest
  <2>1. Len(latest) <= Len(tron) /\ \A i \in 1..Len(latest) : latest[i] = tron[i]
    BY <1>2, <1>5 DEF height, t
  <2>2. QED
    BY <1>1, <2>1, PrefixProperties
<1>12. QED
  BY <1>7, <1>10, <1>11 DEF Final

\* A new block leaves final what is final.
LEMMA ProduceFinality ==
  ASSUME TypeInv, TypeInv', KeptByTron, NEW producer, NEW list, ProduceBlock(producer, list)
  PROVE  /\ KeptByTron'
         /\ \A s : IsState(s) /\ Final(s) => Final(s)'
<1>1. tron \in Seq(Block) /\ tron' \in Seq(Block) /\ solid \in 0..Len(tron) /\ solid' \in Nat
  BY LenProperties DEF TypeInv, EnvTyped
<1>2. PICK block : tron' = Append(tron, block)
  BY DEF ProduceBlock
<1>3. Len(tron) \in Nat /\ Len(tron') = Len(tron) + 1
      /\ \A i \in 1..Len(tron) : tron'[i] = tron[i]
  BY <1>1, <1>2, LenProperties
<1>4. solid \in 0..Len(tron')
  BY <1>1, <1>3
<1>5. solid' = Max({solid} \cup Solidified(tron'))
  BY DEF ProduceBlock
<1>6. solid <= solid' /\ \A n \in Solidified(tron') : n <= solid'
  BY <1>1, <1>4, <1>5, SolidType
<1>7. ASSUME NEW s, IsState(s), Final(s) PROVE Final(s)'
  <2>. DEFINE latest == s.latest
  <2>1. latest \in Seq(Block) /\ Len(latest) <= solid /\ IsPrefix(latest, tron)
    BY <1>7 DEF IsState, Final
  <2>. HIDE DEF latest
  <2>2. Len(latest) \in Nat
    BY <2>1, LenProperties
  <2>3. Len(latest) <= Len(tron) /\ \A i \in 1..Len(latest) : latest[i] = tron[i]
    BY <1>1, <2>1, PrefixProperties
  <2>4. Len(latest) <= Len(tron') /\ \A i \in 1..Len(latest) : latest[i] = tron'[i]
    BY <1>3, <2>2, <2>3
  <2>5. IsPrefix(latest, tron')
    BY <1>1, <2>1, <2>4, PrefixProperties
  <2>6. Len(latest) <= solid'
    BY <1>1, <1>6, <2>1, <2>2
  <2>7. QED
    BY <2>5, <2>6 DEF Final, latest
<1>8. QED
  BY <1>6, <1>7 DEF KeptByTron

\* A reorganization leaves final what is final.
LEMMA ReorganizeFinality ==
  ASSUME TypeInv, TypeInv', KeptByTron, NEW n \in Nat, Reorganize(n)
  PROVE  /\ KeptByTron'
         /\ \A s : IsState(s) /\ Final(s) => Final(s)'
<1>1. tron \in Seq(Block) /\ tron' \in Seq(Block) /\ solid \in Nat /\ Len(tron) \in Nat
  BY LenProperties DEF TypeInv, EnvTyped
<1>2. solid <= n /\ n < Len(tron) /\ tron' = SubSeq(tron, 1, n) /\ solid' = solid
  BY DEF Reorganize
<1>3. Len(tron') = n /\ \A i \in 1..n : tron'[i] = tron[i]
  <2>1. \A i \in 1..n : tron[i] \in Block
    BY <1>1, <1>2, ElementOfSeq
  <2>2. QED
    BY <1>2, <2>1, SubSeqProperties
<1>4. ASSUME NEW m \in Solidified(tron') PROVE m \in Solidified(tron)
  <2>. DEFINE P == {tron'[i].producer : i \in m + 1..n}
              Q == {tron[i].producer : i \in m + 1..Len(tron)}
  <2>1. m \in 1..n /\ Cardinality(P) >= FINALITY
    BY <1>3 DEF Solidified
  <2>2. P \subseteq Q
    BY <1>1, <1>2, <1>3, <2>1
  <2>3. IsFiniteSet(Q)
    <3>1. m + 1..Len(tron) \subseteq DOMAIN tron
      BY <1>1, <2>1, LenProperties
    <3>2. Q \subseteq Producers
      BY <1>1, <3>1, ProducersOfBlocks
    <3>3. QED
      BY <3>2, FS_Subset, ProgramAssumption
  <2>. HIDE DEF P, Q
  <2>4. IsFiniteSet(P) /\ Cardinality(P) <= Cardinality(Q)
    BY <2>2, <2>3, FS_Subset
  <2>5. Cardinality(P) \in Nat /\ Cardinality(Q) \in Nat
    BY <2>3, <2>4, FS_CardinalityType
  <2>6. Cardinality(Q) >= FINALITY
    BY <2>1, <2>4, <2>5, ProgramAssumption
  <2>7. m \in 1..Len(tron)
    BY <1>1, <1>2, <2>1
  <2>8. QED
    BY <2>6, <2>7 DEF Solidified, Q
<1>5. KeptByTron'
  BY <1>2, <1>4 DEF KeptByTron
<1>6. ASSUME NEW s, IsState(s), Final(s) PROVE Final(s)'
  <2>. DEFINE latest == s.latest
  <2>1. latest \in Seq(Block) /\ Len(latest) <= solid /\ IsPrefix(latest, tron)
    BY <1>6 DEF IsState, Final
  <2>. HIDE DEF latest
  <2>2. Len(latest) \in Nat
    BY <2>1, LenProperties
  <2>3. \A i \in 1..Len(latest) : latest[i] = tron[i]
    BY <1>1, <2>1, PrefixProperties
  <2>4. Len(latest) <= Len(tron') /\ \A i \in 1..Len(latest) : latest[i] = tron'[i]
    BY <1>1, <1>2, <1>3, <2>1, <2>2, <2>3
  <2>5. IsPrefix(latest, tron')
    BY <1>1, <2>1, <2>4, PrefixProperties
  <2>6. QED
    BY <1>2, <2>1, <2>5 DEF Final, latest
<1>7. QED
  BY <1>5, <1>6

\* At the start no block was taken in.
LEMMA FinalityInit == Init => FinalityInv
<1>. SUFFICES ASSUME Init PROVE FinalityInv
  OBVIOUS
<1>1. state.latest = <<>> /\ state.cycle = <<>> /\ work = state /\ tron = <<>> /\ solid = 0
      /\ pc = "idle"
  BY DEF Init
<1>2. Solidified(tron) = {}
  BY <1>1 DEF Solidified
<1>3. NoneTwice(state)
  <2>1. 1..Len(state.cycle) = {}
    BY <1>1
  <2>2. QED
    BY <2>1 DEF NoneTwice
<1>4. Final(state)
  <2>1. PICK none : none = <<>>
    OBVIOUS
  <2>. DEFINE n == Len(none)
  <2>2. n = 0
    BY <2>1, EmptySeq
  <2>. HIDE DEF n
  <2>3. SubSeq(none, 1, n) = SubSeq(none, 1, n) /\ n <= n
    BY <2>2
  <2>4. IsPrefix(none, none)
    BY <2>3 DEF IsPrefix, n
  <2>5. state.latest = none /\ tron = none
    BY <1>1, <2>1
  <2>6. n <= solid
    BY <1>1, <2>2
  <2>7. QED
    BY <2>4, <2>5, <2>6 DEF Final, n
<1>5. QED
  BY <1>1, <1>2, <1>3, <1>4 DEF FinalityInv, KeptByTron, RunFinality, NoneTwice

\* Every step keeps the blocks that were taken in final.
LEMMA FinalityNext ==
  ASSUME TypeInv, FinalityInv, [Next]_vars
  PROVE  FinalityInv'
<1>0. TypeInv'
  BY TypedNext
<1>. DEFINE Remaining == /\ NoneTwice(state)' /\ Final(state)' /\ pc' = "idle" /\ work' = state'
<1>1. ASSUME Remaining, KeptByTron' PROVE FinalityInv'
  BY <1>1 DEF FinalityInv, RunFinality, NoneTwice
<1>2. PICK s : s = state
  OBVIOUS
<1>3. IsState(s) /\ Final(s) /\ NoneTwice(s)
  BY <1>2 DEF TypeInv, FinalityInv
<1>4. ASSUME NEW address \in Addresses, NEW size \in Sizes, AppendAction(address, size)
      PROVE  FinalityInv'
  <2>1. pc = "idle" /\ UNCHANGED <<tron, solid, state, run>>
    BY <1>4 DEF AppendAction
  <2>2. Remaining /\ KeptByTron'
    BY <2>1 DEF FinalityInv, Final, NoneTwice, KeptByTron, run
  <2>3. QED
    BY <1>1, <2>2
<1>5. ASSUME NEW producer \in Producers, NEW list \in TxLists, ProduceBlock(producer, list)
      PROVE  FinalityInv'
  <2>1. pc = "idle" /\ UNCHANGED <<state, run>>
    BY <1>5 DEF ProduceBlock
  <2>2. KeptByTron' /\ Final(s)'
    BY <1>0, <1>3, <1>5, ProduceFinality DEF FinalityInv
  <2>3. Final(state)'
    BY <1>2, <2>1, <2>2 DEF Final
  <2>4. NoneTwice(state)' /\ pc' = "idle" /\ work' = state'
    BY <2>1 DEF FinalityInv, NoneTwice, run
  <2>5. QED
    BY <1>1, <2>2, <2>3, <2>4
<1>6. ASSUME NEW n \in 0..MaxBlocks, Reorganize(n) PROVE FinalityInv'
  <2>1. pc = "idle" /\ UNCHANGED <<state, run>>
    BY <1>6 DEF Reorganize
  <2>2. KeptByTron' /\ Final(s)'
    BY <1>0, <1>3, <1>6, ReorganizeFinality DEF FinalityInv
  <2>3. Final(state)'
    BY <1>2, <2>1, <2>2 DEF Final
  <2>4. NoneTwice(state)' /\ pc' = "idle" /\ work' = state'
    BY <2>1 DEF FinalityInv, NoneTwice, run
  <2>5. QED
    BY <1>1, <2>2, <2>3, <2>4
<1>7. ASSUME NEW skipped \in 0..MaxActions, NEW actionCount \in 0..MaxActions,
             NEW blockCount \in 1..MaxBlocks, Start(skipped, actionCount, blockCount)
      PROVE  FinalityInv'
  <2>1. StartOn(s, skipped, actionCount, blockCount) /\ state' = s /\ UNCHANGED <<tron, solid, state>>
        /\ pc' = "verify"
    BY <1>2, <1>7 DEF Start, StartOn, env, Goto
  <2>2. RunFinality'
    BY <1>3, <2>1, StartFinality
  <2>3. QED
    BY <2>1, <2>2 DEF FinalityInv, KeptByTron, Final, NoneTwice
<1>8. CASE RunStep
  <2>1. RunFinality'
    BY <1>8, StepFinality DEF FinalityInv
  <2>2. UNCHANGED <<tron, solid, state>>
    BY <1>8 DEF RunStep, VerifyBlock, OpenOrder, CloseOrder, WalkThrough, IgnoreTx, CountTransfer,
           CountVote, FinishBlock, env
  <2>3. pc' # "idle"
    BY <1>8 DEF RunStep, VerifyBlock, OpenOrder, CloseOrder, WalkThrough, IgnoreTx, CountTransfer,
           CountVote, FinishBlock, Goto
  <2>4. QED
    BY <2>1, <2>2, <2>3 DEF FinalityInv, KeptByTron, Final, NoneTwice
<1>9. CASE Commit
  <2>1. Final(work) /\ NoneTwice(work)
    BY <1>9, EndIsFinal DEF Commit, FinalityInv, RunFinality
  <2>2. state' = work /\ UNCHANGED <<tron, solid>> /\ pc' = "idle" /\ work' = work
    BY <1>9 DEF Commit, env, Forget, Goto
  <2>3. Remaining /\ KeptByTron'
    BY <2>1, <2>2 DEF FinalityInv, KeptByTron, Final, NoneTwice
  <2>4. QED
    BY <1>1, <2>3
<1>10. CASE Abort
  <2>1. work' = state /\ UNCHANGED <<tron, solid, state>> /\ pc' = "idle"
    BY <1>10 DEF Abort, env, Forget, Goto
  <2>2. Remaining /\ KeptByTron'
    BY <2>1 DEF FinalityInv, KeptByTron, Final, NoneTwice
  <2>3. QED
    BY <1>1, <2>2
<1>11. CASE UNCHANGED vars
  BY <1>11 DEF vars, env, run, FinalityInv, RunFinality, RunBlocks, RunGrows, OnTop, KeptByTron,
               Final, NoneTwice
<1>12. QED
  BY <1>4, <1>5, <1>6, <1>7, <1>8, <1>9, <1>10, <1>11
     DEF Next, Environment, Program, RunStep

\* The blocks that were taken in are final in every state.
LEMMA AlwaysFinality == Spec => []FinalityInv
<1>1. TypeInv /\ FinalityInv /\ [Next]_vars => FinalityInv'
  BY FinalityNext
<1>2. QED
  BY <1>1, FinalityInit, AlwaysTyped, PTL DEF Spec

\* Every block whose contents a proof took in is final on Tron: FINALITY different
\* producers built on it, and no reorganization takes it back.
THEOREM OnlyFinalBlocks == Spec => []TakenIsFinal
<1>1. FinalityInv => TakenIsFinal
  BY DEF FinalityInv, Final, TakenIsFinal
<1>2. QED
  BY <1>1, AlwaysFinality, PTL

(***************************************************************************)
(* The reasons for which orders are closed.                                *)
(***************************************************************************)

\* A block among those taken in is not earlier than a time, as the program reads
\* its own.
Reached(latest, time) ==
  \E n \in DOMAIN latest : time <= read_varint(latest[n].timestamp)

\* An order was filled, or a later action on its address closes it.
HasReason(report, latest) ==
  /\ report.id \in DOMAIN chain
  /\ \/ report.inflow >= chain[report.id].size
     \/ \E j \in DOMAIN chain :
          /\ j > report.id /\ chain[j].address = chain[report.id].address
          /\ Reached(latest, chain[j].timestamp)

Justified(reports, latest) == \A i \in DOMAIN reports : HasReason(reports[i], latest)

\* While actions are looked at, the time of the run is that of its latest block.
RunReasons ==
  /\ Justified(closed, work.latest)
  /\ pc = "actions" =>
       work.latest # <<>> /\ work.timestamp = read_varint(Last(work.latest).timestamp)

ReasonInv ==
  /\ Justified(reported, state.latest) /\ RunReasons
  /\ pc = "idle" => work = state /\ closed = <<>>

\* A reason stays one when more blocks are taken in.
LEMMA ReasonsStay ==
  ASSUME NEW reports, NEW latest, NEW more, DOMAIN latest \subseteq DOMAIN more,
         \A n \in DOMAIN latest : more[n] = latest[n],
         Justified(reports, latest)
  PROVE  Justified(reports, more)
<1>1. \A time : Reached(latest, time) => Reached(more, time)
  BY DEF Reached
<1>2. QED
  BY <1>1 DEF Justified, HasReason

\* A reason stays one when the contract appends actions.
LEMMA ReasonsOutlastActions ==
  ASSUME ChainGrows, NEW reports, NEW latest, Justified(reports, latest)
  PROVE  Justified(reports, latest)'
<1>1. DOMAIN chain \subseteq DOMAIN chain' /\ \A i \in DOMAIN chain : chain'[i] = chain[i]
  BY DEF ChainGrows
<1>2. ASSUME NEW report, HasReason(report, latest) PROVE HasReason(report, latest)'
  <2>1. report.id \in DOMAIN chain /\ chain'[report.id] = chain[report.id]
    BY <1>1, <1>2 DEF HasReason
  <2>2. CASE report.inflow >= chain[report.id].size
    BY <1>1, <2>1, <2>2 DEF HasReason
  <2>3. CASE ~(report.inflow >= chain[report.id].size)
    <3>1. PICK j \in DOMAIN chain : /\ j > report.id /\ chain[j].address = chain[report.id].address
                                    /\ Reached(latest, chain[j].timestamp)
      BY <1>2, <2>3 DEF HasReason
    <3>2. j \in DOMAIN chain' /\ chain'[j] = chain[j]
      BY <1>1
    <3>3. QED
      BY <1>1, <2>1, <3>1, <3>2 DEF HasReason, Reached
  <2>4. QED
    BY <2>2, <2>3
<1>3. QED
  BY <1>2 DEF Justified

\* One more report with a reason.
LEMMA ReasonsOfOneMore ==
  ASSUME NEW reports \in Reports, NEW report \in [id : Ids, inflow : Nat], NEW latest,
         Justified(reports, latest), HasReason(report, latest)
  PROVE  Justified(Append(reports, report), latest)
<1>. DEFINE next == Append(reports, report)
            n == Len(reports)
            T == [id : Ids, inflow : Nat]
<1>1. reports \in Seq(T) /\ report \in T
  BY DEF Reports
<1>. HIDE DEF T
<1>2. /\ next \in Seq(T) /\ Len(next) = n + 1 /\ next[n + 1] = report
      /\ \A i \in 1..n : next[i] = reports[i]
  BY <1>1, AppendProperties
<1>3. n \in Nat /\ DOMAIN reports = 1..n /\ DOMAIN next = 1..n + 1
  BY <1>1, <1>2, LenProperties
<1>. HIDE DEF next, n
<1>4. ASSUME NEW i \in 1..n + 1 PROVE HasReason(next[i], latest)
  <2>1. CASE i = n + 1
    BY <1>2, <2>1
  <2>2. CASE i # n + 1
    <3>1. i \in 1..n
      BY <1>3, <2>2
    <3>2. QED
      BY <1>2, <1>3, <3>1 DEF Justified
  <2>3. QED
    BY <2>1, <2>2
<1>5. QED
  BY <1>3, <1>4 DEF Justified, next

\* The reports of a run join those on record.
LEMMA ReasonsOfBoth ==
  ASSUME NEW recorded \in Reports, NEW reports \in Reports, NEW latest,
         Justified(recorded, latest), Justified(reports, latest)
  PROVE  Justified(recorded \o reports, latest)
<1>. DEFINE all == recorded \o reports
            m == Len(recorded)
            n == Len(reports)
            T == [id : Ids, inflow : Nat]
<1>1. recorded \in Seq(T) /\ reports \in Seq(T)
  BY DEF Reports
<1>. HIDE DEF T
<1>2. /\ all \in Seq(T) /\ Len(all) = m + n
      /\ \A i \in 1..m + n : all[i] = IF i <= m THEN recorded[i] ELSE reports[i - m]
  BY <1>1, ConcatProperties
<1>3. m \in Nat /\ n \in Nat /\ DOMAIN recorded = 1..m /\ DOMAIN reports = 1..n
  BY <1>1, LenProperties
<1>4. DOMAIN all = 1..m + n
  BY <1>2, LenProperties
<1>. HIDE DEF all, m, n
<1>5. ASSUME NEW i \in 1..m + n PROVE HasReason(all[i], latest)
  <2>1. CASE i <= m
    <3>1. i \in 1..m /\ all[i] = recorded[i]
      BY <1>2, <1>3, <2>1
    <3>2. QED
      BY <1>3, <3>1 DEF Justified
  <2>2. CASE ~(i <= m)
    <3>1. i - m \in 1..n /\ all[i] = reports[i - m]
      BY <1>2, <1>3, <2>2
    <3>2. QED
      BY <1>3, <3>1 DEF Justified
  <2>3. QED
    BY <2>1, <2>2
<1>6. QED
  BY <1>4, <1>5 DEF Justified, all

\* A block is taken in with its time; no order is closed.
LEMMA VerifyReasons ==
  ASSUME TypeInv, RunReasons, VerifyBlock
  PROVE  RunReasons'
<1>. DEFINE latest == work.latest
            block == Head(blocks)
            more == Append(latest, block)
<1>1. IsState(work) /\ blocks \in Seq(Block) /\ blocks # <<>>
  BY DEF TypeInv, RunTyped, VerifyBlock
<1>2. latest \in Seq(Block) /\ block \in Block
  BY <1>1, HeadTailProperties DEF IsState
<1>3. UNCHANGED <<chain, closed>> /\ pc = "verify"
  BY DEF VerifyBlock, env
<1>4. Justified(closed, latest)
  BY DEF RunReasons
<1>5. CASE IsUnfinalized(blocks)
  <2>1. work'.latest = latest /\ pc' = "verify"
    BY <1>1, <1>3, <1>5, VerifyFields DEF VerifyBlock
  <2>2. QED
    BY <1>3, <1>4, <2>1 DEF RunReasons, Justified, HasReason, Reached
<1>6. CASE ~IsUnfinalized(blocks)
  <2>1. work'.latest = more /\ work'.timestamp = read_varint(block.timestamp)
    BY <1>1, <1>6, VerifyFields
  <2>. HIDE DEF latest, block
  <2>2. /\ more \in Seq(Block) /\ Len(more) = Len(latest) + 1 /\ more[Len(latest) + 1] = block
        /\ \A i \in 1..Len(latest) : more[i] = latest[i]
    BY <1>2, AppendProperties
  <2>3. Len(latest) \in Nat /\ DOMAIN latest = 1..Len(latest) /\ DOMAIN more = 1..Len(latest) + 1
    BY <1>2, <2>2, LenProperties
  <2>. HIDE DEF more
  <2>4. more # <<>> /\ Last(more) = block
    <3>1. more[Len(more)] = block
      BY <2>2
    <3>2. more # <<>>
      BY <2>2, <2>3, EmptySeq
    <3>3. QED
      BY <3>1, <3>2 DEF Last
  <2>5. PICK reports : reports = closed
    OBVIOUS
  <2>6. PICK t : t = latest
    OBVIOUS
  <2>7. PICK u : u = more
    OBVIOUS
  <2>8. Justified(reports, u)
    <3>1. DOMAIN t \subseteq DOMAIN u /\ \A n \in DOMAIN t : u[n] = t[n]
      BY <2>2, <2>3, <2>6, <2>7
    <3>2. Justified(reports, t)
      BY <1>4, <2>5, <2>6
    <3>3. QED
      BY <3>1, <3>2, ReasonsStay
  <2>9. Justified(closed, more)
    BY <2>5, <2>7, <2>8
  <2>10. Justified(closed, work.latest)'
    BY <1>3, <2>1, <2>9 DEF Justified, HasReason, Reached
  <2>11. QED
    BY <2>1, <2>4, <2>10 DEF RunReasons
<1>7. QED
  BY <1>5, <1>6

\* The steps that close no order and take in no block.
LEMMA QuietReasons ==
  ASSUME TypeInv, RunReasons,
         OpenOrder \/ WalkThrough \/ IgnoreTx \/ CountVote \/ FinishBlock
  PROVE  RunReasons'
<1>1. IsState(work)
  BY DEF TypeInv, RunTyped
<1>2. UNCHANGED <<chain, closed>>
  BY DEF OpenOrder, WalkThrough, IgnoreTx, CountVote, FinishBlock, env
<1>3. work'.latest = work.latest /\ work'.timestamp = work.timestamp
  <2>1. CASE OpenOrder
    BY <1>1, <2>1, OpenFields
  <2>2. CASE WalkThrough \/ IgnoreTx
    BY <2>2 DEF WalkThrough, IgnoreTx
  <2>3. CASE CountVote
    BY <1>1, <2>3, VoteFields
  <2>4. CASE FinishBlock
    BY <1>1, <2>4, FinishFields
  <2>5. QED
    BY <2>1, <2>2, <2>3, <2>4
<1>4. pc' = "actions" => pc = "actions"
  BY DEF OpenOrder, WalkThrough, IgnoreTx, CountVote, FinishBlock, Goto
<1>5. QED
  BY <1>2, <1>3, <1>4 DEF RunReasons, Justified, HasReason, Reached

\* An order is closed by the next action on its address.
LEMMA CloseReasons ==
  ASSUME TypeInv, RunLedger, RunReasons, CloseOrder
  PROVE  RunReasons'
<1>. DEFINE next == Head(work.pending)
            address == chain[next].address
            id == active[address]
            latest == work.latest
            behind == Behind(work)
            report == Report(id, work.orders[id])
<1>1. IsState(work) /\ chain \in Seq(Action) /\ closed \in Reports
  BY DEF TypeInv, RunTyped, EnvTyped
<1>2. Ledger(work) /\ Listens /\ work.pending # <<>> /\ id # NoId /\ pc = "actions"
      /\ chain[next].timestamp <= work.timestamp
  BY DEF RunLedger, CloseOrder, IsDue
<1>3. work'.latest = latest /\ work'.timestamp = work.timestamp /\ UNCHANGED <<chain, pc>>
  BY <1>1, CloseFields DEF CloseOrder, env
<1>4. next = behind + 1 /\ behind \in Nat /\ next \in DOMAIN chain
  <2>. DEFINE known == work.action_chain
              n == Len(chain)
  <2>1. next = behind + 1 /\ behind + 1 <= known
    BY <1>1, <1>2, HeadIsNext DEF Ledger
  <2>2. behind \in Nat /\ known \in Nat
    BY <1>1, <1>2, BehindType DEF Ledger
  <2>3. known <= n
    BY <1>2 DEF Ledger
  <2>4. n \in Nat /\ DOMAIN chain = 1..n
    BY <1>1, LenProperties
  <2>. HIDE DEF known, n, next, behind
  <2>5. QED
    BY <2>1, <2>2, <2>3, <2>4
<1>5. address \in Addresses
  <2>1. chain[next] \in Action
    <3>. HIDE DEF next
    <3>. QED
      BY <1>1, <1>4, LenProperties, ElementOfSeq
  <2>2. QED
    BY <2>1 DEF Action
<1>6. id \in DOMAIN chain /\ id <= behind /\ chain[id].address = address
  BY <1>2, <1>5 DEF Listens
<1>7. id \in Nat
  <2>. HIDE DEF id
  <2>. QED
    BY <1>1, <1>6, LenProperties
<1>8. latest # <<>> /\ work.timestamp = read_varint(Last(latest).timestamp)
  BY <1>2 DEF RunReasons
<1>9. Reached(latest, chain[next].timestamp)
  <2>1. Len(latest) \in DOMAIN latest /\ Last(latest) = latest[Len(latest)]
    <3>1. latest \in Seq(Block)
      BY <1>1 DEF IsState
    <3>. HIDE DEF latest
    <3>2. Len(latest) \in Nat /\ Len(latest) # 0 /\ DOMAIN latest = 1..Len(latest)
      BY <1>8, <3>1, LenProperties, EmptySeq
    <3>3. QED
      BY <3>2 DEF Last
  <2>2. QED
    BY <1>2, <1>8, <2>1 DEF Reached
<1>10. Justified(closed', latest)
  <2>1. Justified(closed, latest)
    BY DEF RunReasons
  <2>2. CASE id \in DOMAIN work.orders
    <3>1. closed' = Append(closed, report)
      BY <2>2 DEF CloseOrder
    <3>2. report.id = id /\ report \in [id : Ids, inflow : Nat]
      BY <1>1, <2>2 DEF Report, IsState
    <3>3. next > id
      <4>. HIDE DEF next, id, behind
      <4>. QED
        BY <1>4, <1>6, <1>7
    <3>4. HasReason(report, latest)
      <4>. HIDE DEF next, id, latest, report
      <4>. QED
        BY <1>4, <1>6, <1>9, <3>2, <3>3 DEF HasReason
    <3>5. PICK r : r = report
      OBVIOUS
    <3>6. PICK reports : reports = closed
      OBVIOUS
    <3>7. PICK t : t = latest
      OBVIOUS
    <3>. HIDE DEF report, latest, id, next
    <3>8. Justified(Append(reports, r), t)
      BY <1>1, <2>1, <3>2, <3>4, <3>5, <3>6, <3>7, ReasonsOfOneMore
    <3>9. QED
      BY <3>1, <3>5, <3>6, <3>7, <3>8
  <2>3. CASE id \notin DOMAIN work.orders
    BY <2>1, <2>3 DEF CloseOrder
  <2>4. QED
    BY <2>2, <2>3
<1>11. QED
  BY <1>3, <1>8, <1>10 DEF RunReasons, Justified, HasReason, Reached

\* A transfer closes an order that it fills.
LEMMA TransferReasons ==
  ASSUME TypeInv, RunLedger, RunReasons, CountTransfer
  PROVE  RunReasons'
<1>. DEFINE address == Head(txs).to
            id == active[address]
            inflow == work.orders[id] + ParsedValue(Head(txs))
            latest == work.latest
            report == Report(id, inflow)
<1>1. IsState(work) /\ closed \in Reports
  BY DEF TypeInv, RunTyped
<1>2. Listens /\ id \in DOMAIN work.orders /\ address \in Addresses /\ pc = "txs"
  BY DEF RunLedger, CountTransfer, ParsesAsTransfer
<1>3. work'.latest = latest /\ UNCHANGED <<chain, pc>>
  BY <1>1, TransferFields DEF CountTransfer, env
<1>4. id \in Ids
  BY <1>1, <1>2 DEF IsState
<1>5. id \in DOMAIN chain
  <2>1. id # NoId
    BY <1>4 DEF Ids, NoId
  <2>2. QED
    BY <1>2, <2>1 DEF Listens
<1>6. Justified(closed, latest)
  BY DEF RunReasons
<1>7. Justified(closed', latest)
  <2>1. CASE IsFilled(id, inflow)
    <3>1. closed' = Append(closed, report)
      BY <1>1, <2>1, TransferFields
    <3>2. report.id = id /\ report.inflow = inflow
      BY DEF Report
    <3>3. HasReason(report, latest)
      BY <1>5, <2>1, <3>2 DEF HasReason, IsFilled
    <3>4. inflow \in Nat
      <4>1. work.orders[id] \in Nat
        BY <1>1, <1>2 DEF IsState
      <4>2. ParsedValue(Head(txs)) \in Nat
        BY HeadValueIsNat DEF CountTransfer
      <4>3. QED
        BY <4>1, <4>2
    <3>5. report \in [id : Ids, inflow : Nat]
      BY <1>4, <3>4 DEF Report
    <3>6. PICK r : r = report
      OBVIOUS
    <3>7. PICK reports : reports = closed
      OBVIOUS
    <3>8. PICK t : t = latest
      OBVIOUS
    <3>. HIDE DEF report, latest, id
    <3>9. Justified(Append(reports, r), t)
      BY <1>1, <1>6, <3>3, <3>5, <3>6, <3>7, <3>8, ReasonsOfOneMore
    <3>10. QED
      BY <3>1, <3>6, <3>7, <3>8, <3>9
  <2>2. CASE ~IsFilled(id, inflow)
    <3>1. closed' = closed
      BY <1>1, <2>2, TransferFields
    <3>2. QED
      BY <1>6, <3>1
  <2>3. QED
    BY <2>1, <2>2
<1>8. QED
  BY <1>2, <1>3, <1>7 DEF RunReasons, Justified, HasReason, Reached

\* Every step of a run keeps its reasons.
LEMMA StepReasons ==
  ASSUME TypeInv, RunLedger, RunReasons, RunStep
  PROVE  RunReasons'
BY VerifyReasons, QuietReasons, CloseReasons, TransferReasons DEF RunStep

\* Nothing is reported at the start.
LEMMA ReasonInit == Init => ReasonInv
BY DEF Init, ReasonInv, RunReasons, Justified

\* Reasons outlast the steps of the environment, of a run, and the end of one.
LEMMA ReasonNext ==
  ASSUME TypeInv, LedgerInv, FinalityInv, ReasonInv, [Next]_vars
  PROVE  ReasonInv'
<1>0. TypeInv'
  BY TypedNext
<1>1. CASE Environment
  <2>1. ChainGrows /\ UNCHANGED <<state, reported, run>> /\ pc = "idle"
    BY <1>0, <1>1, EnvironmentGrows DEF Environment, AppendAction, ProduceBlock, Reorganize
  <2>2. PICK reports : reports = reported
    OBVIOUS
  <2>3. PICK latest : latest = state.latest
    OBVIOUS
  <2>4. Justified(reports, latest)
    BY <2>2, <2>3 DEF ReasonInv
  <2>5. Justified(reports, latest)'
    BY <2>1, <2>4, ReasonsOutlastActions
  <2>6. reported' = reports /\ state'.latest = latest /\ closed' = <<>> /\ pc' = "idle"
    BY <2>1, <2>2, <2>3 DEF ReasonInv, run
  <2>7. Justified(reported, state.latest)'
    BY <2>5, <2>6 DEF Justified, HasReason, Reached
  <2>8. QED
    BY <2>1, <2>6, <2>7 DEF ReasonInv, RunReasons, Justified, run
<1>2. ASSUME NEW skipped \in 0..MaxActions, NEW actionCount \in 0..MaxActions,
             NEW blockCount \in 1..MaxBlocks, Start(skipped, actionCount, blockCount)
      PROVE  ReasonInv'
  <2>1. UNCHANGED <<chain, state, reported, closed>> /\ closed = <<>> /\ pc' = "verify"
    BY <1>2 DEF Start, StartOn, env, Goto, ReasonInv
  <2>2. QED
    BY <2>1 DEF ReasonInv, RunReasons, Justified, HasReason, Reached
<1>3. CASE RunStep
  <2>1. RunReasons'
    BY <1>3, StepReasons DEF LedgerInv, ReasonInv
  <2>2. UNCHANGED <<chain, state, reported>> /\ pc' # "idle"
    BY <1>3 DEF RunStep, VerifyBlock, OpenOrder, CloseOrder, WalkThrough, IgnoreTx, CountTransfer,
           CountVote, FinishBlock, env, Goto
  <2>3. QED
    BY <2>1, <2>2 DEF ReasonInv, Justified, HasReason, Reached
<1>4. CASE Commit
  <2>1. /\ state' = work /\ reported' = reported \o closed /\ UNCHANGED chain
        /\ closed' = <<>> /\ work' = work /\ pc' = "idle"
    BY <1>4 DEF Commit, Forget, env, Goto
  <2>2. PICK old : old = state.latest
    OBVIOUS
  <2>3. PICK latest : latest = work.latest
    OBVIOUS
  <2>4. PICK recorded : recorded = reported
    OBVIOUS
  <2>5. PICK reports : reports = closed
    OBVIOUS
  <2>6. DOMAIN old \subseteq DOMAIN latest /\ \A n \in DOMAIN old : latest[n] = old[n]
    <3>1. old \in Seq(Block) /\ latest \in Seq(Block)
      BY <2>2, <2>3 DEF TypeInv, RunTyped, IsState
    <3>2. RunGrows
      BY <1>4 DEF Commit, FinalityInv, RunFinality
    <3>3. Len(old) <= Len(latest) /\ \A i \in 1..Len(old) : latest[i] = old[i]
      BY <2>2, <2>3, <3>2 DEF RunGrows
    <3>4. /\ Len(old) \in Nat /\ DOMAIN old = 1..Len(old)
          /\ Len(latest) \in Nat /\ DOMAIN latest = 1..Len(latest)
      BY <3>1, LenProperties
    <3>5. QED
      BY <3>3, <3>4
  <2>7. Justified(recorded, old) /\ Justified(reports, latest)
    BY <2>2, <2>3, <2>4, <2>5 DEF ReasonInv, RunReasons
  <2>8. Justified(recorded, latest)
    BY <2>6, <2>7, ReasonsStay
  <2>9. recorded \in Reports /\ reports \in Reports
    BY <2>4, <2>5 DEF TypeInv, RunTyped
  <2>10. Justified(recorded \o reports, latest)
    BY <2>7, <2>8, <2>9, ReasonsOfBoth
  <2>11. PICK all : all = recorded \o reports
    OBVIOUS
  <2>12. Justified(all, latest)
    BY <2>10, <2>11
  <2>13. reported' = all /\ state'.latest = latest /\ UNCHANGED chain
    BY <2>1, <2>3, <2>4, <2>5, <2>11
  <2>14. Justified(reported, state.latest)'
    BY <2>12, <2>13 DEF Justified, HasReason, Reached
  <2>15. QED
    BY <2>1, <2>14 DEF ReasonInv, RunReasons, Justified
<1>5. CASE Abort
  <2>1. UNCHANGED <<chain, state, reported>> /\ closed' = <<>> /\ work' = state /\ pc' = "idle"
    BY <1>5 DEF Abort, Forget, env, Goto
  <2>2. QED
    BY <2>1 DEF ReasonInv, RunReasons, Justified, HasReason, Reached
<1>6. CASE UNCHANGED vars
  BY <1>6 DEF vars, env, run, ReasonInv, RunReasons, Justified, HasReason, Reached
<1>7. QED
  BY <1>1, <1>2, <1>3, <1>4, <1>5, <1>6 DEF Next, Program, RunStep

\* Every order that is reported was filled, or a later action on its address was
\* reached by a block that a proof took in: no order is closed for nothing.
THEOREM EachClosedForAReason == Spec => []ClosedForAReason
<1>1. ReasonInv => ClosedForAReason
  BY DEF ReasonInv, Justified, HasReason, Reached, ClosedForAReason
<1>2. TypeInv /\ LedgerInv /\ FinalityInv /\ ReasonInv /\ [Next]_vars => ReasonInv'
  BY ReasonNext
<1>3. QED
  BY <1>1, <1>2, ReasonInit, AlwaysTyped, AlwaysLedger, AlwaysFinality, PTL DEF Spec

=============================================================================
