---------------------------- MODULE UntronProgram ----------------------------
(***************************************************************************)
(* The ZK program (program/src/lib.rs, main.rs): a light client of Tron    *)
(* that walks through the finalized blocks and credits USDT transfers to   *)
(* the orders of the contract's action chain.  A run takes new actions and *)
(* new blocks, works on a copy of the state and commits it at its end,     *)
(* with the orders it closed; a panic proves nothing and is an abort.      *)
(*                                                                         *)
(* The chain of contract actions and the Tron chain are the environment.   *)
(* Hash chains are modelled by what they determine: the ID of an action is *)
(* its position on the chain, the ID of a block is the chain up to it.     *)
(* The environment moves between runs only: a run reads nothing but its    *)
(* input.  The input is a relayer's: blocks of Tron, and actions of the    *)
(* contract in their order, of which a restarted relayer leaves some out.  *)
(* The lists of transactions come apart from the blocks and may be any     *)
(* lists of Tron transactions.                                             *)
(***************************************************************************)
EXTENDS UntronBytes

CONSTANTS
  Addresses,            \* receivers of orders
  Producers,            \* who may produce blocks and be voted for
  InitialSRs,           \* State::srs at the start
  Sizes,                \* sizes in the actions; 0 in a closure
  TxLists,              \* transactions that a block may hold
  PassedLists,          \* lists that may be passed instead of a block's own
  MinDeposit,           \* min_deposit of each action, whatever its provider asked
  FINALITY,             \* 19: blocks on top of a finalized block
  ORDER_TTL,            \* 100 blocks
  SR_COUNT,             \* 27
  START,                \* number of the block that the state starts from
  MAINTENANCE_PERIOD_BLOCK_OFFSET,
  MAINTENANCE_PERIOD_INTERVAL,
  MaxTime,              \* bound: timestamps
  MaxBlocks,            \* bound: length of the Tron chain
  MaxActions            \* bound: length of the action chain

NoId == 0
Ids  == 1..MaxActions

Action == [timestamp : Nat, address : Addresses, size : Nat]
\* A transaction as the two parsers read it: a transfer to an address, which is
\* laid out as a call of USDT's transfer whatever its contract type says (the check
\* of the type is dropped), or a vote for a producer; a transaction of several votes
\* is several of these.  It is longer than the two hashes of a pair.
Tx     == [to : Addresses \cup Producers, value : Nat, success : BOOLEAN]
Block  == [timestamp : Nat, producer : Producers, txs : Seq(Tx)]

ASSUME ProgramAssumption ==
  /\ Addresses \cap Producers = {}
  /\ IsFiniteSet(Producers) /\ InitialSRs \subseteq Producers
  /\ Sizes \subseteq Nat /\ TxLists \subseteq Seq(Tx) /\ PassedLists \subseteq Seq(Tx)
  /\ MinDeposit \in [Ids -> Nat]
  /\ FINALITY \in Nat \ {0} /\ ORDER_TTL \in Nat /\ SR_COUNT \in Nat \ {0}
  /\ START \in Nat /\ MAINTENANCE_PERIOD_BLOCK_OFFSET \in 0..START
  /\ MAINTENANCE_PERIOD_INTERVAL \in Nat \ {0}
  /\ MaxTime \in Nat \ {0} /\ MaxBlocks \in Nat /\ MaxActions \in Nat

VARIABLES
  now,       \* the clock of Tron and of the contract
  chain,     \* the actions of the contract
  tron,      \* the blocks of Tron after START, as its nodes see them now
  solid,     \* how many of them Tron will never take back
  state,     \* the proven State, with the actions left out on the way to it
  reported,  \* the closed orders of all proofs so far, with their inflows
  pc,        \* where the run is: idle, verify, actions, txs
  work,      \* the State that the run works on
  active,    \* active_addresses
  closed,    \* closed_orders
  blocks,    \* blocks still to be verified
  txs        \* transactions of the current block still to be walked through

env  == <<now, chain, tron, solid>>
run  == <<pc, work, active, closed, blocks, txs>>
vars == <<env, state, reported, run>>

IsState(s) ==
  /\ DOMAIN s = {"latest", "timestamp", "cycle", "srs", "votes", "pending",
                 "orders", "action_chain", "missed"}
  /\ s.latest \in Seq(Block) /\ s.timestamp \in Nat
  /\ s.cycle \in Seq(Producers) /\ Len(s.cycle) <= FINALITY /\ s.srs \subseteq Producers
  /\ DOMAIN s.votes \subseteq Producers /\ s.votes \in [DOMAIN s.votes -> Nat]
  /\ s.pending \in Seq(Ids) /\ s.action_chain \in 0..MaxActions /\ s.missed \subseteq Ids
  /\ DOMAIN s.orders \subseteq Ids /\ s.orders \in [DOMAIN s.orders -> Nat]

-----------------------------------------------------------------------------
NoneActive == [a \in Addresses |-> NoId]
Nothing    == [x \in {} |-> 0]

Init ==
  /\ now = 1 /\ chain = <<>> /\ tron = <<>> /\ solid = 0
  /\ state = [latest |-> <<>>, timestamp |-> 0, cycle |-> <<>>,
              srs |-> InitialSRs, votes |-> Nothing, pending |-> <<>>,
              orders |-> Nothing, action_chain |-> 0, missed |-> {}]
  /\ reported = <<>>
  /\ pc = "idle" /\ work = state
  /\ active = NoneActive /\ closed = <<>> /\ blocks = <<>> /\ txs = <<>>

-----------------------------------------------------------------------------
(* The environment. *)

\* Time passes between events, or does not.  Bound: MaxTime.
Times == {t \in {now, now + 1} : t <= MaxTime}

\* The contract appends an action: a new order, or a closure (size 0).
AppendAction(address, size) ==
  /\ pc = "idle" /\ Len(chain) < MaxActions
  /\ \E t \in Times :
       /\ now' = t
       /\ chain' = Append(chain, [timestamp |-> t, address |-> address, size |-> size])
  /\ UNCHANGED <<tron, solid, state, reported, run>>

\* Tron never takes a block back once FINALITY producers built on top of it.
Solidified(t) ==
  {n \in 1..Len(t) :
     Cardinality({t[i].producer : i \in n + 1..Len(t)}) >= FINALITY}

ProduceBlock(producer, list) ==
  /\ pc = "idle" /\ Len(tron) < MaxBlocks
  /\ \E t \in Times :
       /\ \A i \in DOMAIN tron : tron[i].timestamp < t
       /\ now' = t
       /\ tron' = Append(tron, [timestamp |-> t, producer |-> producer, txs |-> list])
  /\ solid' = Max({solid} \cup Solidified(tron'))
  /\ UNCHANGED <<chain, state, reported, run>>

Reorganize(n) ==
  /\ pc = "idle" /\ solid <= n /\ n < Len(tron)
  /\ tron' = SubSeq(tron, 1, n)
  /\ UNCHANGED <<now, chain, solid, state, reported, run>>

-----------------------------------------------------------------------------
(* A run of stf. *)

Goto(label) == pc' = label

\* parse_block_header: each block names the one before it, the first new one
\* names the latest that was taken in.
Extends(t, latest) == IsPrefix(latest, t)

\* A run on the state from: the new actions join the pending ones; the blocks must
\* extend the latest one, and there must be more than ORDER_TTL + FINALITY.  The new
\* actions need not follow those that the state knows, as no prev is compared: a
\* relayer that starts again hears only those announced from then on (zksync.rs:60).
StartOn(from, skipped, actionCount, blockCount) ==
  LET known  == from.action_chain
      height == Len(from.latest)
  IN
  /\ pc = "idle"
  /\ actionCount = 0 => skipped = 0
  /\ known + skipped + actionCount <= Len(chain)
  /\ blockCount > ORDER_TTL + FINALITY
  /\ height + blockCount <= Len(tron)
  /\ Extends(tron, from.latest)
  /\ Goto("verify")
  /\ work' = [from EXCEPT
       !.action_chain = @ + skipped + actionCount,
       !.missed = @ \cup known + 1..known + skipped,
       !.pending = @ \o [i \in 1..actionCount |-> known + skipped + i]]
  /\ blocks' = SubSeq(tron, height + 1, height + blockCount)
  /\ UNCHANGED <<env, reported, active, closed, txs>>

Start(skipped, actionCount, blockCount) ==
  StartOn(state, skipped, actionCount, blockCount) /\ UNCHANGED state

Shifted_Late(cycle) == IF Len(cycle) > FINALITY THEN Tail(cycle) ELSE cycle

\* The cycle without its oldest producer, once it is full.
Shifted(cycle) == IF Len(cycle) = FINALITY THEN Tail(cycle) ELSE cycle

IsRecent_Never(producer, cycle) == FALSE

IsRecent(producer, cycle) == producer \in ToSet(Shifted(cycle))

IsUnfinalized_OffByOne(todo) == Len(todo) < FINALITY

\* The last FINALITY blocks are verified and their contents are not looked at.
IsUnfinalized(todo) == Len(todo) <= FINALITY

\* Checks the producer of a block and moves the cycle forward.
VerifyBlock ==
  LET producer == Head(blocks).producer IN
  /\ pc = "verify" /\ blocks # <<>>
  /\ producer \in work.srs /\ ~IsRecent(producer, work.cycle)
  /\ blocks' = Tail(blocks)
  /\ work' = [work EXCEPT
       !.cycle = Append(Shifted(@), producer),
       !.latest = IF IsUnfinalized(blocks) THEN @ ELSE Append(@, Head(blocks)),
       !.timestamp = IF IsUnfinalized(blocks) THEN @
                     ELSE read_varint(Head(blocks).timestamp)]
  /\ IF IsUnfinalized(blocks) THEN UNCHANGED pc ELSE Goto("actions")
  /\ UNCHANGED <<env, state, reported, active, closed, txs>>

IsDue_Strict ==
  work.pending # <<>> /\ chain[Head(work.pending)].timestamp < work.timestamp

\* The first pending action is not later than the block.
IsDue == work.pending # <<>> /\ chain[Head(work.pending)].timestamp <= work.timestamp

\* A map with a new entry, or a new value for one it has.
With(entries, key, value) ==
  [k \in DOMAIN entries \cup {key} |-> IF k = key THEN value ELSE entries[k]]

\* An action on an inactive address opens an order.
OpenOrder ==
  LET id      == Head(work.pending)
      address == chain[id].address
  IN
  /\ pc = "actions" /\ IsDue
  /\ active[address] = NoId
  /\ active' = [active EXCEPT ![address] = id]
  /\ work' = [work EXCEPT !.pending = Tail(@), !.orders = With(@, id, 0)]
  /\ UNCHANGED <<env, state, reported, pc, closed, blocks, txs>>

Without_KeepsIt(orders, id) == orders

\* The orders without one that is being closed.
Without(orders, id) == [i \in DOMAIN orders \ {id} |-> orders[i]]

Report(id, inflow) == [id |-> id, inflow |-> inflow]

\* An action on an active address closes its order, if it is still there.
CloseOrder ==
  LET address == chain[Head(work.pending)].address
      old     == active[address]
  IN
  /\ pc = "actions" /\ IsDue
  /\ old # NoId
  /\ active' = [active EXCEPT ![address] = NoId]
  /\ work' = [work EXCEPT !.pending = Tail(@), !.orders = Without(@, old)]
  /\ closed' = IF old \in DOMAIN work.orders
                 THEN Append(closed, Report(old, work.orders[old])) ELSE closed
  /\ UNCHANGED <<env, state, reported, pc, blocks, txs>>

ActionsDone_AllowsNone == work.pending = <<>> \/ ~IsDue

\* A proof must leave a pending action behind every block it takes in.
ActionsDone == work.pending # <<>> /\ ~IsDue

\* The root of a list of transactions: the tree is built over their hashes.
tx_root(list) == create_merkle_tree([i \in DOMAIN list |-> hash(list[i])])

\* The list that is passed with the block must have the root that is in its header.
WalkThrough ==
  LET own  == Last(work.latest).txs
      root == tx_root(own)
  IN
  /\ pc = "actions" /\ ActionsDone
  /\ \E list \in PassedLists \cup {own} : tx_root(list) = root /\ txs' = list
  /\ Goto("txs")
  /\ UNCHANGED <<env, state, reported, work, active, closed, blocks>>

NextTx == txs' = Tail(txs)

\* What parse_usdt_transfer and parse_vote_tx recognize, failed ones excluded.
ParsesAsTransfer(tx) == tx.success /\ tx.to \in Addresses

ParsesAsVote(tx) == tx.success /\ tx.to \in Producers

\* The value that parse_usdt_transfer reads.
ParsedValue(tx) == from_le_bytes(tx.value)

IgnoreTx ==
  /\ pc = "txs" /\ txs # <<>>
  /\ ~ParsesAsVote(Head(txs))
  /\ ParsesAsTransfer(Head(txs)) => active[Head(txs).to] = NoId
  /\ NextTx
  /\ UNCHANGED <<env, state, reported, pc, work, active, closed, blocks>>

IsFilled_Swapped(id, inflow) == chain[id].size >= inflow

IsFilled(id, inflow) == inflow >= chain[id].size

\* The order of an active address must be in the state (unwrap).  One that is
\* filled is closed; its address stays active.
CountTransfer ==
  LET id     == active[Head(txs).to]
      inflow == work.orders[id] + ParsedValue(Head(txs))
  IN
  /\ pc = "txs" /\ txs # <<>> /\ ParsesAsTransfer(Head(txs))
  /\ id \in DOMAIN work.orders
  /\ NextTx
  /\ IF IsFilled(id, inflow)
       THEN /\ work' = [work EXCEPT !.orders = Without(@, id)]
            /\ closed' = Append(closed, Report(id, inflow))
       ELSE /\ work' = [work EXCEPT !.orders[id] = inflow]
            /\ UNCHANGED closed
  /\ UNCHANGED <<env, state, reported, pc, active, blocks>>

VotesOf(votes, p) == IF p \in DOMAIN votes THEN votes[p] ELSE 0

CountVote ==
  LET p == Head(txs).to IN
  /\ pc = "txs" /\ txs # <<>> /\ ParsesAsVote(Head(txs))
  /\ NextTx
  /\ work' = [work EXCEPT !.votes = With(@, p, VotesOf(@, p) + Head(txs).value)]
  /\ UNCHANGED <<env, state, reported, pc, active, closed, blocks>>

IsMaintenance(height) ==
  (START + height - MAINTENANCE_PERIOD_BLOCK_OFFSET) % MAINTENANCE_PERIOD_INTERVAL = 0

\* The sets of SR_COUNT candidates with the most votes: sorting leaves the order
\* of equal counts open.
Elected(votes) ==
  {S \in SUBSET DOMAIN votes :
     /\ Cardinality(S) = SR_COUNT
     /\ \A p \in S, q \in DOMAIN votes \ S : votes[p] >= votes[q]}

AfterMaintenance_KeepsVotes(w, elected) ==
  [w EXCEPT !.srs = elected, !.cycle = <<>>]

AfterMaintenance(w, elected) ==
  [w EXCEPT !.srs = elected, !.cycle = <<>>, !.votes = Nothing]

\* With fewer candidates than SR_COUNT a maintenance block panics.
FinishBlock ==
  /\ pc = "txs" /\ txs = <<>>
  /\ IF IsMaintenance(Len(work.latest))
       THEN \E elected \in Elected(work.votes) :
              work' = AfterMaintenance(work, elected)
       ELSE UNCHANGED work
  /\ Goto("verify")
  /\ UNCHANGED <<env, state, reported, active, closed, blocks, txs>>

\* What a run leaves behind: active_addresses and the rest are locals of stf.
Forget(proven) ==
  /\ Goto("idle") /\ work' = proven
  /\ active' = NoneActive /\ closed' = <<>> /\ blocks' = <<>> /\ txs' = <<>>

\* The proof is made and the contract accepts it.
Commit ==
  /\ pc = "verify" /\ blocks = <<>>
  /\ state' = work
  /\ reported' = reported \o closed
  /\ Forget(work)
  /\ UNCHANGED env

\* A panic, or a prover that stops: the state stays as it was.
Abort ==
  /\ pc # "idle"
  /\ Forget(state)
  /\ UNCHANGED <<env, state, reported>>

-----------------------------------------------------------------------------
Environment ==
  \/ \E address \in Addresses, size \in Sizes : AppendAction(address, size)
  \/ \E producer \in Producers, list \in TxLists : ProduceBlock(producer, list)
  \/ \E n \in 0..MaxBlocks : Reorganize(n)

Program ==
  \/ \E skipped, actionCount \in 0..MaxActions, blockCount \in 1..MaxBlocks :
       Start(skipped, actionCount, blockCount)
  \/ VerifyBlock \/ OpenOrder \/ CloseOrder \/ WalkThrough
  \/ IgnoreTx \/ CountTransfer \/ CountVote \/ FinishBlock
  \/ Commit \/ Abort

Next == Environment \/ Program

Spec == Init /\ [][Next]_vars

-----------------------------------------------------------------------------
(* Properties. *)

\* Every variable has its type, and the cycle remembers FINALITY producers.
TypeOK ==
  /\ now \in 0..MaxTime
  /\ chain \in Seq(Action) /\ Len(chain) <= MaxActions
  /\ tron \in Seq(Block) /\ solid \in 0..Len(tron)
  /\ IsState(state) /\ IsState(work)
  /\ reported \in Seq([id : Ids, inflow : Nat])
  /\ pc \in {"idle", "verify", "actions", "txs"}
  /\ active \in [Addresses -> {NoId} \cup Ids]
  /\ closed \in Seq([id : Ids, inflow : Nat])
  /\ blocks \in Seq(Block) /\ txs \in Seq(Tx)

\* Every block whose contents a proof took in is final on Tron, though the
\* program sees producers and a number of blocks only: no reorganization takes
\* back a transfer that closed an order.
TakenIsFinal == Len(state.latest) <= solid /\ IsPrefix(state.latest, tron)

\* No order is reported twice, by one run or by several, and none that was
\* reported is still open.
ClosedOnce ==
  \A i \in DOMAIN reported :
    /\ reported[i].id \notin DOMAIN state.orders
    /\ \A j \in DOMAIN reported : reported[i].id = reported[j].id => i = j

\* The successful transactions to somebody in some of the final blocks, each by
\* its block and its place there.
TxsTo(to, heights) ==
  {p \in UNION {{n} \X DOMAIN state.latest[n].txs : n \in heights} :
     LET tx == state.latest[p[1]].txs[p[2]] IN tx.to = to /\ tx.success}

\* The sum of a value over them.
SumTo(to, heights, Value(_)) ==
  SumFunction([p \in TxsTo(to, heights) |-> Value(state.latest[p[1]].txs[p[2]])])

\* What was read from the transfers to the address of an order in some blocks.
PaidIn(id, heights) == SumTo(chain[id].address, heights, ParsedValue)

\* One of the first n blocks is not earlier than a time, as the program reads it.
ReachedBy(latest, n, time) == \E m \in 1..n : time <= read_varint(latest[m].timestamp)

\* The final blocks from the first one that reaches an action on and before the
\* first one that reaches the next action on its address that was not left out.
LifeAsRead(id) ==
  {n \in DOMAIN state.latest :
     /\ ReachedBy(state.latest, n, chain[id].timestamp)
     /\ \A j \in DOMAIN chain \ state.missed :
          j > id /\ chain[j].address = chain[id].address
            => ~ReachedBy(state.latest, n, chain[j].timestamp)}

\* The inflow of an order, reported or still open, is no more than was read from
\* the transfers to its address while its action was the last one on it, by the
\* times that the program reads, whatever the word makes of them: no transfer
\* counts twice, in a run or in a later one, or for two orders.  A transfer under
\* the minimum counts like any other (see SmallTransfersRefused), and an order
\* whose end was left out goes on.
InflowWasRead ==
  /\ \A i \in DOMAIN reported :
       reported[i].inflow <= PaidIn(reported[i].id, LifeAsRead(reported[i].id))
  /\ \A id \in DOMAIN state.orders : state.orders[id] <= PaidIn(id, LifeAsRead(id))

\* An order is reported because it was filled, or because a later action on its
\* address closes it; a block that was taken in is not earlier than that action,
\* as the program reads its time.
ClosedForAReason ==
  \A i \in DOMAIN reported :
    LET id == reported[i].id IN
    \/ reported[i].inflow >= chain[id].size
    \/ \E j \in DOMAIN chain, n \in DOMAIN state.latest :
         /\ j > id /\ chain[j].address = chain[id].address
         /\ chain[j].timestamp <= read_varint(state.latest[n].timestamp)

\* "The proof must contain at least one pending action at the end": no block is
\* taken in ahead of an action that it reaches and that the relayer has not come to
\* yet.  Such an action is no later than the last one the state knows, and does not
\* wait any more; whether it was looked at or left out, state.missed says.
ActionsCoverBlocks ==
  \A i \in DOMAIN chain : chain[i].timestamp <= state.timestamp =>
    i <= state.action_chain /\ i \notin ToSet(state.pending)

\* The votes that the next election will count are those of the final blocks
\* since the last maintenance block, each once, however the blocks were cut
\* into runs.
VotesMatchTron ==
  LET height == Len(state.latest)
      since  == {n \in 1..height : \A m \in n..height : ~IsMaintenance(m)}
  IN \A p \in Producers :
       VotesOf(state.votes, p) = SumTo(p, since, LAMBDA tx : tx.value)

\* Whatever list of transactions is passed with a block, only the block's own
\* transactions are counted, each once and in their order: what can be passed are
\* Tron transactions, none of them as short as the two hashes of a pair.
OwnTransactions == pc = "txs" => IsSuffix(txs, Last(work.latest).txs)

\* "All currently active orders" are in the state and active_addresses "will
\* store the receiver addresses of the active orders": when the transfers of a
\* block are walked through, the program listens to every open order.
OrdersListened ==
  pc = "txs" => \A id \in DOMAIN work.orders : active[chain[id].address] = id

\* "Else is unreachable": an active address always has an order in the state.
ActiveOrdersStored ==
  \A a \in Addresses : active[a] # NoId => active[a] \in DOMAIN work.orders

\* The two comments are never wrong at once.
ActiveOrOpen == OrdersListened \/ ActiveOrdersStored

\* The inflow is "how much USDT was deposited to the Tron address": no order is
\* reported with more than all the deposits to its address.
InflowWasDeposited ==
  \A i \in DOMAIN reported :
    reported[i].inflow <= SumTo(chain[reported[i].id].address,
                                DOMAIN state.latest, LAMBDA tx : tx.value)

\* "The program won't count 0.5 USDT transfers to the address above" if its minimum
\* is 1 USDT: no order is reported with more than was read from the transfers to its
\* address that reach its minimum.
SmallTransfersRefused ==
  \A i \in DOMAIN reported :
    LET id == reported[i].id IN
    reported[i].inflow <=
      SumTo(chain[id].address, DOMAIN state.latest,
            LAMBDA tx : IF tx.value >= MinDeposit[id] THEN ParsedValue(tx) ELSE 0)
=============================================================================
