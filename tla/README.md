# A verification project for Untron

Untron moves USDT from Tron to an L2. A *creator* opens an *order* against the
liquidity of a *provider* who owns a Tron address (a *receiver*); whoever sends
USDT Tron to that receiver pays for the order. A *fulfiller* may advance the
order's proceeds before the transfer is proven. A *relayer* runs a ZK program
that walks through Tron blocks, counts the transfers to the receivers of open
orders and proves to the contract which orders are to be closed with which
inflow.

This directory holds TLA+ modules that model that code, TLC configurations
that check them on small instances, and proofs that TLAPS checks for every
value of the constants.

## 1. The system

| component | source | state | operations | status |
|---|---|---|---|---|
| core contract | `contracts/src/UntronCore.sol`, `UntronTools.sol`, `interfaces/IUntronCore.sol` | orders, busy receivers, owners of receivers, providers, action chain, state hash, settings, USDT balance | createOrder, changeOrder, stopOrder, fulfill, closeOrders, setProvider, updateActionChain, setCoreVariables, pause, unpause | `UntronCore` |
| fee arithmetic | `UntronFees.sol` | relayerFee, feePoint | calculateFee, conversion, setFeesVariables | `UntronFees`, setter in `UntronCore` |
| smart transfers | `UntronTransfers.sol` | addresses of Across, the swap router, USDT | smartTransfer, internalTransfer, swapUSDT, buildSwap | `UntronTransfers` |
| ZK verifier wrapper | `UntronZK.sol` | verifier, key, trusted relayer | setZKVariables, verifyProof | through `closeOrders` |
| ZK program | `program/src/lib.rs`, `main.rs` | State: latest block, cycle, SRs, votes, pending actions, orders, action chain | stf, the commitment of the public values | `UntronProgram` |
| protobuf parser | `program/src/protobuf.rs` | none (pure) | read_varint, parse_block_header, parse_usdt_transfer, parse_vote_tx | numbers in `UntronBytes`, results in `UntronProgram` |
| crypto helpers | `program/src/crypto.rs` | none (pure) | create_merkle_tree, hash, key recovery | Merkle tree in `UntronBytes` |
| relayer | `relayer/src/relayer.rs`, `main.rs`, `zksync.rs`, `tron.rs`, `prover.rs`, `config.rs` | latest and proven state, pending actions and blocks, channels, backup files | the sync loop, proof, restart, event subscription | `UntronRelayer` |
| fulfiller | `relayer/src/fulfiller.rs` | buffer of orders | receive a batch, quote, fulfill, keep the rest | `UntronRelayer` |
| all together | contract, program, provers, Tron | proofs on their way, states that provers start from | race, crash, repeat, delay | `UntronSystem` |
| log forwarder, CLI, tests and mocks | `telegram.rs`, `cli/untroncli.py`, `contracts/test` | none | I/O only; the CLI wraps an earlier contract | not modelled |

Across' SpokePool, the 1inch router, the USDT token, the SP1 verifier and Tron
itself are outside the repository; they appear as the code uses them.

How the parts interact. The contract appends to the *action chain*, a hash
chain, one action for every order and one closure (size 0) for every receiver
it frees. The relayer feeds the actions that it hears of and Tron blocks to the program.
The program matches actions and transfers by receiver and time, commits a new
state, and reports closed orders with their inflows. The relayer sends them to
`closeOrders`, which accepts a proof that starts from the stored state hash and
whose last action is on the chain. Contract and program therefore agree on
nothing but the chain. Inside the relayer process three tasks talk over two
bounded channels: the listener sends actions to the main loop, the main loop
sends batches of closed orders to the fulfiller.

How the modules build on each other:

    UntronFees, UntronTransfers <- UntronCore --implements--> OrderBook
    UntronBytes <- UntronProgram <- UntronSystem --uses--> OrderBook
    UntronRelayer (positions of what UntronProgram takes in)

and the proofs about them:

    UntronCore    <- UntronCoreProofs <- UntronBookProofs (it implements OrderBook)
                                      <- UntronMoneyProofs -> UntronSums (sums)
    UntronProgram <- UntronProgramProofs <- UntronPaymentProofs <- UntronSystemProofs
                     (-> UntronSums)                               (-> UntronSystem)
    UntronRelayer <- UntronRelayerProofs

What is hard. On the contract: several accounts act on one receiver and one
order in any order (takeover after expiry, stop, fulfill, close, setProvider);
an ID may be used after its order was deleted; payouts, fees and returned
liquidity are rounded apart; fees and settings change between a quote and its
use. In the program: a light client must take in final blocks only, whatever
Tron reorganizes; the same tail is verified by two runs; orders and actions
outlive a run while the map of active addresses does not; everything panics,
and a panic stops the protocol rather than one order. In the relayer: a restart
loses what was not backed up, events are not replayed, the tasks of the run before
go on, channels are bounded.
`PROJECT.json` lists each hazard at its line, with the properties that cover it
or the reason why none does.

What makes each component correct. Contract: a busy receiver has exactly the
order that the chain last announced for it, orders live once, collateral and
liquidity are paid once, the contract holds what it owes, the fulfiller's claim
cannot be taken. Program: only final blocks count, none ahead of an action that it
reaches, each transfer counts for at most one order and in its time, an order is
reported once and for a reason, the votes are those of Tron. Relayer: every action
from the subscription on and every block reaches a run in order and once, a proof is
about what was run, a restart resumes from a state that was reached, rounds and
fulfillers end. System: what the program reports is what the contract expects.

## 2. The modules

### UntronFees, UntronTransfers

`calculateFee` and `conversion` as operators on naturals (`BP` = 1 000 000, the
checked subtraction of a fee is the field `ok`), and `smartTransfer`: whether a
transfer can be sent and how much of the contract's USDT it takes. A route that
Across or the router refuses reverts (`Routes`); what a swap returns above its
minimum is a choice (`Bonuses`); with a fixed output the excess goes to the
owner in USDT, as the code has it. A swap also runs two contracts that the creator
names, the executor and the token; here they move tokens and nothing else.

### UntronCore (run through MCUntronCore)

One action per external function that changes state, each a whole transaction;
a call that reverts is no step. The correspondence is by name. Points of the
translation:

* `fulfill` and `closeOrders` send an order's transfer (`UntronCore.sol:285`, `375`)
  before they update the order, and nothing guards the contract against being called
  back in between. USDT and the bridge call nobody; the code that a swap runs may
  call. The model makes a transaction one step and does not have that call. It
  is therefore silent about swaps that call back, and what is claimed about money is
  claimed of transfers without a swap: the runs `core_accounting` and `core_batches`
  have none, and the theorems on money assume that there is none (`NoSwap`).
* A tip of the hash chain determines the actions behind it, so `actionChain`
  is the sequence of actions, the tip its length, and an order's ID the
  position of its creation. ID 0 is `bytes32(0)`.
* Only the contract's own USDT is tracked. A `transferFrom` may fail for want
  of funds, and then nothing happens. The token accepts a transfer that the
  balance covers; a token that refuses `address(0)` only makes a `fulfill` of
  an ID without an order revert.
* Checked arithmetic is a guard `... \in UInt`.
* Deleted storage reads as zeros: `NoOrder`, `NoProvider`, `ZeroAddress`. So
  `fulfill` and `closeOrders` of an ID whose order is gone go through, free
  `address(0)` and put a closure of it on the chain, as in the code.
* `closeOrders` takes any public values over distinct known IDs with any
  inflows in `Inflows`: the contract checks no more than that. Any action may be
  the latest included one; the tip stands for all of them. The state hash is
  replaced by the reported one.
* A repeated ID in `fulfill` reverts in the code (the second pass finds the
  order fulfilled); the lists of the model have distinct IDs. A receiver named
  twice in `setProvider` is freed at its first mention only, so
  `ReceiverListsAssumption` lets a list name it once, and bounds the list by
  `MaxBatch` as it does those of IDs. `ProvidersAssumption`: there are finitely
  many providers, so that their liquidities have a sum.
* The lists that `_freeReceiver` is called for are freed in list order.
* `unixToTron` subtracts a constant origin; `now` counts from it.
* Init is the contract after its owner has set core and fee variables.
  `genesisState`, `stateUpgradeBlock`, `setTransfersVariables` and
  `setZKVariables` are left out.

### OrderBook

The abstract specification of the contract as the program and the provers see
it: who holds which receiver, what the chain has told, which orders are open or
fulfilled, and the state hash. Seven actions (open, stop, fulfill, close,
release, patch, pass of time) without money, accounts, settings or transfers.
`UntronCore` implements it: `ImplementsBook` instantiates it with the status
read off the stored orders (`Status`), and the two passing runs of the contract
check it as a property. Changes of an order, settings and pauses are stutters.

### UntronBytes

The pure functions on bytes and hashes. `read_varint` gives what the code's
loop leaves of a number when every byte carries `VARINT_BITS` bits and the word
has `WORD_BITS`: a shift past the word wraps, as in the release build that the
zkVM runs. `from_le_bytes` reverses the last `VALUE_BYTES` bytes of a
big-endian number. `create_merkle_tree` builds the root level by level over the
hashes of the transactions. `hash` is a constructor: a hash is what was hashed, so
two lists have the same root only if the construction confuses them. Leaves and pairs
go through the same `hash`, as in `crypto.rs:38-43` and `lib.rs:246`.

### UntronProgram (run through MCUntronProgram)

A run of `stf` on a copy `work` of the state: `Start` takes the new actions and
blocks, `VerifyBlock` does the consensus checks of one block and takes it in
unless it is one of the last `FINALITY`, `OpenOrder` / `CloseOrder` toggle the
address of a due action, `WalkThrough` moves on to the transactions,
`IgnoreTx` / `CountTransfer` / `CountVote` take one transaction,
`FinishBlock` runs the maintenance logic, `Commit` ends the run as `main` does,
and `Abort` is a panic or a prover that stops: both leave the proven state as it
was. `active` and `closed` are locals of a run.

* A block's ID hashes its predecessor, so it is modelled by the chain up to it:
  `state.latest` is the sequence of blocks taken in. The ghost `solid` is the
  number of blocks that Tron itself will never take back.
* A run reads its input only, so the environment (new actions, blocks,
  reorganizations) moves between runs.
* The blocks of the input are a stretch of Tron's, of any length. The actions are
  actions of the contract in their order, of which some may be left out: those that
  the state knows need not be followed by the next one, since the program compares no
  `prev` (`lib.rs:140-145`), the contract looks at the last action only, and a relayer
  that starts again hears only what is announced from then on (`zksync.rs:60`). Each
  run leaves out any number before the new ones (`skipped`), and the ghost
  `state.missed` collects them.
* A header is honest and names the Merkle root of the block's transactions;
  with it comes the block's own list or any from `PassedLists`, which may be any lists
  of Tron transactions, and a list whose root differs is an abort. A Tron transaction
  is longer than the 64 bytes that a pair of hashes has, so that `Tx` and the pairs of
  `combine_hashes` are different things to hash. Nothing in the program checks that
  length; `OwnTransactions` is said of lists of such transactions only.
* Signatures and serialization are those of honest blocks. Equal vote counts may be
  elected in any order, as the sort is over the entries of a hash map.
* The program stores `min_deposit` and never looks at it, so the models count a
  transfer of any value. The minimum of each action is the constant `MinDeposit`, for
  the statement of the documentation alone (`SmallTransfersRefused`, which fails).
* A transaction has a recipient, a value and whether it succeeded. The parsers
  are modelled by what they return: `ParsesAsTransfer`, `ParsesAsVote`,
  `ParsedValue` and the timestamp of a header, through the functions of
  `UntronBytes`. The check of the contract type in `protobuf.rs:142` has no `?` and
  drops its result: a transfer is what is laid out as one.
* `InflowWasRead` speaks of values and times as the program reads them, whatever the
  width of the word: an order lives from the first block that reaches its action to
  the first that reaches the next action on its address, of those not left out, by
  `read_varint` of the block's time. An order whose closure was left out lives on: in
  the program nothing else ends it. `InflowWasDeposited` speaks of the values as sent.
* `PowersAssumption` states of the widths in use that powers of naturals are
  naturals, which the provers have no rule for; TLC computes it. Time starts at 1,
  so `MaxTime` is at least that.
* `ClosedForAReason` speaks of the time of a block as the program reads it
  (`read_varint`), not of `state.timestamp`: when the word truncates, the time of a
  later block may read as less, and the block that closed the order is then no
  longer the latest in time.
* Clocks: an action or a block may share the timestamp of the event before it
  or be later; block timestamps increase.

### UntronSystem (run through MCUntronSystem)

Contract, program and provers over one action chain. The contract is `OrderBook`,
with `UntronProgram`'s actions as its chain and a state of the program in the
place of its hash. A prover starts a run from any state that the contract or a
prover has reached (`StartFrom`): the relayer goes on from what it proved without
waiting for a receipt, comes back to an older state after a crash, and is not
alone. `Finish` ends a run with a proof or with nothing. A proof stays in the
set `proofs`, so it may arrive late, never, twice or after later ones; `Accept`
is `closeOrders` with its three conditions. Users open, stop, fulfill and
release meanwhile, and the owner patches the chain (`Creators`, `Fulfillers`,
`Providers`, `Owner`).

* A proof is assumed to carry the four values that `closeOrders` decodes. As the two
  are written it does not: `main.rs:54-64` commits seven values, against its own
  comment "Must be encoded as defined in the smart contracts" (`main.rs:10`), and the
  contract would read the first of them, a block ID, for the old state hash and refuse.
  The module says what holds once they agree.
* A run may leave actions out here as well, and the contract accepts its proof:
  `ProofsCoverBlocks` says what the contract can still rely on, and the lives in
  `PaidAsRead` go on past a closure that was left out.
* The others move while no run is under way. A run reads only what it was given
  at its start, so this loses no behaviour of the contract or of a proof.
* `AtContract` is `UntronProgram` with the contract's state as its state: the
  properties of the single prover, asked about what the contract was told.
  `ToldOnce`, `PaidAsRead` and `ProofsCoverBlocks` are `ClosedOnce`, `InflowWasRead`
  and `ActionsCoverBlocks` of it.

### UntronRelayer

The relayer process: the main loop with one action for every stretch between two
awaits (`New`, `Poll`, `Fetch`, `Drain`, `Stf`, `Send`, `Prove`, `Submit`,
`Backup`), the listener (`Subscribe`, `Hear`, `Hangup`) and one fulfiller per
run (`Recv`, `Quote`, `Fulfill`). Every remote call may fail; an error drops what
`run()` owns, among it both ends of the channel of actions and the sender of the
batches, and `main` starts again from the latest backup (`Fail`, `New`). A panic
of the main task, or a failing constructor, ends the process (`Panic`).

* The relayer's copy of the program's state is reduced to how far it has come in
  blocks and actions. `Executes` holds the assertions of `stf` that depend on its
  input, `After` the positions it moves to; which known orders a call closes is a
  choice, each order once in a run.
* The code runs `stf` on one block at a time and proves all pending blocks at once.
  The two executions reach the same positions (that is `ProofOfWhatWasRun`); the
  orders in the two states may differ, since `stf` forgets the active addresses
  after every call. The module says nothing about those orders.
* `ORDER_TTL` and `FINALITY` are the two numbers of the assertion in `lib.rs:156`.
  At the code's 100 and 19 the assertion fails for the single block that the
  loop passes, and the relayer panics at its first `stf`; it panics for every
  other sum above 0 as well. The run takes both as 0, the only values at which
  the loop does anything, so that the rest of it is checked.
* The drain waits for the sender of the channel to be gone (`SenderGone`). A
  round therefore ends only after its listener has, and the model keeps that.
* The contract announces while a listener is on or connecting, and Tron moves
  before `Poll`: nothing else reads them, the height that `Poll` sees may lag, and
  a fork replaces a block that was taken in, since any other is as good as new. So
  these bounds lose no behaviour of the relayer.
* An error ends `run()` and nothing else. Its listener goes on as long as its stream
  does: what it hears it cannot send, which `zksync.rs:74-76` only logs. `orphans`
  holds the runs whose listener is in that state (`OrphanEnds`); nothing makes them
  leave it. The fulfiller works off its channel and ends (`FulfillersEnd`).
* `owed` collects the orders that a fulfiller took and has sent no transaction for. A
  failing call ends the fulfiller with all it holds (`fulfiller.rs:42`, `43`, `59`),
  and the orders are still owed then. A transaction that is sent counts as done,
  though nobody waits for its receipt (`zksync.rs:113-116`) and it may revert.
  `OrdersHeld` therefore speaks of fulfillers that run, and of orders not sent.
* With `FULFILL` off the receiver of the batches stays in `run()`, and the send
  that finds the channel full waits for ever (the mutant of `RoundEnds` is the
  same state reached with `FULFILL` on). `RoundEnds` is claimed with `FULFILL` on.
* `SAME_DIRECTORY` says whether `state/`, which is written, is `/state`, which is
  read: true if the process runs in the root directory.
* A backup file that was cut short is the latest file and does not deserialize,
  so the next run starts from `State::default()`, in which no block is accepted.
* What the contract announces between a backup and the next subscription is not
  heard again: `NoGapInARun` speaks of one run, from its subscription on. For the
  program those actions are the ones left out.
* The orders that a call of `stf` closes, and those of a batch, are sets: nothing
  depends on their order, and each order is in at most one of them (`BatchInv`).
  `MaxForks` bounds how often a fork replaces a block that was taken in.

### The proof modules

`UntronCoreProofs`, `UntronBookProofs`, `UntronMoneyProofs`, `UntronProgramProofs`,
`UntronPaymentProofs`, `UntronSystemProofs` and `UntronRelayerProofs`, with the lemmas
on sums in `UntronSums`, hold the theorems of section 5 and nothing that is run.

## 3. The runs

| run | shows |
|---|---|
| `core_accounting` | two providers, one receiver, one creator, one fulfiller, up to 5 actions: every order of create, takeover, change, stop, fulfill, close and setProvider. Invariants of books, chain and claims; every step is one of the order book; at rate 100% the contract holds exactly what it owes |
| `core_batches` | two receivers, batches of two, a rate that rounds, fees that change, a transfer over the bridge, an emergency patch: the contract stays solvent, a fulfiller pays for what is sent, the order book is implemented for batches too |
| `core_stop_credit` (violation) | at 50% a created and stopped order leaves its provider richer: `stopOrder` credits `size`, not its conversion |
| `core_double_orders` (violation) | ending an expired order frees the receiver under its successor; a third order is opened while the second is live |
| `core_fixed_output` (violation) | a fixed-output swap pays its excess, counted in another token, in the contract's USDT |
| `program_orders` | up to 4 actions and 3 blocks on one receiver, cut into runs in every way, actions left out, a word that times do not fit, forks and aborts: finality, no block ahead of an action, inflows as read in the life of the order, each order reported once and for a reason |
| `program_consensus` | four candidates for three places, FINALITY 2, votes, ties, too few candidates, forks by few producers, any list of up to two transactions and longer ones with repetitions in the place of a block's own: finality, votes, and the Merkle root |
| `program_active` (violation) | active addresses and open orders come apart in both directions: an order that is open at the end of a run is not listened to in the next, and a filled order leaves its address active, so that the "unreachable" branch is reached and one more transfer panics |
| `program_read` (violation) | an order is reported with more than was deposited: a transfer's value has its bytes reversed |
| `program_minimum` (violation) | transfers below the minimum of an order fill it |
| `system` | one receiver, 3 actions, 3 blocks, 2 proofs that race, repeat and come late, actions left out, calls of users and a patch by the owner: the contract is told of each order once, with inflows as read in its life, of final blocks only and of none ahead of an action, never comes back to an earlier state, and what it was told of is settled |
| `relayer` | two runs, channels of capacity one, every call failing at will, a fork, restarts from whole, cut and missing backups beside the tasks of the run before: the properties above, and liveness of rounds and of the fulfillers left behind |

`program_active` checks a disjunction of two statements of the repository, so that
one counterexample refutes both: `OrdersListened` and `ActiveOrdersStored`.

Bounds, and why they are enough. All unbounded data has a named bound
(`MaxActions`, `MaxTime`, `MaxBatch`, `MaxBlocks`, `MaxUint`) in a guard.

* Contract: the shortest takeover with a third order takes four actions on the
  chain (create, free, create, free), five let a further one follow. One
  receiver makes all actors meet; two receivers and batches of two are the
  smallest instance in which a batch mixes orders. Sizes 0..2 and `BP` = 2 give
  an exact rate, a rate that rounds up to nothing and a rate above 100%.
  `MaxTime` = 2 expires an order, since 300 is less than one second of Tron
  time; `MaxUint` is far above every sum reached in these runs.
* Program: with FINALITY 1, three blocks are the least that two overlapping runs
  need; four actions give a creation, a closure, another creation and the one
  that has to stay pending. A size of 3 and transfers
  read as 2 make an order fill in two blocks, with an excess. With FINALITY 2 two runs need four blocks, and
  three places leave room for a producer who is no longer recent. ORDER_TTL only
  sets the least number of blocks of a run and is 0 here. A byte of a number is
  scaled to one bit. `WORD_BITS` 2 in `program_orders` makes the time 4 what times of
  2^32 and more are in the zkVM: it is read as an earlier one, so that later blocks
  are read as older than those before them. The other runs read every number right
  (`WORD_BITS` 8); section 5 proves their properties for every width.
* System: two proofs are the least that race, and no run starts that could not end
  in one of them; three blocks with FINALITY 1 let
  two proofs reach different states; a receiver's time to live of 0 lets takeover
  and release happen at the next instant, within three actions.
* Relayer: a channel of one is full after one message, two runs are a restart,
  two blocks make two rounds with a proof after each, two orders paid exactly
  make a batch of which one can be left out, and one fork gives a block that does
  not extend the last. Larger channels only delay the waiting.

`CHECK_DEADLOCK FALSE` is set because bounded chains, clocks and balances run
out, and because the relayer process may halt.

Fairness. Only `UntronRelayer` assumes any: weak fairness of the main loop and of
each fulfiller. tokio runs every task that can go on. Weak fairness is
enough: each channel has one sender and one receiver, so whoever waits for room
or a message stays enabled once it is there. It includes that every remote call is answered, be it by
an error: the code sets no timeout, so that is an assumption about the RPC
clients. The listener is not assumed fair, since nothing makes a subscription
deliver or end. `RoundEnds` therefore begins where the listener has ended.
Contract and program are called by others, and no fairness is assumed of them.

Every property of a passing run has a mutant in `PROJECT.json`: an operator of
the module, defined before the one it replaces, that changes it as a plausible
bug would.

## 4. What the runs found

The six violation runs show seven disagreements between a statement of the
repository (quoted in `PROJECT.json`) and its code, three in the contract and four
in the program. Some shape the invariants of the passing runs:

* because freeing does not look at the holder, "at most one live order per
  receiver" is false. What holds is `BusyHoldsOrder`: a *busy* receiver is held
  by an open order of its owner; and `OrphansAnnounced`: an order that lost its
  receiver has been announced as closed;
* because active addresses are lost between runs, "the reported inflow is
  everything that was paid in time" is false. What holds is `InflowWasRead`: it
  is never more than what was read from the transfers in the order's life;
* because minima are not looked at and values are read in the wrong order of bytes,
  `InflowWasRead` counts transfers of any value and speaks of values as read.

Not every disagreement has a run. `ORDER_TTL` is 300 "// 5 minutes" and is added to
milliseconds (`UntronCore.sol:18`, `151`); the times of blocks are cut to the 32 bits
of the zkVM's word (`protobuf.rs:50`), where no action is ever due; public values are
encoded in two ways (above). The models have the first two as the code does and
assume the third away; the hazards list them.

## 5. What is proved

TLAPS proves the following for every value of the constants that the assumptions
of the modules allow: any number of accounts, receivers, orders, blocks, actions
and proofs, any rate, fee, limit and width. Each theorem is named after what it
says; the property beside it is the one that the runs check.

| module | theorem | property |
|---|---|---|
| `UntronCoreProofs` | `TypeCorrect` | `TypeOK` |
| | `BusyReceivers` | `BusyHoldsOrder` |
| | `ChainTellsOrders` | `ChainHoldsOrder` |
| | `OrphansClosed` | `OrphansAnnounced` |
| | `FulfillersClaim` | `FulfilledClaim` |
| | `OrdersLiveOnce` | `OrderLifecycle`, an action property |
| `UntronBookProofs` | `ContractIsABook` | `ImplementsBook`, the refinement of `OrderBook` |
| | `OrdersAreRecorded` | `Recorded`: the chain says what the contract stores |
| `UntronMoneyProofs` | `ContractIsSolvent` | `Solvent`, if `NoDiscount` and `NoSwap` |
| | `NothingIsStuck` | `ExactAccounting`, if `AtPar` and `NoSwap` |
| | `FulfillersPay` | `FulfillCoversItself`, an action property, if `NoSwap` |
| | `ProvidersGetBackWhatTheyGave` | `ReturnsWhatItTook`, an action property, if `NoDiscount` |
| `UntronProgramProofs` | `TypeCorrect` | `TypeOK` |
| | `EachClosedOnce` | `ClosedOnce` |
| | `BlocksAreCovered` | `ActionsCoverBlocks` |
| | `OnlyFinalBlocks` | `TakenIsFinal` |
| | `EachClosedForAReason` | `ClosedForAReason` |
| `UntronPaymentProofs` | `OnlyOwnTransactions` | `OwnTransactions` |
| | `VotesAreTrons` | `VotesMatchTron` |
| | `InflowsWereRead` | `InflowWasRead` |
| `UntronSystemProofs` | `EachToldOnce` | `ToldOnce` |
| | `AcceptedBlocksAreCovered` | `ProofsCoverBlocks` |
| | `ProofsAreOfFinalBlocks` | `ProofsStayFinal` |
| | `SettledForGood` | `ToldIsSettled` |
| | `NeverGoesBack` | `NeverBack`, an action property |
| | `ContractPaysAsRead` | `PaidAsRead` |
| `UntronRelayerProofs` | `TypeCorrect` | `TypeOK` |
| | `NoActionLost` | `NoGapInARun` |
| | `ProofsLinkUp` | `ResumesFromAProof` |
| | `ProofsAreOfWhatWasRun` | `ProofOfWhatWasRun` |
| | `OrdersAreHeld` | `OrdersHeld` |

### The contract

None of the invariants is inductive alone: that a busy receiver holds an open
order says nothing about an order that has just lost its receiver, and freeing
the receiver of an ID beyond the chain must not be possible. `BooksInv` conjoins
the types, `Unwritten` (IDs beyond the chain hold nothing), `BusyHoldsOrder`,
`ChainHoldsOrder` and `OrphansAnnounced`. The four handlers that free receivers
(stopOrder, fulfill, closeOrders, setProvider) all follow from one lemma,
`FreeingKeepsBooks`, about a step that frees a set of receivers, announces each
of them, ends only orders on those receivers and keeps the terms of the others.
`createOrder` has its own argument, split on whether it takes a receiver over;
changeOrder, the owner's patch and the settings are simple. `LifeInv` adds
`NothingElseStored` and `FulfilledClaim`; `EvolutionKeepsLife` says that an order
which stays, is deleted, changes its transfer while open, or is fulfilled while
its receiver is freed keeps both, and each handler is shown to let orders evolve
in these four ways only. `OrdersLiveOnce` follows from the same case split.

*The order book.* The book has no records of orders: it reads receiver and age
in the action that created an order, the contract reads them in its storage. The
refinement therefore needs `Recorded`, that the two agree while the order is
open. `BookInv` adds it to `LifeInv`, and one lemma per transaction gives the
step of the book that it is. Changes of an order, settings and pauses are
stutters of the book, and the owner's patch is a step of its own. The state of
each ID is read off its order (`Status`), which the freeing lemmas of the first
module determine.

*Money.* The surplus of the contract is its USDT less what it owes. `MoneyInv`
(types, the rates of stored orders are rates that were offered, swaps of stored
orders are swaps that may be asked) is inductive, and each transaction is shown
to change the surplus by nothing at par and never downwards without discounts
(`BalanceKept`). What `fulfill` and `closeOrders` do to many orders at once is a sum
over a set. The prover cannot instantiate the library's induction theorems, which
take an operator as a parameter, but an induction over a *set* of numbers is first
order: `UntronSums` proves from it that `SumFunctionOnSet`, a fold that leaves the
order of the elements open, does not depend on that order, splits over disjoint
sets, is monotonic, and so on.

Three hypotheses, stated with the theorems that need them. `NoDiscount`: no
provider offers a rate under 100%. `AtPar`: every rate is 100%. `NoSwap`: no creator
asks for a swap. They are no convenience: without the first `ReturnsWhatItTook`
fails (`core_stop_credit`), and the last keeps out two things that a swap does: with a
fixed output it breaks `FulfillCoversItself` (`core_fixed_output`), and it runs code
that may call the contract back in the middle of `fulfill` or `closeOrders`, which
the model does not have. The theorems about books, orders and the order book
hold of the model with swaps; as it takes a transaction for one step, they say of the
code what it does as long as no swap calls back.

### The program

*Types.* `TypeInv` is `TypeOK` and, while the contents of a block are looked at,
that there is one.

*The ledger* (`LedgerInv`). A state has come to the first `action_chain` actions. The
pending ones are in order, and of the actions between them only those that were left
out are missing (`PendingInOrder`); what precedes the first of them is behind the
state (`Behind`). Its orders were opened by actions behind it, and all actions that
are not later than its blocks are behind it (`UpToDate`). What a run reports was open
when it began, or was opened by it, and is not open now, each once (`Settles`).
So two runs one after the other report different orders (`RecordGrows`), and
`ClosedOnce` and `ActionsCoverBlocks` follow. An address may be active for an order
that is gone: `Listens` says no more than that its ID is behind the state.

*Finality* (`FinalityInv`). A run has verified some blocks on top of the latest one
that it takes in; the last producers on its cycle are theirs, and the cycle holds
none twice (`RunBlocks`, `NoneTwice`). At the end these are `FINALITY` blocks by as
many different producers, so Tron keeps everything below them (`KeptByTron`). The
assumption about Tron is in `ProduceBlock`: a block on which `FINALITY` different
producers have built is not taken back.

*Reasons* (`ReasonInv`). The latest block of the run is the one whose time closes an
order, and neither new actions nor new blocks take a reason away.

### What the program counts

*The root of a block* (`RootDetermines`, `OwnInv`). A node of the Merkle tree says
how high it is: as often as one can go to the left before coming to the hash of a
transaction, which no pair is. On level k all nodes but the
last are k high, and the last, which may have come up as it is, is at most that
high. So the nodes of a level say which of them is a pair, a level determines the
one below, and the root the list: any other list of transactions
has another root. What a run has left to walk through is then always the end of
the block's own list. This is an induction over the levels of one tree, which is
first order, like the one over sets below.

*Sums* (`Places`, `Total`). Votes and inflows are sums over places, pairs of a block
and a position in it; `Walked` are the places that a run is past. The properties
state the same sums block by block, with folds, and `UntronSums` equates the two.

*Votes* (`VotesInv`). At each step of a run, and in the proven state, the votes are the
sums over the places walked through since the last maintenance block that is
finished.

*Inflows* (`PaymentInv`). What is counted for an order, open or reported, is no more
than the payments to its address in the blocks in which it lived by the times as
read (`Covered`). To count one more transfer for the order that its recipient is
active for, one has to know that the order lives in that block. It has begun: the
actions behind a state that were not left out were reached by its blocks (`Waited`). It
has not ended: whatever action a block has reached is behind the state before the
transactions of the block are looked at (`Settled`), and an active address has no later
action behind the state but those that were left out (`ListensToLast`). And the payment was not counted before, since
its place was not walked through. Nothing is asked of the width of the word, as the
program compares actions and blocks by one reading of time throughout.

### Contract, program and provers

`SystemInv` says of *every* state that a prover may start from what the
program's invariants say of one: it is in line with the chain and with Tron
(`Good`), and each proof on its way leads from such a state to a later one and
settles what it reports (`GoodProof`). The chain grows meanwhile, by the calls of
users and by proofs that are accepted, and that disturbs neither (`GoodStays`,
`GoodProofStays`). Of the contract it says that its book is in line (`BookInv`: a
receiver is held by an open order that asked for it, all IDs are on the chain)
and that what it was told of is over (`ToldAreOver`). A step of a run is then a
step of `UntronProgram`, whose lemmas are used as they stand; `AcceptKeeps` shows
that an accepted proof is a run of the contract's own state. The orders a proof
closes are on the contract's chain (`ProofIds`): the contract itself checks no
more of them than that the last action is.

`SoundInv` adds of every such state and proof that it is `Sound`: its blocks have
reached what is behind it and was not left out, and its orders and reports are covered
by payments; what was left out on the way to it stays so. A
proof that is accepted ends in a longer stretch of Tron's final blocks than the one
the contract has, so what was covered stays covered, and what the proof reports adds
to it (`AcceptIsSound`). Sums of different provers never meet: the contract takes in
a proof only from its own state.

### The relayer

`NoGapInARun` needs where the listener is (`GapInv`: from <= heard <= announced, and
an empty channel outside of a run); `ResumesFromAProof` needs that the backup and
`proven_state` are states that were proved or that the relayer was set up with
(`ReachedInv`). `ProofOfWhatWasRun` holds though the pending input is never emptied:
until its first proof a run is ahead of `proven_state` by exactly what is pending,
and after it the first pending block is behind that state, so that no second
proof is made (`PendingInv`). `OrdersHeld` needs that no order is in two
batches, or in a batch and owed (`BatchInv`).

### Only model-checked

* Liveness under fairness: `RoundEnds`, `FulfillersEnd`. The prover has no rules
  for ENABLED.
* The violation runs, which are counterexamples. `ReturnsWhatItTook` is both: proved
  for rates of at least 100% and refuted at 50%.

## 6. Not modelled, and plan

Not modelled: hash functions, signatures and key recovery, the walk over the
fields of a protobuf message and the encoding of the public values (layout),
transactions of 64 bytes in a list, swaps that call the contract back, the RPC clients beyond failing or answering, the log forwarder, the CLI (written for
an earlier contract), deployment scripts, the setters of external addresses
(`setTransfersVariables`, `setZKVariables`), and the fields that are written for
off-chain readers only (`genesisState`, `stateUpgradeBlock`).

Every safety invariant and action property of the passing runs is a theorem. What
remains is what the provers have no rules for, as listed above, and what follows from
a change of the code: with a guard against re-entrance the hypothesis `NoSwap` could
be weakened to one about fixed outputs; with a check of `prev`, `state.missed` would
stay empty, and a life would end with the next action on the address; with a timestamp
of 64 bits, lives by the times as read would be lives by the times of blocks.
