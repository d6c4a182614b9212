---------------------------- MODULE UntronRelayer ----------------------------
(***************************************************************************)
(* The relayer process (relayer/src): the main loop, the listener for the  *)
(* actions of the contract, and the fulfiller, three tasks that talk over  *)
(* two bounded channels.  An error ends the main loop and main restarts    *)
(* it with a new listener and a new fulfiller, while those of the run      *)
(* before go on: the fulfiller until it has worked off its channel, the    *)
(* listener, which nobody hears any more, for as long as its stream does.  *)
(* A panic ends the process.                                               *)
(*                                                                         *)
(* The relayer's copy of the program's State is modelled by how far it     *)
(* has come: the blocks and the actions it has been given.  What stf makes *)
(* of them is UntronProgram's; which known orders it closes is a choice.   *)
(* Every remote call may fail.  A block is named by the chain up to it.    *)
(***************************************************************************)
EXTENDS Integers, Sequences, FiniteSets, SequencesExt

CONSTANTS
  ORDER_TTL, FINALITY,  \* the two numbers in the assertion of stf
  ACTION_CHANNEL,       \* 1000: capacity of the listener's channel
  ORDER_CHANNEL,        \* 32: capacity of the fulfiller's channel
  FULFILL,              \* config.zksync.fulfill
  MIN_ORDERS,           \* config.relay.min_orders_to_relay
  SAME_DIRECTORY,       \* "state", which is written, is "/state", which is read
  Exact,                \* orders whose inflow is their size exactly
  MaxBlocks,            \* bound: height of Tron
  MaxForks,             \* bound: how often the block of one height is replaced
  MaxActions,           \* bound: actions of the contract
  MaxRuns               \* bound: runs of the main loop

ASSUME RelayerAssumption ==
  /\ ORDER_TTL \in Nat /\ FINALITY \in Nat /\ MIN_ORDERS \in Nat
  /\ ACTION_CHANNEL \in Nat \ {0} /\ ORDER_CHANNEL \in Nat \ {0}
  /\ FULFILL \in BOOLEAN /\ SAME_DIRECTORY \in BOOLEAN
  /\ MaxBlocks \in Nat /\ MaxForks \in Nat /\ MaxActions \in Nat /\ MaxRuns \in Nat
  /\ Exact \subseteq 1..MaxActions

VARIABLES
  announced,       \* how many actions the contract has announced
  tron,            \* the chain of Tron's nodes
  backup,          \* the latest file of the directory that is read
  proofs,          \* the proofs that were sent to the contract
  pc,              \* where the main loop is
  run,             \* which run of it this is
  r,               \* the variables of run()
  listener,        \* the listener: what it does, and its place in the events
  pendingActions,  \* the channel of actions
  fulfiller,       \* the fulfiller of each run, with its channel of batches
  orphans          \* the runs that are over and whose listener goes on

disk  == <<backup, proofs>>
world == <<announced, tron>>
tasks == <<listener, pendingActions, fulfiller, orphans>>
vars  == <<world, disk, pc, run, r, tasks>>

\* How far a State has come.  A backup that was put in place by hand, and
\* State::default(): the latter knows no representative, every block panics.
GenesisState == [srs |-> TRUE, blocks |-> <<>>, actions |-> <<>>]
DefaultState == [GenesisState EXCEPT !.srs = FALSE]

NoInput == [actions |-> <<>>, blocks |-> <<>>]

\* The variables of run() as it begins, but for the two of one round: new, the
\* actions and the block that are fetched, and closed, the orders they close.
\* told collects the latter.
Begun(s) ==
  [state |-> s, proven_state |-> s, latest_known_block_number |-> Len(s.blocks),
   pending |-> NoInput, total_closed_orders |-> 0,
   new |-> NoInput, closed |-> {}, told |-> {}]

NoListener  == [at |-> "ended", from |-> 0, heard |-> 0]

\* owed collects the orders that it took and has sent no transaction for.
NoFulfiller == [at |-> "none", open |-> FALSE, inbox |-> <<>>,
                buffer |-> <<>>, ngmi |-> <<>>, owed |-> {}]

Init ==
  /\ announced = 0 /\ tron = <<>>
  /\ backup = GenesisState /\ proofs = {}
  /\ pc = "new" /\ run = 0 /\ r = Begun(GenesisState)
  /\ listener = NoListener /\ pendingActions = <<>>
  /\ fulfiller = [i \in 1..MaxRuns |-> NoFulfiller]
  /\ orphans = {}

-----------------------------------------------------------------------------
(* The contract and Tron. *)

Announce ==
  /\ announced < MaxActions /\ announced' = announced + 1
  /\ UNCHANGED <<tron, disk, pc, run, r, tasks>>

\* The nodes put a block on their chain.
ProduceBlock ==
  /\ Len(tron) < MaxBlocks
  /\ tron' = Append(tron, 0)
  /\ UNCHANGED <<announced, disk, pc, run, r, tasks>>

\* The chains that left a trace on the side of the relayer.
Taken == {r.state.blocks, backup.blocks} \cup {p.new.blocks : p \in proofs}

\* They put another block in the place of the last: of one that was taken in,
\* since for the relayer all others are as good as new.
Reorganize ==
  /\ tron # <<>> /\ tron \in Taken /\ \A h \in DOMAIN tron : tron[h] < MaxForks
  /\ tron' = Append(Front(tron), Last(tron) + 1)
  /\ UNCHANGED <<announced, disk, pc, run, r, tasks>>

\* The height that the node in charge reports: it may lag behind the others.
get_now_block2 == 0..Len(tron)

\* A block, or the empty answer for one that does not exist.
get_block_by_number(number) ==
  IF number <= Len(tron) THEN <<SubSeq(tron, 1, number)>> ELSE <<>>

-----------------------------------------------------------------------------
(* The listener. *)

Listens(l) ==
  listener' = l /\ UNCHANGED <<world, disk, pc, run, r, fulfiller, orphans>>

\* It hears the events from the moment of its subscription on.
Subscribe ==
  /\ listener.at = "connecting"
  /\ Listens([at |-> "on", from |-> announced, heard |-> announced])
  /\ UNCHANGED pendingActions

Passed_Unbounded(action) == pendingActions' = Append(pendingActions, action)

Passed_OrDropped(action) ==
  pendingActions' = IF Len(pendingActions) < ACTION_CHANNEL
                      THEN Append(pendingActions, action) ELSE pendingActions

\* The channel takes an action when it has room.
Passed(action) ==
  Len(pendingActions) < ACTION_CHANNEL /\ pendingActions' = Append(pendingActions, action)

\* It passes an event on, and waits while the channel is full.
Hear ==
  /\ listener.at = "on" /\ listener.heard < announced
  /\ Passed(listener.heard + 1)
  /\ Listens([listener EXCEPT !.heard = @ + 1])

\* No subscription, an event that does not decode, or the end of the stream.
Hangup ==
  /\ listener.at \in {"connecting", "on"}
  /\ Listens([listener EXCEPT !.at = "ended"])
  /\ UNCHANGED pendingActions

Listener == Subscribe \/ Hear \/ Hangup

\* What the listener of a run before hears it cannot pass on, which it only logs.
\* It ends when it would have ended anyway.
OrphanEnds(i) ==
  /\ orphans' = orphans \ {i}
  /\ UNCHANGED <<world, disk, pc, run, r, listener, pendingActions, fulfiller>>

-----------------------------------------------------------------------------
(* The main loop. *)

\* The main loop goes on at another place, with new values of its variables.
Goes(to, locals) == pc' = to /\ r' = locals /\ UNCHANGED <<world, run>>

\* A panic of the main task is the end of the process and of all its tasks.
Panic ==
  /\ Goes("halted", Begun(GenesisState))
  /\ listener' = NoListener /\ pendingActions' = <<>> /\ orphans' = {}
  /\ fulfiller' = [i \in 1..MaxRuns |-> NoFulfiller]
  /\ UNCHANGED disk

Dropped_Kept(f) == f

\* The sender of the channel is gone.
Dropped(f) == [f EXCEPT !.open = FALSE]

\* An error: whatever run() owns is dropped, its ends of the channels too.  Its
\* listener, if it has not ended, goes on without it.
Fail ==
  /\ Goes("new", Begun(GenesisState))
  /\ listener' = NoListener /\ pendingActions' = <<>>
  /\ orphans' = IF listener.at = "ended" THEN orphans ELSE orphans \cup {run}
  /\ fulfiller' = [fulfiller EXCEPT ![run] = Dropped(@)]
  /\ UNCHANGED proofs

\* A call to Tron, to the contract or to the prover fails.
CallFails == Fail /\ UNCHANGED backup

Spawned_Never == [NoFulfiller EXCEPT !.open = TRUE]

Spawned ==
  [NoFulfiller EXCEPT !.open = TRUE, !.at = IF FULFILL THEN "recv" ELSE @]

\* main: a new relayer from the latest backup, or the end when none connects.
New ==
  /\ pc = "new"
  /\ \/ /\ run < MaxRuns
        /\ pc' = "poll" /\ run' = run + 1 /\ r' = Begun(backup)
        /\ listener' = [NoListener EXCEPT !.at = "connecting"]
        /\ fulfiller' = [fulfiller EXCEPT ![run'] = Spawned]
        /\ UNCHANGED <<world, disk, pendingActions, orphans>>
     \/ Panic

\* Any head but the known one is taken for news.
Poll ==
  /\ pc = "poll"
  /\ \/ /\ \E head \in get_now_block2 : head # r.latest_known_block_number
        /\ Goes("fetch", r)
        /\ UNCHANGED <<disk, tasks>>
     \/ CallFails

\* The next block; unwrap panics when there is none.
Fetch ==
  LET number == r.latest_known_block_number + 1
      answer == get_block_by_number(number)
  IN
  /\ pc = "fetch"
  /\ \/ /\ answer # <<>>
        /\ Goes("drain",
                [r EXCEPT !.latest_known_block_number = number, !.new.blocks = answer])
        /\ UNCHANGED <<disk, tasks>>
     \/ answer = <<>> /\ Panic
     \/ CallFails

Noted_NewOnly(locals, action) == [locals EXCEPT !.new.actions = Append(@, action)]

\* An action counts for this round and for the next proof.
Noted(locals, action) ==
  [locals EXCEPT !.new.actions = Append(@, action), !.pending.actions = Append(@, action)]

\* The listener owns the only sender.
SenderGone == listener.at = "ended"

\* recv() returns None only when the channel is empty and its sender gone.
Drain ==
  /\ pc = "drain"
  /\ \/ /\ pendingActions # <<>>
        /\ Goes("drain", Noted(r, Head(pendingActions)))
        /\ pendingActions' = Tail(pendingActions)
        /\ UNCHANGED <<disk, listener, fulfiller, orphans>>
     \/ /\ pendingActions = <<>> /\ SenderGone
        /\ Goes("stf", r)
        /\ UNCHANGED <<disk, tasks>>

\* The assertions of stf that depend on its input: enough blocks, each the next one
\* after the one before.
Executes(s, blocks) ==
  /\ s.srs
  /\ Len(blocks) > ORDER_TTL + FINALITY
  /\ \A i \in DOMAIN blocks :
       Front(blocks[i]) = IF i = 1 THEN s.blocks ELSE blocks[i - 1]

\* The blocks are taken in up to FINALITY before the last.
After(s, input) ==
  [s EXCEPT !.blocks = input.blocks[Len(input.blocks) - FINALITY],
            !.actions = @ \o input.actions]

\* The orders that a call may close: known ones that this run has not closed yet.
\* In which order they come is of no consequence, so a batch of them is a set.
Closable == (ToSet(r.state.actions) \cup ToSet(r.new.actions)) \ r.told

Stf ==
  /\ pc = "stf"
  /\ \/ /\ Executes(r.state, r.new.blocks)
        /\ \E closed \in SUBSET Closable :
             Goes(IF closed = {} THEN "decide" ELSE "send",
                  [r EXCEPT !.state = After(@, r.new), !.new = NoInput,
                            !.pending.blocks = @ \o r.new.blocks,
                            !.closed = closed, !.told = @ \cup closed,
                            !.total_closed_orders = @ + Cardinality(closed)])
        /\ UNCHANGED <<disk, tasks>>
     \/ ~Executes(r.state, r.new.blocks) /\ Panic

\* The receiver is dropped by a fulfiller that ended; without a fulfiller it
\* stays with run().
IsGone(f) == f.at = "ended"

\* It waits while the channel is full.
Send ==
  /\ pc = "send"
  /\ \/ /\ ~IsGone(fulfiller[run])
        /\ Len(fulfiller[run].inbox) < ORDER_CHANNEL
        /\ Goes("decide", [r EXCEPT !.closed = {}])
        /\ fulfiller' = [fulfiller EXCEPT ![run].inbox = Append(@, r.closed)]
        /\ UNCHANGED <<disk, listener, pendingActions, orphans>>
     \/ IsGone(fulfiller[run]) /\ CallFails

\* Whether the proof interval is over is a choice.
IsTimeToProve(due) == due /\ MIN_ORDERS >= r.total_closed_orders

\* generate_proof runs the program on everything pending since run() began.
Prove ==
  /\ pc = "decide"
  /\ \E due \in BOOLEAN :
       \/ ~IsTimeToProve(due) /\ Goes("poll", r) /\ UNCHANGED <<disk, tasks>>
       \/ /\ IsTimeToProve(due) /\ Executes(r.proven_state, r.pending.blocks)
          /\ Goes("submit", [r EXCEPT !.total_closed_orders = 0])
          /\ UNCHANGED <<disk, tasks>>
       \/ IsTimeToProve(due) /\ Panic
       \/ IsTimeToProve(due) /\ CallFails

\* What the next run reads once a file was written.
Latest(file) == IF SAME_DIRECTORY THEN file ELSE backup

NotSent_BackedUp == Fail /\ backup' = Latest(r.state)

NotSent == CallFails

\* close_orders sends the transaction and does not wait for its receipt.
Submit ==
  /\ pc = "submit"
  /\ \/ /\ Goes("backup", [r EXCEPT !.proven_state = r.state])
        /\ proofs' = proofs \cup {[old |-> r.proven_state, input |-> r.pending, new |-> r.state]}
        /\ UNCHANGED <<backup, tasks>>
     \/ NotSent

\* A file that was not written to its end is the latest one all the same, and
\* does not deserialize.
Backup ==
  /\ pc = "backup"
  /\ \/ /\ Goes("poll", r)
        /\ backup' = Latest(r.proven_state)
        /\ UNCHANGED <<proofs, tasks>>
     \/ /\ Fail
        /\ backup' \in {backup, Latest(DefaultState)}

Main ==
  New \/ Poll \/ Fetch \/ Drain \/ Stf \/ Send \/ Prove \/ Submit \/ Backup

-----------------------------------------------------------------------------
(* The fulfillers. *)

\* The fulfiller of a run moves on.
Moves(i, f) ==
  /\ fulfiller' = [fulfiller EXCEPT ![i] = f]
  /\ UNCHANGED <<world, disk, pc, run, r, listener, pendingActions, orphans>>

\* An error drops the receiver, what is in the channel and what it held: what it
\* owed then is nobody's business any more.
Ends(i) ==
  Moves(i, [NoFulfiller EXCEPT !.at = "ended", !.open = fulfiller[i].open,
                               !.owed = fulfiller[i].owed])

\* It keeps the orders of a batch that were paid exactly.
Recv(i) ==
  LET f    == fulfiller[i]
      kept == SetToSeq(Head(f.inbox) \cap Exact)
  IN
  /\ f.at = "recv"
  /\ \/ /\ f.inbox # <<>>
        /\ Moves(i, [f EXCEPT !.at = "quote", !.inbox = Tail(@),
                              !.buffer = @ \o kept, !.owed = @ \cup ToSet(kept)])
     \/ f.inbox = <<>> /\ ~f.open /\ Ends(i)

\* The orders that it could not afford are the next buffer.
Again(f) == [f EXCEPT !.at = "recv", !.buffer = f.ngmi, !.ngmi = <<>>]

WithoutLast_Peeked(f) == [f EXCEPT !.ngmi = Append(@, Last(f.buffer))]

WithoutLast(f) == [f EXCEPT !.buffer = Front(@), !.ngmi = Append(@, Last(f.buffer))]

\* It leaves out the last order as long as the total is above its balance.
Quote(i) ==
  LET f == fulfiller[i] IN
  /\ f.at = "quote"
  /\ \/ f.buffer # <<>> /\ Moves(i, [f EXCEPT !.at = "fulfill"])
     \/ f.buffer # <<>> /\ Moves(i, WithoutLast(f))
     \/ f.buffer = <<>> /\ Moves(i, Again(f))
     \/ Ends(i)

\* The transaction is sent.  Nobody waits for its receipt, so nobody learns of one
\* that reverts: its orders are done with.
Fulfill(i) ==
  LET f == fulfiller[i] IN
  /\ f.at = "fulfill"
  /\ \/ Moves(i, Again([f EXCEPT !.owed = @ \ ToSet(f.buffer)]))
     \/ Ends(i)

Fulfiller(i) == Recv(i) \/ Quote(i) \/ Fulfill(i)

-----------------------------------------------------------------------------
\* Only the listener looks at the contract, and only Poll and Fetch at Tron.  What
\* moves between these two moves before Poll as well: the head it sees may lag.
World ==
  \/ listener.at # "ended" /\ Announce
  \/ pc = "poll" /\ (ProduceBlock \/ Reorganize)

\* Nothing moves once the process has halted.
Next ==
  \/ World \/ Listener \/ Main
  \/ \E i \in orphans : OrphanEnds(i)
  \/ \E i \in 1..MaxRuns : Fulfiller(i)

\* tokio runs every task that can go on, and every remote call is answered, be
\* it by an error.
Fairness ==
  /\ WF_vars(Main)
  /\ \A i \in 1..MaxRuns : WF_vars(Fulfiller(i))

Spec == Init /\ [][Next]_vars /\ Fairness

-----------------------------------------------------------------------------
(* Properties. *)

Actions == 1..MaxActions

Inputs == [actions : Seq(Actions), blocks : Seq(Seq(0..MaxForks))]
States == [srs : BOOLEAN, actions : Seq(Actions), blocks : Seq(0..MaxForks)]

Places == {"new", "poll", "fetch", "drain", "stf", "send", "decide", "submit",
           "backup", "halted"}

Locals ==
  [state : States, proven_state : States, latest_known_block_number : Nat,
   pending : Inputs, total_closed_orders : Nat, new : Inputs,
   closed : SUBSET Actions, told : SUBSET Actions]

Listeners == [at : {"connecting", "on", "ended"}, from : Nat, heard : Nat]

Fulfillers ==
  [at : {"none", "recv", "quote", "fulfill", "ended"}, open : BOOLEAN,
   inbox : Seq(SUBSET Actions), buffer : Seq(Actions), ngmi : Seq(Actions),
   owed : SUBSET Actions]

\* Every variable has its type, and no channel holds more than its capacity.
TypeOK ==
  /\ announced \in 0..MaxActions /\ tron \in Seq(0..MaxForks)
  /\ backup \in States
  /\ \A p \in proofs : p.old \in States /\ p.input \in Inputs /\ p.new \in States
  /\ pc \in Places /\ run \in 0..MaxRuns /\ r \in Locals
  /\ listener \in Listeners
  /\ pendingActions \in Seq(Actions) /\ Len(pendingActions) <= ACTION_CHANNEL
  /\ fulfiller \in [1..MaxRuns -> Fulfillers]
  /\ \A i \in 1..MaxRuns : Len(fulfiller[i].inbox) <= ORDER_CHANNEL
  /\ orphans \in SUBSET (1..MaxRuns)

\* However the events, the channel and the rounds interleave, a run takes over
\* all actions from its subscription on, in their order: none is lost to a full
\* channel and none is seen twice, so the chain of actions it proves has a gap
\* only where the subscription began.  That gap is real: what was announced before
\* it, and is not in the backup, this run and its proofs never see.
NoGapInARun ==
  pc \notin {"new", "halted"} =>
    r.pending.actions \o pendingActions
      = [k \in 1..listener.heard - listener.from |-> listener.from + k]

\* A proof is about exactly the actions and the blocks that took the relayer from
\* the state it starts from to the one it then takes for proven, none of them
\* twice, though pending_actions and pending_blocks are never emptied.
ProofOfWhatWasRun ==
  \A p \in proofs :
    /\ p.new.actions = p.old.actions \o p.input.actions
    /\ p.new.blocks = Last(p.input.blocks)
    /\ Front(Head(p.input.blocks)) = p.old.blocks
    /\ Len(p.input.blocks) = Len(p.new.blocks) - Len(p.old.blocks)

\* A relayer that restarts goes on from where a proof that was sent had come to,
\* from the state it was set up with, or, when the file was not written to its end,
\* from State::default(); so does every proof.
ResumesFromAProof ==
  LET reached == {GenesisState, DefaultState} \cup {p.new : p \in proofs} IN
  backup \in reached /\ \A p \in proofs : p.old \in reached

\* As long as a fulfiller runs, also beyond the end of its run, the orders it took
\* and has sent no transaction for are with it, each once, however often they were
\* left out for want of funds.  An error ends it, and what it held is lost; so is
\* an order whose transaction is sent and reverts.
OrdersHeld ==
  \A i \in 1..MaxRuns :
    LET held == fulfiller[i].buffer \o fulfiller[i].ngmi
    IN fulfiller[i].at # "ended" =>
         ToSet(held) = fulfiller[i].owed /\ IsInjective(held)

\* Once its listener is gone a round comes to its end, in an error at worst: the
\* channel of actions is drained, and the fulfiller's channel has room again or
\* has lost its receiver.
RoundEnds ==
  \/ pc = "drain" /\ listener.at = "ended"
  \/ pc \in {"stf", "send"}
  ~> pc \in {"decide", "new", "halted"}

\* A fulfiller whose run is over works off its channel and ends, so restarts do not
\* pile up fulfillers.  Nothing of the kind holds of the listeners: one of a run that
\* is over may stay for good (orphans).
FulfillersEnd ==
  LET left == {i \in 1..run : /\ i < run \/ pc = "new"
                              /\ fulfiller[i].at \notin {"none", "ended"}}
  IN left # {} ~> left = {}
=============================================================================
