------------------------- MODULE UntronRelayerProofs -------------------------
(***************************************************************************)
(* Theorems about the relayer process: the safety properties of            *)
(* UntronRelayer hold for every capacity of the channels, every number of  *)
(* runs and actions, and every Tron.                                       *)
(*                                                                         *)
(* Each property needs an invariant of its own, all of them over Typed:    *)
(* what the listener has heard (ListenerInv), what a round holds           *)
(* (RoundInv), how far state is from proven_state (ProgressInv), what was  *)
(* reached by a proof (ReachedInv), and which orders are in which hands    *)
(* (BatchInv).                                                             *)
(***************************************************************************)
EXTENDS UntronRelayer, FiniteSetTheorems, SequenceTheorems, TLAPS

Chains == Seq(0..MaxForks)

\* Whether run() is under way.
Running == pc \notin {"new", "halted"}

Proofs == [old : States, input : Inputs, new : States]

\* The types, and that a run under way has a number.
Typed ==
  /\ announced \in 0..MaxActions /\ tron \in Chains
  /\ backup \in States /\ proofs \in SUBSET Proofs
  /\ pc \in Places /\ run \in 0..MaxRuns /\ (Running => run # 0)
  /\ r \in Locals /\ listener \in Listeners
  /\ pendingActions \in Seq(Actions) /\ Len(pendingActions) <= ACTION_CHANNEL
  /\ fulfiller \in [1..MaxRuns -> Fulfillers]
  /\ \A i \in 1..MaxRuns : Len(fulfiller[i].inbox) <= ORDER_CHANNEL
  /\ orphans \in SUBSET (1..MaxRuns)

\* The listener's place in the events; outside of run() the channel is empty.
ListenerInv ==
  /\ listener.from <= listener.heard /\ listener.heard <= announced
  /\ listener.at = "connecting" => listener.from = listener.heard
  /\ ~Running => listener = NoListener /\ pendingActions = <<>>

GapInv == ListenerInv /\ NoGapInARun

\* What a round fetches is there from Fetch to Stf: one block.
RoundInv ==
  IF pc \in {"drain", "stf"}
    THEN Len(r.new.blocks) = 1 /\ r.new.blocks[1] # <<>>
    ELSE r.new = NoInput

\* Until its first proof, a run is ahead of proven_state by what is pending.
Unproven(v) ==
  /\ v.state.actions \o v.new.actions = v.proven_state.actions \o v.pending.actions
  /\ Len(v.state.blocks) = Len(v.proven_state.blocks) + Len(v.pending.blocks)
  /\ IF v.pending.blocks = <<>>
       THEN v.state.blocks = v.proven_state.blocks
       ELSE /\ Front(Head(v.pending.blocks)) = v.proven_state.blocks
            /\ Last(v.pending.blocks) = v.state.blocks

\* After it, the pending blocks begin before proven_state: no second proof.
Proven(v) ==
  /\ v.pending.blocks # <<>>
  /\ Len(Front(Head(v.pending.blocks))) < Len(v.proven_state.blocks)

ProgressInv ==
  /\ Unproven(r) \/ Proven(r)
  /\ pc = "submit" => Unproven(r) /\ r.pending.blocks # <<>>

\* ResumesFromAProof, and the same of the state that counts as proven.
Reached == {GenesisState, DefaultState} \cup {p.new : p \in proofs}

ReachedInv ==
  /\ backup \in Reached /\ r.proven_state \in Reached
  /\ \A p \in proofs : p.old \in Reached

\* What a fulfiller holds is what it owes, each order once; until it ends.
Holds(f) ==
  LET held == f.buffer \o f.ngmi IN ToSet(held) = f.owed /\ IsInjective(held)

Held(f) == f.at # "ended" => Holds(f)

\* No order is in two batches, or in a batch and owed.
Disjoint(f) ==
  /\ \A j \in DOMAIN f.inbox : f.inbox[j] \cap f.owed = {}
  /\ \A j, k \in DOMAIN f.inbox : j # k => f.inbox[j] \cap f.inbox[k] = {}

\* Of the orders told, closed are those that the fulfiller has not been sent.
Told(f, v) ==
  /\ f.owed \subseteq v.told /\ v.closed \subseteq v.told /\ v.closed \cap f.owed = {}
  /\ \A j \in DOMAIN f.inbox : f.inbox[j] \subseteq v.told /\ f.inbox[j] \cap v.closed = {}

BatchInv ==
  /\ \A i \in 1..MaxRuns :
       /\ Held(fulfiller[i]) /\ Disjoint(fulfiller[i])
       /\ i > run => fulfiller[i] = NoFulfiller
  /\ Running => Told(fulfiller[run], r)

-----------------------------------------------------------------------------
(* The operators the relayer is built from. *)

\* The parameters of the relayer are numbers and flags.
LEMMA ParameterTypes ==
  /\ ORDER_TTL \in Nat /\ FINALITY \in Nat /\ MIN_ORDERS \in Nat
  /\ ACTION_CHANNEL \in Nat \ {0} /\ ORDER_CHANNEL \in Nat \ {0}
  /\ FULFILL \in BOOLEAN /\ SAME_DIRECTORY \in BOOLEAN
  /\ MaxBlocks \in Nat /\ MaxForks \in Nat /\ MaxActions \in Nat /\ MaxRuns \in Nat
BY RelayerAssumption

\* A sequence that is not empty is its front and its last element.
LEMMA FrontAndLast ==
  ASSUME NEW S, NEW s \in Seq(S), s # <<>>
  PROVE  /\ Front(s) \in Seq(S) /\ Last(s) \in S
         /\ Len(s) \in Nat \ {0} /\ Len(Front(s)) = Len(s) - 1
         /\ \A i \in 1..Len(s) - 1 : Front(s)[i] = s[i]
<1>1. Len(s) \in Nat \ {0}
  BY EmptySeq, LenProperties
<1>2. \A i \in 1..Len(s) - 1 : s[i] \in S
  BY <1>1, ElementOfSeq
<1>3. Last(s) \in S
  BY <1>1, ElementOfSeq DEF Last
<1> DEFINE n == Len(s) - 1
<1>4. 1 \in Int /\ n \in Nat
  BY <1>1
<1>5. \A i \in 1..n : s[i] \in S
  BY <1>2
<1> HIDE DEF n
<1>6. /\ SubSeq(s, 1, n) \in Seq(S)
      /\ Len(SubSeq(s, 1, n)) = IF 1 <= n THEN n - 1 + 1 ELSE 0
      /\ \A i \in 1..n - 1 + 1 : SubSeq(s, 1, n)[i] = s[1 + i - 1]
  BY <1>4, <1>5, SubSeqProperties
<1>7. /\ SubSeq(s, 1, n) \in Seq(S)
      /\ Len(SubSeq(s, 1, n)) = n
      /\ \A i \in 1..n : SubSeq(s, 1, n)[i] = s[i]
  BY <1>4, <1>6
<1> QED
  BY <1>1, <1>3, <1>7 DEF Front, n

\* The front of the empty sequence is empty.
LEMMA FrontOfEmpty == Front(<<>>) = <<>>
BY SubSeqEmpty, Len(<<>>) = 0 DEF Front

\* The elements of a sequence are in the set it is over.
LEMMA ToSetType ==
  ASSUME NEW S, NEW s \in Seq(S)
  PROVE  ToSet(s) \subseteq S
BY LenProperties, ElementOfSeq DEF ToSet

\* A set of orders is listed once each.
LEMMA SetToSeqProperties ==
  ASSUME NEW S, IsFiniteSet(S)
  PROVE  /\ SetToSeq(S) \in Seq(S)
         /\ ToSet(SetToSeq(S)) = S
         /\ IsInjective(SetToSeq(S))
<1> DEFINE n == Cardinality(S)
           f == SetToSeq(S)
<1>1. n \in Nat /\ ExistsBijection(1..n, S)
  BY FS_CardinalityType
<1>2. \E g \in [1..n -> S] : IsInjective(g)
  BY <1>1 DEF ExistsBijection, Bijection, Injection
<1>3. f \in [1..n -> S] /\ IsInjective(f)
  BY <1>2 DEF SetToSeq
<1>4. f \in Injection(1..n, S)
  BY <1>3 DEF Injection
<1>5. IsFiniteSet(1..n) /\ Cardinality(1..n) = n
  BY <1>1, FS_Interval
<1>6. f \in Surjection(1..n, S)
  BY <1>4, <1>5, FS_Injection
<1>7. \A t \in S : \E i \in 1..n : f[i] = t
  BY <1>6 DEF Surjection
<1>8. ToSet(f) = S
  BY <1>3, <1>7 DEF ToSet
<1>9. f \in Seq(S)
  BY <1>1, <1>3, SeqDef
<1> QED
  BY <1>3, <1>8, <1>9

\* The states that a relayer may begin with are states.
LEMMA StateTypes == GenesisState \in States /\ DefaultState \in States
<1>1. <<>> \in Seq(Actions) /\ <<>> \in Chains
  BY EmptySeq DEF Chains
<1>2. GenesisState \in States
  BY <1>1 DEF GenesisState, States, Actions, Chains
<1>3. \A s \in States : [s EXCEPT !.srs = FALSE] \in States
  BY DEF States
<1> QED
  BY <1>2, <1>3 DEF DefaultState

\* No input is an input.
LEMMA InputType == NoInput \in Inputs
BY DEF NoInput, Inputs

\* run() begins with every variable typed.
LEMMA BegunType == \A s \in States : Begun(s) \in Locals
<1> SUFFICES ASSUME NEW s \in States PROVE Begun(s) \in Locals
  OBVIOUS
<1>1. Len(s.blocks) \in Nat
  BY LenProperties DEF States
<1> QED
  BY <1>1, InputType DEF Begun, Locals

\* A task that is not there has the type of one.
LEMMA TaskTypes == NoListener \in Listeners /\ NoFulfiller \in Fulfillers
BY DEF NoListener, Listeners, NoFulfiller, Fulfillers

\* A task that is not there has nothing in its inbox.
LEMMA EmptyInbox == Len(NoFulfiller.inbox) = 0
BY DEF NoFulfiller

-----------------------------------------------------------------------------
(* Every variable keeps its type. *)

\* A fulfiller that is put in its place with a channel that is not too full.
LEMMA FulfillerPut ==
  ASSUME Typed, NEW i \in 1..MaxRuns, NEW f \in Fulfillers,
         Len(f.inbox) <= ORDER_CHANNEL
  PROVE  LET fs == [fulfiller EXCEPT ![i] = f] IN
         /\ fs \in [1..MaxRuns -> Fulfillers]
         /\ \A j \in 1..MaxRuns : Len(fs[j].inbox) <= ORDER_CHANNEL
BY DEF Typed

\* The run that is under way, and its fulfiller.
LEMMA RunningTypes ==
  ASSUME Typed, Running
  PROVE  /\ run \in 1..MaxRuns /\ fulfiller[run] \in Fulfillers
         /\ r \in Locals /\ r.closed \in SUBSET Actions
<1>1. run \in 0..MaxRuns /\ run # 0 /\ r \in Locals
  BY DEF Typed
<1>2. run \in 1..MaxRuns
  BY <1>1, ParameterTypes
<1>3. fulfiller[run] \in Fulfillers
  BY <1>2 DEF Typed
<1> QED
  BY <1>1, <1>2, <1>3 DEF Locals

\* No task is left: so it is at the start and after a panic.
LEMMA NoTaskType ==
  /\ [i \in 1..MaxRuns |-> NoFulfiller] \in [1..MaxRuns -> Fulfillers]
  /\ \A j \in 1..MaxRuns : Len([i \in 1..MaxRuns |-> NoFulfiller][j].inbox) <= ORDER_CHANNEL
  /\ <<>> \in Seq(Actions) /\ Len(<<>>) <= ACTION_CHANNEL
BY TaskTypes, EmptyInbox, EmptySeq, ParameterTypes

\* A panic of the main loop keeps the types.
LEMMA PanicType == Typed /\ Panic => Typed'
<1> SUFFICES ASSUME Typed, Panic PROVE Typed'
  OBVIOUS
<1>1. /\ pc' = "halted" /\ r' \in Locals /\ listener' \in Listeners
      /\ orphans' = {} /\ UNCHANGED <<world, disk, run>>
  BY StateTypes, BegunType, TaskTypes DEF Panic, Goes
<1>2. /\ pendingActions' \in Seq(Actions) /\ Len(pendingActions') <= ACTION_CHANNEL
      /\ fulfiller' \in [1..MaxRuns -> Fulfillers]
      /\ \A i \in 1..MaxRuns : Len(fulfiller'[i].inbox) <= ORDER_CHANNEL
  BY NoTaskType DEF Panic
<1> QED
  BY <1>1, <1>2 DEF Typed, Places, Running, world, disk

\* A failure that writes or restores a backup keeps the types.
LEMMA FailType == Typed /\ Running /\ Fail /\ backup' \in States => Typed'
<1> SUFFICES ASSUME Typed, Running, Fail, backup' \in States PROVE Typed'
  OBVIOUS
<1>1. /\ pc' = "new" /\ r' \in Locals /\ listener' \in Listeners
      /\ UNCHANGED <<world, proofs, run>>
  BY StateTypes, BegunType, TaskTypes DEF Fail, Goes
<1>2. pendingActions' \in Seq(Actions) /\ Len(pendingActions') <= ACTION_CHANNEL
  BY NoTaskType DEF Fail
<1>3. /\ fulfiller' \in [1..MaxRuns -> Fulfillers]
      /\ \A i \in 1..MaxRuns : Len(fulfiller'[i].inbox) <= ORDER_CHANNEL
  <2>1. \A f \in Fulfillers : Dropped(f) \in Fulfillers /\ Dropped(f).inbox = f.inbox
    BY DEF Fulfillers, Dropped
  <2>2. fulfiller' = [fulfiller EXCEPT ![run] = Dropped(fulfiller[run])]
    BY DEF Fail
  <2>3. /\ run \in 1..MaxRuns /\ fulfiller[run] \in Fulfillers
        /\ Len(fulfiller[run].inbox) <= ORDER_CHANNEL
    BY RunningTypes DEF Typed
  <2> QED
    BY <2>1, <2>2, <2>3, FulfillerPut
<1>4. orphans' \in SUBSET (1..MaxRuns)
  BY RunningTypes DEF Typed, Fail
<1> QED
  BY <1>1, <1>2, <1>3, <1>4 DEF Typed, Places, Running, world

\* A call that fails keeps the types.
LEMMA CallFailsType == Typed /\ Running /\ CallFails => Typed'
BY FailType DEF CallFails, Typed

\* Only pc and the variables of run() change.
LEMMA GoesType ==
  ASSUME Typed, NEW to \in Places, to \notin {"new", "halted"}, NEW locals \in Locals,
         Goes(to, locals), run # 0, UNCHANGED <<disk, tasks>>
  PROVE  Typed'
BY DEF Typed, Goes, Running, world, disk, tasks

\* Everything starts with its type.
LEMMA TypedInit == Init => Typed
<1> SUFFICES ASSUME Init PROVE Typed
  OBVIOUS
<1>1. announced = 0 /\ tron = <<>> /\ backup = GenesisState /\ proofs = {} /\ pc = "new" /\ run = 0
  BY DEF Init
<1>2. tron \in Chains
  BY <1>1, EmptySeq DEF Chains
<1>3. r \in Locals /\ listener \in Listeners
  BY StateTypes, BegunType, TaskTypes DEF Init
<1>4. /\ pendingActions \in Seq(Actions) /\ Len(pendingActions) <= ACTION_CHANNEL
      /\ fulfiller \in [1..MaxRuns -> Fulfillers]
      /\ \A i \in 1..MaxRuns : Len(fulfiller[i].inbox) <= ORDER_CHANNEL
  BY NoTaskType DEF Init
<1>5. orphans \in SUBSET (1..MaxRuns)
  BY DEF Init
<1> QED
  BY <1>1, <1>2, <1>3, <1>4, <1>5, StateTypes, ParameterTypes DEF Typed, Places, Running

\* Tron and the contract keep the types.
LEMMA WorldType == Typed /\ World => Typed'
<1> SUFFICES ASSUME Typed, World PROVE Typed'
  OBVIOUS
<1>1. CASE Announce
  <2>1. announced' \in 0..MaxActions
    BY <1>1, ParameterTypes DEF Announce, Typed
  <2> QED
    BY <1>1, <2>1 DEF Announce, Typed, Running, disk, tasks
<1>2. CASE ProduceBlock
  <2>1. tron' \in Chains
    BY <1>2, ParameterTypes, AppendProperties DEF ProduceBlock, Typed, Chains
  <2> QED
    BY <1>2, <2>1 DEF ProduceBlock, Typed, Running, disk, tasks
<1>3. CASE Reorganize
  <2>1. tron # <<>> /\ (\A h \in DOMAIN tron : tron[h] < MaxForks) /\ tron \in Seq(0..MaxForks)
    BY <1>3 DEF Reorganize, Typed, Chains
  <2>2. /\ Front(tron) \in Seq(0..MaxForks) /\ Len(tron) \in Nat \ {0}
        /\ Last(tron) \in 0..MaxForks
    BY <2>1, FrontAndLast
  <2>3. Last(tron) < MaxForks
    BY <2>1, <2>2, LenProperties DEF Last
  <2>4. Last(tron) + 1 \in 0..MaxForks
    BY <2>2, <2>3, ParameterTypes
  <2>5. tron' \in Chains
    BY <1>3, <2>2, <2>4, AppendProperties DEF Reorganize, Chains
  <2> QED
    BY <1>3, <2>5 DEF Reorganize, Typed, Running, disk, tasks
<1> QED
  BY <1>1, <1>2, <1>3 DEF World

\* The listener keeps the types.
LEMMA ListenerType == Typed /\ Listener => Typed'
<1> SUFFICES ASSUME Typed, Listener PROVE Typed'
  OBVIOUS
<1> USE DEF Listens
<1>1. CASE Subscribe
  <2>1. listener' \in Listeners
    BY <1>1 DEF Subscribe, Listeners, Typed
  <2> QED
    BY <1>1, <2>1 DEF Subscribe, Typed, Running, world, disk
<1>2. CASE Hear
  <2>1. listener' \in Listeners /\ listener.heard + 1 \in Actions
    <3>1. /\ listener \in Listeners /\ announced \in 0..MaxActions
          /\ listener.heard < announced /\ listener' = [listener EXCEPT !.heard = @ + 1]
      BY <1>2 DEF Hear, Typed
    <3>2. listener.heard \in Nat /\ listener.heard + 1 \in Nat
      BY <3>1 DEF Listeners
    <3>3. listener' \in Listeners
      BY <3>1, <3>2 DEF Listeners
    <3> QED
      BY <3>1, <3>2, <3>3, ParameterTypes DEF Actions
  <2>2. Len(pendingActions) < ACTION_CHANNEL /\ Len(pendingActions) \in Nat
    BY <1>2, LenProperties DEF Hear, Passed, Typed
  <2>3. pendingActions' \in Seq(Actions) /\ Len(pendingActions') = Len(pendingActions) + 1
    BY <1>2, <2>1, AppendProperties DEF Hear, Passed, Typed
  <2>4. Len(pendingActions') <= ACTION_CHANNEL
    BY <2>2, <2>3, ParameterTypes
  <2> QED
    BY <1>2, <2>1, <2>3, <2>4 DEF Hear, Typed, Running, world, disk
<1>3. CASE Hangup
  <2>1. listener' \in Listeners
    BY <1>3 DEF Hangup, Listeners, Typed
  <2> QED
    BY <1>3, <2>1 DEF Hangup, Typed, Running, world, disk
<1> QED
  BY <1>1, <1>2, <1>3 DEF Listener

\* Relayer::new keeps the types.
LEMMA NewType == Typed /\ New => Typed'
<1> SUFFICES ASSUME Typed, New PROVE Typed'
  OBVIOUS
<1>1. CASE Panic
  BY <1>1, PanicType
<1>2. CASE ~Panic
  <2>1. /\ run < MaxRuns /\ pc' = "poll" /\ run' = run + 1 /\ r' = Begun(backup)
        /\ listener' = [NoListener EXCEPT !.at = "connecting"]
        /\ fulfiller' = [fulfiller EXCEPT ![run'] = Spawned]
        /\ UNCHANGED <<world, disk, pendingActions, orphans>>
    BY <1>2 DEF New
  <2>2. run' \in 1..MaxRuns
    <3>1. run \in 0..MaxRuns
      BY DEF Typed
    <3> QED
      BY <2>1, <3>1, ParameterTypes
  <2>3. Spawned \in Fulfillers /\ Len(Spawned.inbox) <= ORDER_CHANNEL
    <3>1. Spawned \in Fulfillers /\ Spawned.inbox = NoFulfiller.inbox
      BY TaskTypes DEF Spawned, Fulfillers
    <3> QED
      BY <3>1, EmptyInbox, ParameterTypes
  <2>4. /\ fulfiller' \in [1..MaxRuns -> Fulfillers]
        /\ \A j \in 1..MaxRuns : Len(fulfiller'[j].inbox) <= ORDER_CHANNEL
    BY <2>1, <2>2, <2>3, FulfillerPut
  <2>5. listener' \in Listeners
    BY <2>1, TaskTypes DEF Listeners
  <2>6. r' \in Locals
    BY <2>1, BegunType DEF Typed
  <2> QED
    BY <2>1, <2>2, <2>4, <2>5, <2>6 DEF Typed, Places, Running, world, disk
<1> QED
  BY <1>1, <1>2

\* Waiting for a new block keeps the types.
LEMMA PollType == Typed /\ Poll => Typed'
<1> SUFFICES ASSUME Typed, Poll PROVE Typed'
  OBVIOUS
<1>1. CASE CallFails
  BY <1>1, CallFailsType DEF Poll, Running
<1>2. CASE ~CallFails
  <2>1. Goes("fetch", r) /\ UNCHANGED <<disk, tasks>> /\ run # 0
    BY <1>2 DEF Poll, Typed, Running
  <2> QED
    BY <2>1, GoesType DEF Places, Typed
<1> QED
  BY <1>1, <1>2

\* A block that is fetched is a chain with at least one block.
LEMMA FetchedBlock ==
  ASSUME Typed, NEW n \in Nat \ {0}
  PROVE  LET answer == get_block_by_number(n) IN
         /\ answer \in Seq(Chains)
         /\ answer # <<>> => Len(answer) = 1 /\ answer[1] # <<>>
<1>1. tron \in Seq(0..MaxForks) /\ Len(tron) \in Nat
  BY LenProperties DEF Typed, Chains
<1>2. CASE n <= Len(tron)
  <2>1. ASSUME NEW i \in 1..n PROVE tron[i] \in 0..MaxForks
    <3>1. i \in 1..Len(tron)
      BY <1>1, <1>2
    <3> QED
      BY <1>1, <3>1, ElementOfSeq
  <2>2. /\ SubSeq(tron, 1, n) \in Chains
        /\ Len(SubSeq(tron, 1, n)) = n
    BY <2>1, SubSeqProperties DEF Chains
  <2>3. SubSeq(tron, 1, n) # <<>>
    BY <2>2, EmptySeq
  <2>4. get_block_by_number(n) = <<SubSeq(tron, 1, n)>>
    BY <1>2 DEF get_block_by_number
  <2> QED
    BY <2>2, <2>3, <2>4
<1>3. CASE ~(n <= Len(tron))
  BY <1>3, EmptySeq DEF get_block_by_number
<1> QED
  BY <1>2, <1>3

\* Fetching the blocks keeps the types.
LEMMA FetchType == Typed /\ Fetch => Typed'
<1> SUFFICES ASSUME Typed, Fetch PROVE Typed'
  OBVIOUS
<1> DEFINE number == r.latest_known_block_number + 1
           answer == get_block_by_number(number)
<1>1. CASE CallFails
  BY <1>1, CallFailsType DEF Fetch, Running
<1>2. CASE Panic
  BY <1>2, PanicType
<1>3. CASE ~CallFails /\ ~Panic
  <2>1. /\ Goes("drain", [r EXCEPT !.latest_known_block_number = number, !.new.blocks = answer])
        /\ UNCHANGED <<disk, tasks>> /\ run # 0
    BY <1>3 DEF Fetch, Typed, Running
  <2>2. number \in Nat \ {0}
    BY DEF Typed, Locals
  <2>3. answer \in Seq(Chains)
    BY <2>2, FetchedBlock
  <2> HIDE DEF number, answer
  <2>4. [r EXCEPT !.latest_known_block_number = number, !.new.blocks = answer] \in Locals
    BY <2>2, <2>3 DEF Typed, Locals, Inputs, Chains
  <2> QED
    BY <2>1, <2>4, GoesType DEF Places
<1> QED
  BY <1>1, <1>2, <1>3

\* Draining the action channel keeps the types.
LEMMA DrainType == Typed /\ Drain => Typed'
<1> SUFFICES ASSUME Typed, Drain PROVE Typed'
  OBVIOUS
<1>1. CASE pendingActions # <<>>
  <2>1. /\ Goes("drain", Noted(r, Head(pendingActions))) /\ run # 0
        /\ pendingActions' = Tail(pendingActions) /\ UNCHANGED <<disk, listener, fulfiller, orphans>>
    BY <1>1 DEF Drain, Typed, Running
  <2>2. /\ Head(pendingActions) \in Actions /\ Tail(pendingActions) \in Seq(Actions)
        /\ Len(Tail(pendingActions)) = Len(pendingActions) - 1
    BY <1>1, HeadTailProperties DEF Typed
  <2>3. Len(Tail(pendingActions)) <= ACTION_CHANNEL
    BY <2>2, LenProperties, ParameterTypes DEF Typed
  <2>4. \A a \in Actions : Noted(r, a) \in Locals
    <3>1. ASSUME NEW a \in Actions PROVE Noted(r, a) \in Locals
      <4>1. r.new.actions \in Seq(Actions) /\ r.pending.actions \in Seq(Actions)
        BY DEF Typed, Locals, Inputs, Actions
      <4>2. Append(r.new.actions, a) \in Seq(Actions) /\ Append(r.pending.actions, a) \in Seq(Actions)
        BY <4>1, AppendProperties
      <4> QED
        BY <4>2 DEF Typed, Locals, Inputs, Noted, Actions
    <3> QED
      BY <3>1
  <2> QED
    BY <2>1, <2>2, <2>3, <2>4 DEF Typed, Goes, Places, Running, world, disk
<1>2. CASE pendingActions = <<>>
  BY <1>2, GoesType DEF Drain, Typed, Running, Places
<1> QED
  BY <1>1, <1>2

\* What the assertions of stf let through: at least one block, and FINALITY fewer.
LEMMA ExecutesSome ==
  ASSUME NEW s \in States, NEW blocks \in Seq(Chains), Executes(s, blocks)
  PROVE  /\ Len(blocks) \in Nat \ {0} /\ Len(blocks) - FINALITY \in 1..Len(blocks)
         /\ Len(blocks) = 1 => ORDER_TTL = 0 /\ FINALITY = 0
         /\ Front(blocks[1]) = s.blocks
<1>1. Len(blocks) \in Nat /\ Len(blocks) > ORDER_TTL + FINALITY /\ DOMAIN blocks = 1..Len(blocks)
  BY LenProperties DEF Executes
<1>2. 1 \in DOMAIN blocks
  BY <1>1, ParameterTypes
<1> QED
  BY <1>1, <1>2, ParameterTypes DEF Executes

\* What stf makes of a state is a state.
LEMMA AfterType ==
  ASSUME NEW s \in States, NEW input \in Inputs, Executes(s, input.blocks)
  PROVE  After(s, input) \in States
<1>1. input.blocks \in Seq(Chains) /\ input.actions \in Seq(Actions) /\ s.actions \in Seq(Actions)
  BY DEF Inputs, States, Actions, Chains
<1>2. input.blocks[Len(input.blocks) - FINALITY] \in Chains
  BY <1>1, ExecutesSome, ElementOfSeq
<1>3. s.actions \o input.actions \in Seq(Actions)
  BY <1>1, ConcatProperties
<1> QED
  BY <1>2, <1>3 DEF After, States, Actions, Chains

\* What a call may close are orders that the run has not been told of.
LEMMA ClosableType ==
  ASSUME Typed
  PROVE  /\ Closable \in SUBSET Actions /\ Closable \cap r.told = {}
         /\ \A closed \in SUBSET Closable : Cardinality(closed) \in Nat
<1>1. r.state.actions \in Seq(Actions) /\ r.new.actions \in Seq(Actions)
  BY DEF Typed, Locals, States, Inputs, Actions
<1>2. Closable \in SUBSET Actions /\ Closable \cap r.told = {}
  BY <1>1, ToSetType DEF Closable
<1>3. IsFiniteSet(Actions)
  BY FS_Interval, ParameterTypes DEF Actions
<1>4. \A closed \in SUBSET Closable : IsFiniteSet(closed)
  BY <1>2, <1>3, FS_Subset
<1> QED
  BY <1>2, <1>4, FS_CardinalityType

\* The variables of run() after stf.
AfterStf(closed) ==
  [r EXCEPT !.state = After(@, r.new), !.new = NoInput,
            !.pending.blocks = @ \o r.new.blocks,
            !.closed = closed, !.told = @ \cup closed,
            !.total_closed_orders = @ + Cardinality(closed)]

\* Field by field.
LEMMA AfterStfFields ==
  ASSUME Typed, Executes(r.state, r.new.blocks), NEW closed \in SUBSET Closable
  PROVE  /\ AfterStf(closed) \in Locals
         /\ AfterStf(closed).state = After(r.state, r.new)
         /\ AfterStf(closed).proven_state = r.proven_state
         /\ AfterStf(closed).new = NoInput
         /\ AfterStf(closed).pending.actions = r.pending.actions
         /\ AfterStf(closed).pending.blocks = r.pending.blocks \o r.new.blocks
         /\ AfterStf(closed).closed = closed
         /\ AfterStf(closed).told = r.told \cup closed
<1>1. r \in Locals
  BY DEF Typed
<1>2. After(r.state, r.new) \in States
  BY <1>1, AfterType DEF Locals
<1>3. closed \in SUBSET Actions /\ r.told \cup closed \in SUBSET Actions
  BY <1>1, ClosableType DEF Locals
<1>4. r.total_closed_orders + Cardinality(closed) \in Nat
  BY <1>1, ClosableType DEF Locals
<1>5. r.pending.blocks \o r.new.blocks \in Seq(Chains)
  <2>1. r.pending.blocks \in Seq(Chains) /\ r.new.blocks \in Seq(Chains)
    BY <1>1 DEF Locals, Inputs, Chains
  <2> QED
    BY <2>1, ConcatProperties
<1>6. [r.pending EXCEPT !.blocks = @ \o r.new.blocks] \in Inputs
  BY <1>1, <1>5 DEF Locals, Inputs, Chains
<1>7. /\ AfterStf(closed).state = After(r.state, r.new)
      /\ AfterStf(closed).proven_state = r.proven_state
      /\ AfterStf(closed).new = NoInput
      /\ AfterStf(closed).pending = [r.pending EXCEPT !.blocks = @ \o r.new.blocks]
      /\ AfterStf(closed).closed = closed
      /\ AfterStf(closed).told = r.told \cup closed
  BY <1>1 DEF AfterStf, Locals
<1>8. AfterStf(closed) \in Locals
  BY <1>1, <1>2, <1>3, <1>4, <1>6, InputType DEF AfterStf, Locals
<1>9. /\ AfterStf(closed).pending.actions = r.pending.actions
      /\ AfterStf(closed).pending.blocks = r.pending.blocks \o r.new.blocks
  BY <1>1, <1>7 DEF Locals, Inputs
<1> QED
  BY <1>7, <1>8, <1>9

\* Running stf keeps the types.
LEMMA StfType == Typed /\ Stf => Typed'
<1> SUFFICES ASSUME Typed, Stf PROVE Typed'
  OBVIOUS
<1>1. CASE Panic
  BY <1>1, PanicType
<1>2. CASE ~Panic
  <2>1. PICK closed \in SUBSET Closable :
          /\ Executes(r.state, r.new.blocks)
          /\ Goes(IF closed = {} THEN "decide" ELSE "send", AfterStf(closed))
          /\ UNCHANGED <<disk, tasks>> /\ run # 0
    BY <1>2 DEF Stf, AfterStf, Typed, Running
  <2>2. AfterStf(closed) \in Locals
    BY <2>1, AfterStfFields
  <2> QED
    BY <2>1, <2>2, GoesType DEF Places
<1> QED
  BY <1>1, <1>2

\* Handing the closed orders to the fulfiller keeps the types.
LEMMA SendType == Typed /\ Send => Typed'
<1> SUFFICES ASSUME Typed, Send PROVE Typed'
  OBVIOUS
<1>1. CASE CallFails
  BY <1>1, CallFailsType DEF Send, Running
<1>2. CASE ~CallFails
  <2> DEFINE f == [fulfiller[run] EXCEPT !.inbox = Append(@, r.closed)]
  <2>1. /\ Len(fulfiller[run].inbox) < ORDER_CHANNEL
        /\ Goes("decide", [r EXCEPT !.closed = {}])
        /\ fulfiller' = [fulfiller EXCEPT ![run].inbox = Append(@, r.closed)]
        /\ UNCHANGED <<disk, listener, pendingActions, orphans>>
    BY <1>2 DEF Send
  <2>2. run \in 1..MaxRuns /\ fulfiller[run] \in Fulfillers /\ r.closed \in SUBSET Actions
    BY RunningTypes DEF Send, Running
  <2>3. fulfiller' = [fulfiller EXCEPT ![run] = f]
    BY <2>1
  <2>4. f \in Fulfillers /\ Len(f.inbox) <= ORDER_CHANNEL
    <3>1. fulfiller[run].inbox \in Seq(SUBSET Actions)
      BY <2>2 DEF Fulfillers
    <3>2. /\ Append(fulfiller[run].inbox, r.closed) \in Seq(SUBSET Actions)
          /\ Len(Append(fulfiller[run].inbox, r.closed)) = Len(fulfiller[run].inbox) + 1
      BY <2>2, <3>1, AppendProperties
    <3>3. Len(Append(fulfiller[run].inbox, r.closed)) <= ORDER_CHANNEL
      <4>1. Len(fulfiller[run].inbox) \in Nat
        BY <3>1, LenProperties
      <4>2. \A n \in Nat : n < ORDER_CHANNEL => n + 1 <= ORDER_CHANNEL
        BY ParameterTypes
      <4> QED
        BY <2>1, <3>2, <4>1, <4>2
    <3>4. f.inbox = Append(fulfiller[run].inbox, r.closed)
      BY <2>2 DEF Fulfillers
    <3> QED
      BY <2>2, <3>2, <3>3, <3>4 DEF Fulfillers
  <2> HIDE DEF f
  <2>5. /\ fulfiller' \in [1..MaxRuns -> Fulfillers]
        /\ \A j \in 1..MaxRuns : Len(fulfiller'[j].inbox) <= ORDER_CHANNEL
    BY <2>2, <2>3, <2>4, FulfillerPut
  <2>6. [r EXCEPT !.closed = {}] \in Locals
    BY DEF Typed, Locals
  <2> QED
    BY <2>1, <2>2, <2>5, <2>6 DEF Goes, Typed, Places, Running, world, disk
<1> QED
  BY <1>1, <1>2

\* Proving keeps the types.
LEMMA ProveType == Typed /\ Prove => Typed'
<1> SUFFICES ASSUME Typed, Prove PROVE Typed'
  OBVIOUS
<1>1. CASE CallFails
  BY <1>1, CallFailsType DEF Prove, Running
<1>2. CASE Panic
  BY <1>2, PanicType
<1>3. CASE ~CallFails /\ ~Panic
  <2>1. \/ Goes("poll", r) /\ UNCHANGED <<disk, tasks>>
        \/ Goes("submit", [r EXCEPT !.total_closed_orders = 0]) /\ UNCHANGED <<disk, tasks>>
    BY <1>3 DEF Prove
  <2>2. r \in Locals /\ [r EXCEPT !.total_closed_orders = 0] \in Locals /\ run # 0
    BY DEF Typed, Locals, Prove, Running
  <2> QED
    BY <2>1, <2>2, GoesType DEF Places
<1> QED
  BY <1>1, <1>2, <1>3

\* Submitting a proof keeps the types.
LEMMA SubmitType == Typed /\ Submit => Typed'
<1> SUFFICES ASSUME Typed, Submit PROVE Typed'
  OBVIOUS
<1>1. CASE CallFails
  BY <1>1, CallFailsType DEF Submit, Running
<1>2. CASE ~CallFails
  <2> DEFINE p == [old |-> r.proven_state, input |-> r.pending, new |-> r.state]
  <2>1. /\ Goes("backup", [r EXCEPT !.proven_state = r.state])
        /\ proofs' = proofs \cup {p} /\ UNCHANGED <<backup, tasks>> /\ run # 0
    BY <1>2 DEF Submit, NotSent, Typed, Running
  <2>2. p \in Proofs /\ [r EXCEPT !.proven_state = r.state] \in Locals
    BY DEF Typed, Locals, Proofs
  <2> QED
    BY <2>1, <2>2 DEF Typed, Goes, Places, Running, world, tasks
<1> QED
  BY <1>1, <1>2

\* Writing the backup keeps the types.
LEMMA BackupType == Typed /\ Backup => Typed'
<1> SUFFICES ASSUME Typed, Backup PROVE Typed'
  OBVIOUS
<1>1. /\ Latest(r.proven_state) \in States /\ Latest(DefaultState) \in States
      /\ backup \in States /\ run # 0
  BY StateTypes DEF Typed, Locals, Latest, Backup, Running
<1>2. CASE Fail
  BY <1>1, <1>2, FailType DEF Backup, Running
<1>3. CASE ~Fail
  BY <1>1, <1>3 DEF Backup, Typed, Goes, Places, Running, world, tasks
<1> QED
  BY <1>2, <1>3

\* Every step of the main loop keeps the types.
LEMMA MainType == Typed /\ Main => Typed'
BY NewType, PollType, FetchType, DrainType, StfType, SendType, ProveType, SubmitType, BackupType
   DEF Main

-----------------------------------------------------------------------------
(* The fulfillers. *)

\* What moves on is one fulfiller, with a channel that does not grow.
LEMMA MovesType ==
  ASSUME Typed, NEW i \in 1..MaxRuns, NEW f \in Fulfillers, Moves(i, f),
         Len(f.inbox) <= Len(fulfiller[i].inbox)
  PROVE  Typed'
<1>1. fulfiller[i] \in Fulfillers /\ Len(fulfiller[i].inbox) <= ORDER_CHANNEL
  BY DEF Typed
<1>2. Len(fulfiller[i].inbox) \in Nat /\ Len(f.inbox) \in Nat
  BY <1>1, LenProperties DEF Fulfillers
<1>3. Len(f.inbox) <= ORDER_CHANNEL
  BY <1>1, <1>2, ParameterTypes
<1>4. fulfiller' = [fulfiller EXCEPT ![i] = f]
  BY DEF Moves
<1>5. /\ fulfiller' \in [1..MaxRuns -> Fulfillers]
      /\ \A j \in 1..MaxRuns : Len(fulfiller'[j].inbox) <= ORDER_CHANNEL
  BY <1>3, <1>4, FulfillerPut
<1> QED
  BY <1>5 DEF Typed, Moves, Running, world, disk

\* A fulfiller whose channel is closed ends with its types.
LEMMA EndsType ==
  ASSUME Typed, NEW i \in 1..MaxRuns, Ends(i)
  PROVE  Typed'
<1> DEFINE f == [NoFulfiller EXCEPT !.at = "ended", !.open = fulfiller[i].open,
                                    !.owed = fulfiller[i].owed]
<1>1. fulfiller[i] \in Fulfillers
  BY DEF Typed
<1>2. f \in Fulfillers /\ f.inbox = NoFulfiller.inbox
  BY <1>1, TaskTypes DEF Fulfillers
<1>3. Len(f.inbox) <= Len(fulfiller[i].inbox)
  BY <1>1, <1>2, EmptyInbox, LenProperties DEF Fulfillers
<1> QED
  BY <1>2, <1>3, MovesType DEF Ends

\* The orders of a batch that were paid exactly, in some order.
Kept(f) == SetToSeq(Head(f.inbox) \cap Exact)

\* The fulfiller after it took a batch off its channel.
Taking(f) ==
  [f EXCEPT !.at = "quote", !.inbox = Tail(@),
            !.buffer = @ \o Kept(f), !.owed = @ \cup ToSet(Kept(f))]

\* What a fulfiller keeps of a batch: the orders that can be fulfilled, each once.
LEMMA KeptProperties ==
  ASSUME NEW f \in Fulfillers, f.inbox # <<>>
  PROVE  /\ Kept(f) \in Seq(Actions) /\ IsInjective(Kept(f))
         /\ ToSet(Kept(f)) = Head(f.inbox) \cap Exact
<1>1. Head(f.inbox) \in SUBSET Actions
  BY HeadTailProperties DEF Fulfillers
<1>2. IsFiniteSet(Head(f.inbox) \cap Exact)
  <2>1. IsFiniteSet(Actions)
    BY FS_Interval, ParameterTypes DEF Actions
  <2>2. Head(f.inbox) \cap Exact \in SUBSET Actions
    BY <1>1
  <2> QED
    BY <2>1, <2>2, FS_Subset
<1>3. Kept(f) \in Seq(Head(f.inbox) \cap Exact)
  BY <1>2, SetToSeqProperties DEF Kept
<1>4. Kept(f) \in Seq(Actions)
  BY <1>1, <1>3, SeqMonotonic
<1> QED
  BY <1>2, <1>4, SetToSeqProperties DEF Kept

\* A fulfiller that takes a batch moves it from its inbox to its buffer.
LEMMA TakingType ==
  ASSUME NEW f \in Fulfillers, f.inbox # <<>>
  PROVE  /\ Taking(f) \in Fulfillers
         /\ Taking(f).inbox = Tail(f.inbox) /\ Len(Taking(f).inbox) = Len(f.inbox) - 1
         /\ Taking(f).buffer = f.buffer \o Kept(f) /\ Taking(f).ngmi = f.ngmi
         /\ Taking(f).owed = f.owed \cup ToSet(Kept(f))
<1>1. Tail(f.inbox) \in Seq(SUBSET Actions) /\ Len(Tail(f.inbox)) = Len(f.inbox) - 1
  BY HeadTailProperties DEF Fulfillers
<1>2. f.buffer \o Kept(f) \in Seq(Actions)
  BY KeptProperties, ConcatProperties DEF Fulfillers
<1>3. f.owed \cup ToSet(Kept(f)) \in SUBSET Actions
  BY KeptProperties, ToSetType DEF Fulfillers
<1> QED
  BY <1>1, <1>2, <1>3 DEF Taking, Fulfillers

\* Receiving a batch keeps the types.
LEMMA RecvType ==
  ASSUME Typed, NEW i \in 1..MaxRuns, Recv(i)
  PROVE  Typed'
<1>1. fulfiller[i] \in Fulfillers
  BY DEF Typed
<1>2. CASE Ends(i)
  BY <1>2, EndsType
<1>3. CASE ~Ends(i)
  <2>1. fulfiller[i].inbox # <<>> /\ Moves(i, Taking(fulfiller[i]))
    BY <1>3 DEF Recv, Taking, Kept
  <2>2. Len(fulfiller[i].inbox) \in Nat
    BY <1>1, LenProperties DEF Fulfillers
  <2> QED
    BY <1>1, <2>1, <2>2, TakingType, MovesType
<1> QED
  BY <1>2, <1>3

\* A fulfiller that goes round again keeps its inbox.
LEMMA AgainType ==
  ASSUME NEW f \in Fulfillers
  PROVE  Again(f) \in Fulfillers /\ Again(f).inbox = f.inbox
<1>1. <<>> \in Seq(Actions)
  BY EmptySeq
<1> QED
  BY <1>1 DEF Again, Fulfillers

\* Dropping the last order of the buffer keeps the types.
LEMMA WithoutLastType ==
  ASSUME NEW f \in Fulfillers, f.buffer # <<>>
  PROVE  WithoutLast(f) \in Fulfillers /\ WithoutLast(f).inbox = f.inbox
<1>1. Front(f.buffer) \in Seq(Actions) /\ Last(f.buffer) \in Actions
  BY FrontAndLast DEF Fulfillers
<1>2. Append(f.ngmi, Last(f.buffer)) \in Seq(Actions)
  BY <1>1, AppendProperties DEF Fulfillers
<1> QED
  BY <1>1, <1>2 DEF WithoutLast, Fulfillers

\* Quoting the price of a batch keeps the types.
LEMMA QuoteType ==
  ASSUME Typed, NEW i \in 1..MaxRuns, Quote(i)
  PROVE  Typed'
<1> DEFINE f == fulfiller[i]
<1>1. f \in Fulfillers /\ Len(f.inbox) \in Nat
  BY LenProperties DEF Typed, Fulfillers
<1>2. CASE Moves(i, [f EXCEPT !.at = "fulfill"])
  <2> DEFINE g == [f EXCEPT !.at = "fulfill"]
  <2>1. g \in Fulfillers /\ g.inbox = f.inbox
    BY <1>1 DEF Fulfillers
  <2>2. Moves(i, g) /\ Len(g.inbox) <= Len(f.inbox)
    BY <1>1, <1>2, <2>1
  <2> HIDE DEF g
  <2> QED
    BY <2>1, <2>2, MovesType
<1>3. CASE f.buffer # <<>> /\ Moves(i, WithoutLast(f))
  BY <1>1, <1>3, WithoutLastType, MovesType
<1>4. CASE Moves(i, Again(f))
  BY <1>1, <1>4, AgainType, MovesType
<1>5. CASE Ends(i)
  BY <1>5, EndsType
<1> QED
  BY <1>2, <1>3, <1>4, <1>5 DEF Quote

\* Fulfilling a batch keeps the types.
LEMMA FulfillType ==
  ASSUME Typed, NEW i \in 1..MaxRuns, Fulfill(i)
  PROVE  Typed'
<1> DEFINE f == [fulfiller[i] EXCEPT !.owed = @ \ ToSet(fulfiller[i].buffer)]
<1>1. CASE Moves(i, Again(f))
  <2>1. fulfiller[i] \in Fulfillers /\ Len(fulfiller[i].inbox) \in Nat
    BY LenProperties DEF Typed, Fulfillers
  <2>2. f \in Fulfillers /\ f.inbox = fulfiller[i].inbox
    BY <2>1 DEF Fulfillers
  <2> HIDE DEF f
  <2>3. Again(f) \in Fulfillers /\ Len(Again(f).inbox) <= Len(fulfiller[i].inbox)
    BY <2>1, <2>2, AgainType
  <2> QED
    BY <1>1, <2>3, MovesType
<1>2. CASE Ends(i)
  BY <1>2, EndsType
<1> QED
  BY <1>1, <1>2 DEF Fulfill

\* Every step keeps the types.
LEMMA TypedNext == Typed /\ [Next]_vars => Typed'
<1> SUFFICES ASSUME Typed, [Next]_vars PROVE Typed'
  OBVIOUS
<1>1. CASE World
  BY <1>1, WorldType
<1>2. CASE Listener
  BY <1>2, ListenerType
<1>3. CASE Main
  BY <1>3, MainType
<1>4. ASSUME NEW i \in 1..MaxRuns, Fulfiller(i) PROVE Typed'
  BY <1>4, RecvType, QuoteType, FulfillType DEF Fulfiller
<1>5. ASSUME NEW i \in orphans, OrphanEnds(i) PROVE Typed'
  BY <1>5 DEF OrphanEnds, Typed, Running, world, disk
<1>6. CASE UNCHANGED vars
  BY <1>6 DEF Typed, Running, vars, world, disk, tasks
<1> QED
  BY <1>1, <1>2, <1>3, <1>4, <1>5, <1>6 DEF Next

\* The types that are kept imply the type invariant.
LEMMA TypedImplies == Typed => TypeOK
BY DEF Typed, TypeOK, Locals, Proofs, Chains

\* Every variable of the relayer has its type at all times, and neither channel
\* ever holds more than its capacity.
THEOREM TypeCorrect == Spec => []TypeOK
<1>1. Spec => []Typed
  BY TypedInit, TypedNext, PTL DEF Spec
<1> QED
  BY <1>1, TypedImplies, PTL

-----------------------------------------------------------------------------
(* The actions of a run. *)

\* What a listener passed on since its subscription.
Passing(l) == [k \in 1..l.heard - l.from |-> l.from + k]

\* The actions that a listener passes on are numbered one after another.
LEMMA PassingSeq ==
  ASSUME NEW l \in Listeners, l.from <= l.heard
  PROVE  /\ Passing(l) \in Seq(Nat) /\ Len(Passing(l)) = l.heard - l.from
         /\ \A k \in 1..l.heard - l.from : Passing(l)[k] = l.from + k
<1>1. l.from \in Nat /\ l.heard - l.from \in Nat
  BY DEF Listeners
<1>2. Passing(l) \in [1..l.heard - l.from -> Nat]
  BY <1>1 DEF Passing
<1>3. Passing(l) \in Seq(Nat)
  BY <1>1, <1>2, SeqDef
<1> QED
  BY <1>1, <1>2, <1>3, LenProperties DEF Passing

\* A listener that has passed nothing on.
LEMMA PassingNothing ==
  ASSUME NEW l \in Listeners, l.from = l.heard
  PROVE  Passing(l) = <<>>
<1>1. Passing(l) \in Seq(Nat) /\ Len(Passing(l)) = 0
  BY PassingSeq DEF Listeners
<1> QED
  BY <1>1, EmptySeq

\* One more event is one more action at the end.
LEMMA PassingOneMore ==
  ASSUME NEW l \in Listeners, NEW m \in Listeners, l.from <= l.heard,
         m.from = l.from, m.heard = l.heard + 1
  PROVE  Passing(m) = Append(Passing(l), l.heard + 1)
<1> DEFINE s == Append(Passing(l), l.heard + 1)
           n == l.heard - l.from
<1>1. l.from \in Nat /\ l.heard \in Nat /\ n \in Nat /\ m.heard - m.from = n + 1 /\ m.from <= m.heard
  BY DEF Listeners
<1>2. /\ Passing(l) \in Seq(Nat) /\ Len(Passing(l)) = n
      /\ \A k \in 1..n : Passing(l)[k] = l.from + k
  BY PassingSeq
<1>3. /\ Passing(m) \in Seq(Nat) /\ Len(Passing(m)) = n + 1
      /\ \A k \in 1..n + 1 : Passing(m)[k] = l.from + k
  BY <1>1, PassingSeq
<1>4. /\ s \in Seq(Nat) /\ Len(s) = n + 1
      /\ (\A k \in 1..n : s[k] = Passing(l)[k]) /\ s[n + 1] = l.heard + 1
  BY <1>1, <1>2, AppendProperties
<1>5. ASSUME NEW k \in 1..n + 1 PROVE Passing(m)[k] = s[k]
  <2>1. CASE k = n + 1
    BY <1>1, <1>3, <1>4, <2>1
  <2>2. CASE k # n + 1
    <3>1. k \in 1..n
      BY <1>1, <2>2
    <3> QED
      BY <1>2, <1>3, <1>4, <3>1
  <2> QED
    BY <2>1, <2>2
<1> HIDE DEF s
<1>6. Passing(m) = s
  BY <1>3, <1>4, <1>5, SeqEqual
<1> QED
  BY <1>6 DEF s

\* A queue that moves from one end of a concatenation to the other.
LEMMA ConcatAppend ==
  ASSUME NEW S, NEW s \in Seq(S), NEW t \in Seq(S), NEW e \in S
  PROVE  s \o Append(t, e) = Append(s \o t, e)
<1>1. <<e>> \in Seq(S) /\ s \o t \in Seq(S)
  BY ConcatProperties
<1>2. Append(t, e) = t \o <<e>> /\ Append(s \o t, e) = (s \o t) \o <<e>>
  BY <1>1, AppendIsConcat
<1> QED
  BY <1>1, <1>2, ConcatAssociative

\* Moving the head of one sequence to the end of another changes nothing in both.
LEMMA ConcatShift ==
  ASSUME NEW S, NEW s \in Seq(S), NEW t \in Seq(S), t # <<>>
  PROVE  Append(s, Head(t)) \o Tail(t) = s \o t
<1>1. Head(t) \in S /\ Tail(t) \in Seq(S) /\ <<Head(t)>> \in Seq(S)
  BY HeadTailProperties
<1>2. t = <<Head(t)>> \o Tail(t)
  <2> DEFINE u == <<Head(t)>> \o Tail(t)
  <2>1. Len(t) \in Nat \ {0} /\ Len(Tail(t)) = Len(t) - 1
    BY EmptySeq, HeadTailProperties
  <2>2. /\ u \in Seq(S) /\ Len(u) = Len(t)
        /\ \A i \in 1..Len(t) : u[i] = IF i <= 1 THEN <<Head(t)>>[i] ELSE Tail(t)[i - 1]
    BY <1>1, <2>1, ConcatProperties
  <2>3. ASSUME NEW i \in 1..Len(t) PROVE u[i] = t[i]
    <3>1. CASE i = 1
      BY <2>1, <2>2, <3>1
    <3>2. CASE i # 1
      <4>1. i - 1 \in 1..Len(Tail(t)) /\ u[i] = Tail(t)[i - 1]
        BY <2>1, <2>2, <3>2
      <4>2. Tail(t)[i - 1] = t[(i - 1) + 1]
        BY <4>1, HeadTailProperties
      <4> QED
        BY <4>1, <4>2
    <3> QED
      BY <3>1, <3>2
  <2> HIDE DEF u
  <2>4. u = t
    BY <2>2, <2>3, SeqEqual
  <2> QED
    BY <2>4 DEF u
<1>3. Append(s, Head(t)) = s \o <<Head(t)>>
  BY <1>1, AppendIsConcat
<1>4. (s \o <<Head(t)>>) \o Tail(t) = s \o (<<Head(t)>> \o Tail(t))
  BY <1>1, ConcatAssociative
<1> QED
  BY <1>2, <1>3, <1>4

\* A run begins.
Starts ==
  /\ pc = "new" /\ run < MaxRuns
  /\ pc' = "poll" /\ run' = run + 1 /\ r' = Begun(backup)
  /\ listener' = [NoListener EXCEPT !.at = "connecting"]
  /\ fulfiller' = [fulfiller EXCEPT ![run'] = Spawned]
  /\ UNCHANGED <<world, disk, pendingActions>>

\* An action is taken off the channel.
Drains ==
  /\ pc = "drain" /\ pendingActions # <<>>
  /\ Goes("drain", Noted(r, Head(pendingActions)))
  /\ pendingActions' = Tail(pendingActions)
  /\ UNCHANGED <<disk, listener, fulfiller>>

\* A run goes on and leaves the listener and its actions alone.
GoesOn ==
  /\ Running /\ Running'
  /\ r'.pending.actions = r.pending.actions
  /\ UNCHANGED <<world, run, listener, pendingActions>>

\* What a step of the main loop is to the listener.
LEMMA MainCases ==
  ASSUME Typed, Main
  PROVE  Starts \/ Drains \/ GoesOn \/ Panic \/ Fail
<1> USE DEF Running, GoesOn, Goes, tasks
<1>1. CASE New
  BY <1>1 DEF New, Starts
<1>2. CASE Poll
  BY <1>2 DEF Poll, CallFails
<1>3. CASE Fetch
  <2> DEFINE number == r.latest_known_block_number + 1
             answer == get_block_by_number(number)
             locals == [r EXCEPT !.latest_known_block_number = number, !.new.blocks = answer]
  <2>1. Panic \/ CallFails \/ (Goes("drain", locals) /\ UNCHANGED <<disk, tasks>>)
    BY <1>3 DEF Fetch
  <2> HIDE DEF number, answer
  <2>2. locals.pending = r.pending
    BY DEF Typed, Locals
  <2>3. pc = "fetch"
    BY <1>3 DEF Fetch
  <2> HIDE DEF locals
  <2> QED
    BY <2>1, <2>2, <2>3 DEF CallFails
<1>4. CASE Drain
  BY <1>4 DEF Drain, Drains
<1>5. CASE Stf /\ ~Panic
  <2>1. PICK closed \in SUBSET Closable :
          /\ Executes(r.state, r.new.blocks)
          /\ Goes(IF closed = {} THEN "decide" ELSE "send", AfterStf(closed))
          /\ UNCHANGED <<disk, tasks>>
    BY <1>5 DEF Stf, AfterStf
  <2>2. AfterStf(closed).pending.actions = r.pending.actions
    BY <2>1, AfterStfFields
  <2> QED
    BY <1>5, <2>1, <2>2 DEF Stf
<1>6. CASE Send
  <2>1. [r EXCEPT !.closed = {}].pending = r.pending
    BY DEF Typed, Locals
  <2> QED
    BY <1>6, <2>1 DEF Send, CallFails
<1>7. CASE Prove
  <2>1. [r EXCEPT !.total_closed_orders = 0].pending = r.pending
    BY DEF Typed, Locals
  <2> QED
    BY <1>7, <2>1 DEF Prove, CallFails
<1>8. CASE Submit
  <2>1. [r EXCEPT !.proven_state = r.state].pending = r.pending
    BY DEF Typed, Locals
  <2> QED
    BY <1>8, <2>1 DEF Submit, NotSent, CallFails
<1>9. CASE Backup
  BY <1>9 DEF Backup
<1> QED
  BY <1>1, <1>2, <1>3, <1>4, <1>5, <1>6, <1>7, <1>8, <1>9 DEF Main

\* There is no gap at the start.
LEMMA GapInit == Init => GapInv
BY DEF Init, GapInv, ListenerInv, NoGapInARun, NoListener, Running

\* A step that leaves the listener, the channel and the pending actions alone.
LEMMA GapUntouched ==
  ASSUME Typed, GapInv, announced \in Nat, announced' \in Nat, announced <= announced',
         r'.pending.actions = r.pending.actions, Running' <=> Running,
         UNCHANGED <<listener, pendingActions>>
  PROVE  GapInv'
<1>1. ListenerInv'
  <2>1. listener \in Listeners /\ ListenerInv
    BY DEF GapInv, Typed
  <2> QED
    BY <2>1 DEF ListenerInv, Listeners
<1>2. NoGapInARun'
  <2>1. Running => r.pending.actions \o pendingActions = Passing(listener)
    BY DEF GapInv, NoGapInARun, Running, Passing
  <2>2. Running' => r'.pending.actions \o pendingActions' = Passing(listener')
    BY <2>1
  <2> QED
    BY <2>2 DEF NoGapInARun, Running, Passing
<1> QED
  BY <1>1, <1>2 DEF GapInv

\* The listener leaves no gap.
LEMMA GapListener == Typed /\ Typed' /\ GapInv /\ Listener => GapInv'
<1> SUFFICES ASSUME Typed, Typed', GapInv, Listener PROVE GapInv'
  OBVIOUS
<1>1. listener \in Listeners /\ listener' \in Listeners /\ announced \in Nat /\ announced' = announced
  BY ParameterTypes DEF Typed, Listener, Subscribe, Hear, Hangup, Listens, world
<1>2. Running /\ Running' /\ r' = r
  BY DEF Listener, Subscribe, Hear, Hangup, Listens, GapInv, ListenerInv, NoListener, Running
<1>3. r.pending.actions \in Seq(Actions) /\ pendingActions \in Seq(Actions)
  BY DEF Typed, Locals, Inputs, Actions
<1>4. /\ listener.from <= listener.heard /\ listener.heard <= announced
      /\ r.pending.actions \o pendingActions = Passing(listener)
  BY <1>2 DEF GapInv, ListenerInv, NoGapInARun, Running, Passing
<1>5. SUFFICES /\ listener'.from <= listener'.heard /\ listener'.heard <= announced
               /\ listener'.at = "connecting" => listener'.from = listener'.heard
               /\ r.pending.actions \o pendingActions' = Passing(listener')
  BY <1>1, <1>2 DEF GapInv, ListenerInv, NoGapInARun, Running, Passing
<1>6. CASE Subscribe
  <2>1. /\ listener.at = "connecting" /\ pendingActions' = pendingActions
        /\ listener' = [at |-> "on", from |-> announced, heard |-> announced]
    BY <1>6 DEF Subscribe, Listens
  <2>2. listener.from = listener.heard
    BY <2>1 DEF GapInv, ListenerInv
  <2>3. Passing(listener) = <<>> /\ Passing(listener') = <<>>
    BY <1>1, <2>1, <2>2, PassingNothing
  <2> QED
    BY <1>1, <1>4, <2>1, <2>3
<1>7. CASE Hear
  <2>1. /\ listener.at = "on" /\ listener.heard < announced
        /\ pendingActions' = Append(pendingActions, listener.heard + 1)
        /\ listener' = [listener EXCEPT !.heard = @ + 1]
    BY <1>7 DEF Hear, Passed, Listens
  <2>2. /\ listener'.from = listener.from /\ listener'.heard = listener.heard + 1
        /\ listener'.at = "on" /\ listener.from \in Nat /\ listener.heard \in Nat
    BY <1>1, <2>1 DEF Listeners
  <2>3. Passing(listener') = Append(Passing(listener), listener.heard + 1)
    BY <1>1, <1>4, <2>2, PassingOneMore
  <2> DEFINE e == listener.heard + 1
  <2>8. listener'.from <= listener'.heard /\ listener'.heard <= announced
    BY <1>1, <1>4, <2>1, <2>2
  <2>4. e \in Actions
    <3>1. announced \in 0..MaxActions /\ listener.heard < announced /\ listener.heard \in Nat
      BY <2>1, <2>2 DEF Typed
    <3> QED
      BY <3>1, ParameterTypes DEF Actions
  <2>5. Passing(listener') = Append(Passing(listener), e) /\ pendingActions' = Append(pendingActions, e)
    BY <2>1, <2>3
  <2> HIDE DEF e
  <2>6. r.pending.actions \o Append(pendingActions, e) = Append(r.pending.actions \o pendingActions, e)
    <3>1. ASSUME NEW s \in Seq(Actions), NEW t \in Seq(Actions)
          PROVE  s \o Append(t, e) = Append(s \o t, e)
      BY <2>4, ConcatAppend
    <3> QED
      BY <1>3, <3>1
  <2>7. r.pending.actions \o pendingActions' = Passing(listener')
    BY <1>4, <2>5, <2>6
  <2> QED
    BY <2>2, <2>8, <2>7
<1>8. CASE Hangup
  <2>1. /\ listener'.from = listener.from /\ listener'.heard = listener.heard
        /\ listener'.at = "ended" /\ pendingActions' = pendingActions
    BY <1>1, <1>8 DEF Hangup, Listens, Listeners
  <2> QED
    BY <1>4, <2>1 DEF Passing
<1> QED
  BY <1>6, <1>7, <1>8 DEF Listener

\* What Noted adds to, and what it leaves alone.
LEMMA NotedFields ==
  ASSUME Typed, NEW a
  PROVE  /\ Noted(r, a).pending.actions = Append(r.pending.actions, a)
         /\ Noted(r, a).pending.blocks = r.pending.blocks
         /\ Noted(r, a).new.actions = Append(r.new.actions, a)
         /\ Noted(r, a).new.blocks = r.new.blocks
         /\ Noted(r, a).state = r.state /\ Noted(r, a).proven_state = r.proven_state
         /\ Noted(r, a).closed = r.closed /\ Noted(r, a).told = r.told
BY DEF Typed, Locals, Inputs, Noted

\* The main loop leaves no gap.
LEMMA GapMain == Typed /\ GapInv /\ Main => GapInv'
<1> SUFFICES ASSUME Typed, GapInv, Main PROVE GapInv'
  OBVIOUS
<1>1. announced \in Nat
  BY DEF Typed
<1>2. CASE Starts
  <2>1. /\ listener'.at = "connecting" /\ listener'.from = 0 /\ listener'.heard = 0
        /\ pendingActions' = <<>> /\ Running' /\ r'.pending.actions = <<>>
        /\ announced' = announced /\ listener' \in Listeners
    BY <1>2, TaskTypes
    DEF Starts, NoListener, Running, GapInv, ListenerInv, Begun, NoInput, world, Listeners
  <2>2. Passing(listener') = <<>>
    BY <2>1, PassingNothing
  <2>3. <<>> \o <<>> = <<>>
    BY EmptySeq, ConcatEmptySeq
  <2> QED
    BY <1>1, <2>1, <2>2, <2>3 DEF GapInv, ListenerInv, NoGapInARun, Passing
<1>3. CASE Drains
  <2>1. /\ Running /\ Running' /\ UNCHANGED <<announced, listener>>
        /\ r' = Noted(r, Head(pendingActions)) /\ pendingActions' = Tail(pendingActions)
        /\ pendingActions # <<>>
    BY <1>3 DEF Drains, Goes, Running, world
  <2>2. r.pending.actions \in Seq(Actions) /\ pendingActions \in Seq(Actions)
    BY DEF Typed, Locals, Inputs, Actions
  <2>3. r'.pending.actions \o pendingActions' = r.pending.actions \o pendingActions
    BY <2>1, <2>2, NotedFields, ConcatShift
  <2> QED
    BY <2>1, <2>3 DEF GapInv, ListenerInv, NoGapInARun, Running
<1>4. CASE GoesOn
  <2>1. UNCHANGED <<announced, listener, pendingActions>> /\ r'.pending.actions = r.pending.actions
    BY <1>4 DEF GoesOn, world
  <2> QED
    BY <1>1, <1>4, <2>1, GapUntouched DEF GoesOn
<1>5. CASE Panic \/ Fail
  BY <1>1, <1>5 DEF Panic, Fail, Goes, world, Running, GapInv, ListenerInv, NoGapInARun, NoListener
<1> QED
  BY <1>2, <1>3, <1>4, <1>5, MainCases

\* No step leaves a gap.
LEMMA GapNext == Typed /\ Typed' /\ GapInv /\ [Next]_vars => GapInv'
<1> SUFFICES ASSUME Typed, Typed', GapInv, [Next]_vars PROVE GapInv'
  OBVIOUS
<1>1. announced \in Nat /\ announced' \in Nat
  BY DEF Typed
<1>2. CASE World
  <2>1. announced <= announced' /\ UNCHANGED <<pc, r, listener, pendingActions>>
    BY <1>1, <1>2 DEF World, Announce, ProduceBlock, Reorganize, tasks
  <2> QED
    BY <1>1, <2>1, GapUntouched DEF Running
<1>3. CASE Listener
  BY <1>3, GapListener
<1>4. CASE Main
  BY <1>4, GapMain
<1>5. ASSUME NEW i \in 1..MaxRuns, Fulfiller(i) PROVE GapInv'
  <2>1. UNCHANGED <<announced, pc, r, listener, pendingActions>>
    BY <1>5 DEF Fulfiller, Recv, Quote, Fulfill, Ends, Moves, world
  <2> QED
    BY <1>1, <2>1, GapUntouched DEF Running
<1>6. ASSUME NEW i \in orphans, OrphanEnds(i) PROVE GapInv'
  <2>1. UNCHANGED <<announced, pc, r, listener, pendingActions>>
    BY <1>6 DEF OrphanEnds, world
  <2> QED
    BY <1>1, <2>1, GapUntouched DEF Running
<1>7. CASE UNCHANGED vars
  BY <1>1, <1>7, GapUntouched DEF vars, world, tasks, Running
<1> QED
  BY <1>2, <1>3, <1>4, <1>5, <1>6, <1>7 DEF Next

\* However the events, the channel and the rounds interleave, and whatever the
\* capacity of the channel, a run takes over all actions from its subscription on,
\* in their order, each once.  What came before, between two runs, it never sees.
THEOREM NoActionLost == Spec => []NoGapInARun
<1>1. Spec => []Typed
  BY TypedInit, TypedNext, PTL DEF Spec
<1>2. Init => GapInv
  BY GapInit
<1>3. Typed /\ Typed' /\ GapInv /\ [Next]_vars => GapInv'
  BY GapNext
<1>4. GapInv => NoGapInARun
  BY DEF GapInv
<1> QED
  BY <1>1, <1>2, <1>3, <1>4, PTL DEF Spec

-----------------------------------------------------------------------------
(* Where a run starts from, and where a proof does. *)

\* The disk of the relayer and proven_state stay as they are.
StaysProven == r'.proven_state = r.proven_state /\ UNCHANGED disk

\* A proof is sent, and its new state is now the proven one.
Sends ==
  /\ pc = "submit" /\ Goes("backup", [r EXCEPT !.proven_state = r.state])
  /\ proofs' = proofs \cup {[old |-> r.proven_state, input |-> r.pending, new |-> r.state]}
  /\ UNCHANGED <<backup, tasks>>

\* What a step of the main loop is to the proofs.
LEMMA ProofCases ==
  ASSUME Typed, Main
  PROVE  Starts \/ StaysProven \/ Panic \/ CallFails \/ Sends \/ Backup
<1> USE DEF StaysProven, Goes
<1>1. CASE New
  BY <1>1 DEF New, Starts
<1>2. CASE Poll
  BY <1>2 DEF Poll
<1>3. CASE Fetch
  <2> DEFINE number == r.latest_known_block_number + 1
             answer == get_block_by_number(number)
             locals == [r EXCEPT !.latest_known_block_number = number, !.new.blocks = answer]
  <2>1. Panic \/ CallFails \/ (Goes("drain", locals) /\ UNCHANGED <<disk, tasks>>)
    BY <1>3 DEF Fetch
  <2> HIDE DEF number, answer
  <2>2. locals.proven_state = r.proven_state
    BY DEF Typed, Locals
  <2> HIDE DEF locals
  <2> QED
    BY <2>1, <2>2
<1>4. CASE Drain
  BY <1>4, NotedFields DEF Drain
<1>5. CASE Stf /\ ~Panic
  <2>1. PICK closed \in SUBSET Closable :
          /\ Executes(r.state, r.new.blocks)
          /\ Goes(IF closed = {} THEN "decide" ELSE "send", AfterStf(closed))
          /\ UNCHANGED <<disk, tasks>>
    BY <1>5 DEF Stf, AfterStf
  <2>2. AfterStf(closed).proven_state = r.proven_state
    BY <2>1, AfterStfFields
  <2> QED
    BY <2>1, <2>2
<1>6. CASE Send
  <2>1. [r EXCEPT !.closed = {}].proven_state = r.proven_state
    BY DEF Typed, Locals
  <2> QED
    BY <1>6, <2>1 DEF Send
<1>7. CASE Prove
  <2>1. [r EXCEPT !.total_closed_orders = 0].proven_state = r.proven_state
    BY DEF Typed, Locals
  <2> QED
    BY <1>7, <2>1 DEF Prove
<1>8. CASE Submit
  BY <1>8 DEF Submit, NotSent, Sends
<1> QED
  BY <1>1, <1>2, <1>3, <1>4, <1>5, <1>6, <1>7, <1>8 DEF Main

\* A relayer that begins takes the state it begins with for proven.
LEMMA BegunProven == \A s : Begun(s).proven_state = s
BY DEF Begun

\* The latest state is the one of the contract or the backup.
LEMMA LatestIsEither == \A s : Latest(s) = s \/ Latest(s) = backup
BY DEF Latest

\* What is reached stays reached.
LEMMA ReachedGrows ==
  ASSUME proofs \subseteq proofs'
  PROVE  Reached \subseteq Reached'
BY DEF Reached

\* What has been reached at the start.
LEMMA ReachedInit == Init => ReachedInv
BY BegunProven DEF Init, ReachedInv, Reached

\* Every step keeps what has been reached.
LEMMA ReachedNext == Typed /\ ReachedInv /\ [Next]_vars => ReachedInv'
<1> SUFFICES ASSUME Typed, ReachedInv, [Next]_vars PROVE ReachedInv'
  OBVIOUS
<1>1. backup \in Reached /\ r.proven_state \in Reached /\ \A p \in proofs : p.old \in Reached
  BY DEF ReachedInv
<1>2. GenesisState \in Reached /\ DefaultState \in Reached
  BY DEF Reached
<1>3. ASSUME proofs' = proofs, backup' \in Reached, r'.proven_state \in Reached
      PROVE  ReachedInv'
  BY <1>1, <1>3 DEF ReachedInv, Reached
<1>4. CASE UNCHANGED <<disk, r>>
  BY <1>1, <1>3, <1>4 DEF disk
<1>5. CASE Starts \/ StaysProven \/ Panic \/ CallFails
  <2>1. proofs' = proofs /\ backup' = backup
    BY <1>5 DEF Starts, StaysProven, Panic, CallFails, Fail, disk
  <2>2. r'.proven_state \in {backup, r.proven_state, GenesisState}
    BY <1>5, BegunProven DEF Starts, StaysProven, Panic, CallFails, Fail, Goes
  <2> QED
    BY <1>1, <1>2, <1>3, <2>1, <2>2
<1>6. CASE Sends
  <2> DEFINE p == [old |-> r.proven_state, input |-> r.pending, new |-> r.state]
  <2>1. proofs' = proofs \cup {p} /\ backup' = backup /\ r' = [r EXCEPT !.proven_state = r.state]
    BY <1>6 DEF Sends, Goes
  <2>2. r'.proven_state = r.state
    BY <2>1 DEF Typed, Locals
  <2>3. p.new = r.state /\ p.old = r.proven_state
    OBVIOUS
  <2> HIDE DEF p
  <2>4. Reached \subseteq Reached' /\ r.state \in Reached'
    BY <2>1, <2>3, ReachedGrows DEF Reached
  <2> QED
    BY <1>1, <2>1, <2>2, <2>3, <2>4 DEF ReachedInv
<1>7. CASE Backup
  <2>1. proofs' = proofs
    BY <1>7 DEF Backup, Fail
  <2>2. backup' \in {backup, r.proven_state, DefaultState}
    BY <1>7, LatestIsEither DEF Backup
  <2>3. r'.proven_state \in {r.proven_state, GenesisState}
    BY <1>7, BegunProven DEF Backup, Fail, Goes
  <2> QED
    BY <1>1, <1>2, <1>3, <2>1, <2>2, <2>3
<1>8. CASE \/ World \/ Listener \/ \E i \in orphans : OrphanEnds(i)
           \/ \E i \in 1..MaxRuns : Fulfiller(i)
  BY <1>4, <1>8 DEF World, Announce, ProduceBlock, Reorganize, Listener, Subscribe, Hear, Hangup,
     Listens, OrphanEnds, Fulfiller, Recv, Quote, Fulfill, Ends, Moves
<1>9. CASE UNCHANGED vars
  BY <1>4, <1>9 DEF vars
<1> QED
  BY <1>5, <1>6, <1>7, <1>8, <1>9, ProofCases DEF Next

\* However often the relayer fails and is restarted, what it starts from, and what
\* each of its proofs starts from, is where an earlier proof had come to, the state
\* it was set up with, or State::default() after a torn backup.
THEOREM ProofsLinkUp == Spec => []ResumesFromAProof
<1>1. Spec => []Typed
  BY TypedInit, TypedNext, PTL DEF Spec
<1>2. Init => ReachedInv
  BY ReachedInit
<1>3. Typed /\ ReachedInv /\ [Next]_vars => ReachedInv'
  BY ReachedNext
<1>4. ReachedInv => ResumesFromAProof
  BY DEF ReachedInv, Reached, ResumesFromAProof
<1> QED
  BY <1>1, <1>2, <1>3, <1>4, PTL DEF Spec

-----------------------------------------------------------------------------
(* What a proof is about. *)

PendingInv == RoundInv /\ ProgressInv

\* At the start of a run nothing is pending.
LEMMA BegunUnproven ==
  ASSUME NEW s \in States
  PROVE  Unproven(Begun(s)) /\ Begun(s).new = NoInput
<1>1. /\ Begun(s).state = s /\ Begun(s).proven_state = s
      /\ Begun(s).new = NoInput /\ Begun(s).pending = NoInput
  BY DEF Begun
<1>2. NoInput.actions = <<>> /\ NoInput.blocks = <<>> /\ Len(<<>>) = 0
  BY EmptySeq DEF NoInput
<1>3. Len(s.blocks) \in Nat
  BY LenProperties DEF States
<1> QED
  BY <1>1, <1>2, <1>3 DEF Unproven

\* A relayer that begins has nothing pending.
LEMMA PendingBegun ==
  ASSUME NEW s \in States, r' = Begun(s), pc' \notin {"drain", "stf", "submit"}
  PROVE  PendingInv'
BY BegunUnproven DEF PendingInv, RoundInv, ProgressInv

\* A step that only moves the main loop outside of a round's first half.
LEMMA PendingSame ==
  ASSUME PendingInv, pc \notin {"drain", "stf"}, pc' \notin {"drain", "stf"},
         r'.state = r.state, r'.proven_state = r.proven_state,
         r'.new = r.new, r'.pending = r.pending,
         pc' = "submit" => r.pending.blocks # <<>> /\ Unproven(r)
  PROVE  PendingInv'
BY DEF PendingInv, RoundInv, ProgressInv, Unproven, Proven

\* The block that is fetched is not yet pending.
LEMMA PendingFetch ==
  ASSUME Typed, PendingInv, Fetch, ~Panic, ~CallFails
  PROVE  PendingInv'
<1> DEFINE number == r.latest_known_block_number + 1
           answer == get_block_by_number(number)
<1>1. /\ pc = "fetch" /\ pc' = "drain" /\ answer # <<>>
      /\ r' = [r EXCEPT !.latest_known_block_number = number, !.new.blocks = answer]
  BY DEF Fetch, Goes
<1>2. number \in Nat \ {0}
  BY DEF Typed, Locals
<1>3. Len(answer) = 1 /\ answer[1] # <<>>
  BY <1>1, <1>2, FetchedBlock
<1> HIDE DEF number, answer
<1>4. /\ r'.state = r.state /\ r'.proven_state = r.proven_state /\ r'.pending = r.pending
      /\ r'.new.actions = r.new.actions /\ r'.new.blocks = answer
  BY <1>1 DEF Typed, Locals, Inputs
<1>5. RoundInv'
  BY <1>1, <1>3, <1>4 DEF RoundInv
<1>6. ProgressInv'
  BY <1>1, <1>4 DEF PendingInv, ProgressInv, Unproven, Proven
<1> QED
  BY <1>5, <1>6 DEF PendingInv

\* An action that is noted counts on both sides.
LEMMA PendingDrain ==
  ASSUME Typed, PendingInv, Drains
  PROVE  PendingInv'
<1> DEFINE a == Head(pendingActions)
<1>1. pc = "drain" /\ pc' = "drain" /\ r' = Noted(r, a) /\ a \in Actions
  BY HeadTailProperties DEF Drains, Goes, Typed
<1> HIDE DEF a
<1>2. /\ r'.pending.actions = Append(r.pending.actions, a) /\ r'.pending.blocks = r.pending.blocks
      /\ r'.new.actions = Append(r.new.actions, a) /\ r'.new.blocks = r.new.blocks
      /\ r'.state = r.state /\ r'.proven_state = r.proven_state
  BY <1>1, NotedFields
<1>3. RoundInv'
  BY <1>1, <1>2 DEF PendingInv, RoundInv
<1>4. CASE Unproven(r)
  <2>1. /\ r.state.actions \in Seq(Actions) /\ r.new.actions \in Seq(Actions)
        /\ r.proven_state.actions \in Seq(Actions) /\ r.pending.actions \in Seq(Actions)
    BY DEF Typed, Locals, States, Inputs, Actions
  <2>2. ASSUME NEW s \in Seq(Actions), NEW t \in Seq(Actions)
        PROVE  s \o Append(t, a) = Append(s \o t, a)
    BY <1>1, ConcatAppend
  <2>3. r'.state.actions \o r'.new.actions = r'.proven_state.actions \o r'.pending.actions
    <3>1. r.state.actions \o Append(r.new.actions, a) = Append(r.state.actions \o r.new.actions, a)
      BY <2>1, <2>2
    <3>2. r.proven_state.actions \o Append(r.pending.actions, a)
            = Append(r.proven_state.actions \o r.pending.actions, a)
      BY <2>1, <2>2
    <3>3. r.state.actions \o r.new.actions = r.proven_state.actions \o r.pending.actions
      BY <1>4 DEF Unproven
    <3> QED
      BY <1>2, <3>1, <3>2, <3>3
  <2>4. Unproven(r')
    BY <1>2, <1>4, <2>3 DEF Unproven
  <2> QED
    BY <1>1, <1>3, <2>4 DEF PendingInv, ProgressInv
<1>5. CASE Proven(r)
  BY <1>1, <1>2, <1>3, <1>5 DEF PendingInv, ProgressInv, Proven
<1> QED
  BY <1>4, <1>5 DEF PendingInv, ProgressInv

\* stf takes in the one block of its round: it would not run with FINALITY.
LEMMA OneBlock ==
  ASSUME NEW s \in States, NEW input \in Inputs, Executes(s, input.blocks),
         Len(input.blocks) = 1, input.blocks[1] # <<>>
  PROVE  /\ After(s, input).blocks = input.blocks[1]
         /\ After(s, input).actions = s.actions \o input.actions
         /\ Front(input.blocks[1]) = s.blocks
         /\ Len(input.blocks[1]) = Len(s.blocks) + 1
<1>1. input.blocks \in Seq(Chains) /\ input.blocks[1] \in Chains
  <2>1. input.blocks \in Seq(Chains) /\ 1 \in 1..Len(input.blocks)
    BY DEF Inputs, Chains
  <2> QED
    BY <2>1, ElementOfSeq
<1>2. FINALITY = 0 /\ Front(input.blocks[1]) = s.blocks
  BY <1>1, ExecutesSome
<1>3. After(s, input).blocks = input.blocks[1] /\ After(s, input).actions = s.actions \o input.actions
  BY <1>2 DEF After, States
<1>4. Len(Front(input.blocks[1])) = Len(input.blocks[1]) - 1 /\ Len(input.blocks[1]) \in Nat
  BY <1>1, FrontAndLast DEF Chains
<1> QED
  BY <1>2, <1>3, <1>4

\* What a block at the end of the pending ones does to their ends.
LEMMA OneMorePending ==
  ASSUME NEW s \in Seq(Chains), NEW t \in Seq(Chains), Len(t) = 1
  PROVE  /\ Len(s \o t) = Len(s) + 1 /\ s \o t # <<>>
         /\ Last(s \o t) = t[1]
         /\ Head(s \o t) = IF s = <<>> THEN t[1] ELSE Head(s)
<1> DEFINE u == s \o t
<1>1. Len(s) \in Nat /\ (s # <<>> => Len(s) # 0)
  BY EmptySeq, LenProperties
<1>2. /\ u \in Seq(Chains) /\ Len(u) = Len(s) + 1
      /\ \A i \in 1..Len(s) + 1 : u[i] = IF i <= Len(s) THEN s[i] ELSE t[i - Len(s)]
  <2>1. /\ u \in Seq(Chains) /\ Len(u) = Len(s) + Len(t)
        /\ \A i \in 1..Len(s) + Len(t) : u[i] = IF i <= Len(s) THEN s[i] ELSE t[i - Len(s)]
    BY ConcatProperties
  <2> QED
    BY <2>1
<1>3. u[Len(s) + 1] = t[1]
  BY <1>1, <1>2
<1>4. u[1] = IF Len(s) = 0 THEN t[1] ELSE s[1]
  BY <1>1, <1>2
<1>5. u # <<>>
  BY <1>1, <1>2, EmptySeq
<1> HIDE DEF u
<1>6. Last(u) = t[1]
  BY <1>2, <1>3 DEF Last
<1>7. Head(u) = IF s = <<>> THEN t[1] ELSE Head(s)
  BY <1>1, <1>2, <1>4, <1>5, EmptySeq
<1> QED
  BY <1>2, <1>5, <1>6, <1>7 DEF u

\* stf moves the new blocks to the pending ones.
LEMMA PendingStf ==
  ASSUME Typed, PendingInv, Stf, ~Panic
  PROVE  PendingInv'
<1>1. PICK closed \in SUBSET Closable :
        /\ Executes(r.state, r.new.blocks) /\ r' = AfterStf(closed)
        /\ pc' = IF closed = {} THEN "decide" ELSE "send"
  BY DEF Stf, AfterStf, Goes
<1>2. /\ r'.state = After(r.state, r.new) /\ r'.proven_state = r.proven_state
      /\ r'.new = NoInput /\ r'.pending.actions = r.pending.actions
      /\ r'.pending.blocks = r.pending.blocks \o r.new.blocks
  BY <1>1, AfterStfFields
<1>3. pc = "stf" /\ Len(r.new.blocks) = 1 /\ r.new.blocks[1] # <<>>
  BY DEF Stf, PendingInv, RoundInv
<1>4. r \in Locals
  BY DEF Typed
<1>5. r.state \in States /\ r.new \in Inputs
  BY <1>4 DEF Locals
<1>6. /\ r'.state.blocks = r.new.blocks[1]
      /\ r'.state.actions = r.state.actions \o r.new.actions
      /\ Front(r.new.blocks[1]) = r.state.blocks
      /\ Len(r.new.blocks[1]) = Len(r.state.blocks) + 1
  BY <1>1, <1>2, <1>3, <1>5, OneBlock
<1>7. r.pending.blocks \in Seq(Chains) /\ r.new.blocks \in Seq(Chains)
  BY <1>4 DEF Locals, Inputs, Chains
<1>8. /\ Len(r'.pending.blocks) = Len(r.pending.blocks) + 1 /\ r'.pending.blocks # <<>>
      /\ Last(r'.pending.blocks) = r.new.blocks[1]
      /\ Head(r'.pending.blocks) = IF r.pending.blocks = <<>> THEN r.new.blocks[1]
                                                             ELSE Head(r.pending.blocks)
  <2> DEFINE s == r.pending.blocks
             t == r.new.blocks
  <2>1. s \in Seq(Chains) /\ t \in Seq(Chains) /\ Len(t) = 1 /\ r'.pending.blocks = s \o t
    BY <1>2, <1>3, <1>7
  <2> HIDE DEF s, t
  <2>2. /\ Len(s \o t) = Len(s) + 1 /\ s \o t # <<>>
        /\ Last(s \o t) = t[1]
        /\ Head(s \o t) = IF s = <<>> THEN t[1] ELSE Head(s)
    BY <2>1, OneMorePending
  <2> QED
    BY <2>1, <2>2 DEF s, t
<1>9. CASE Unproven(r)
  <2>1. r'.state.actions \o r'.new.actions = r'.proven_state.actions \o r'.pending.actions
    <3>1. r'.state.actions \in Seq(Actions)
      <4>1. r.state.actions \in Seq(Actions) /\ r.new.actions \in Seq(Actions)
        BY <1>5 DEF States, Inputs, Actions
      <4> QED
        BY <1>6, <4>1, ConcatProperties
    <3>2. r'.state.actions \o r'.new.actions = r'.state.actions
      BY <1>2, <3>1, ConcatEmptySeq DEF NoInput
    <3> QED
      BY <1>2, <1>6, <1>9, <3>2 DEF Unproven
  <2>2. Len(r'.state.blocks) = Len(r'.proven_state.blocks) + Len(r'.pending.blocks)
    <3> DEFINE a == r.state.blocks
               b == r.proven_state.blocks
               c == r.pending.blocks
               d == r'.state.blocks
               e == r'.pending.blocks
    <3>1. Len(a) \in Nat /\ Len(b) \in Nat /\ Len(c) \in Nat
      <4>1. a \in Chains /\ b \in Chains /\ c \in Seq(Chains)
        BY <1>4 DEF Locals, States, Inputs, Chains
      <4> QED
        BY <4>1, LenProperties DEF Chains
    <3>2. Len(a) = Len(b) + Len(c)
      BY <1>9 DEF Unproven
    <3>3. Len(d) = Len(a) + 1 /\ Len(e) = Len(c) + 1
      BY <1>6, <1>8
    <3> HIDE DEF a, b, c, d, e
    <3>4. Len(d) = Len(b) + Len(e)
      BY <3>1, <3>2, <3>3
    <3> QED
      BY <1>2, <3>4 DEF b, d, e
  <2>3. Front(Head(r'.pending.blocks)) = r'.proven_state.blocks
    BY <1>2, <1>6, <1>8, <1>9 DEF Unproven
  <2>4. Last(r'.pending.blocks) = r'.state.blocks
    BY <1>6, <1>8
  <2>5. Unproven(r')
    BY <1>8, <2>1, <2>2, <2>3, <2>4 DEF Unproven
  <2> QED
    BY <1>1, <1>2, <2>5 DEF PendingInv, RoundInv, ProgressInv
<1>10. CASE Proven(r)
  <2>1. Proven(r')
    BY <1>2, <1>8, <1>10 DEF Proven
  <2> QED
    BY <1>1, <1>2, <2>1 DEF PendingInv, RoundInv, ProgressInv
<1> QED
  BY <1>9, <1>10 DEF PendingInv, ProgressInv

\* Nothing is pending before the first block, and Prove finds at least one.
LEMMA PendingProve ==
  ASSUME Typed, PendingInv, Prove, ~Panic, ~CallFails
  PROVE  PendingInv'
<1>1. CASE Goes("poll", r)
  BY <1>1, PendingSame DEF Prove, Goes
<1>2. CASE ~Goes("poll", r)
  <2>1. /\ pc = "decide" /\ pc' = "submit" /\ Executes(r.proven_state, r.pending.blocks)
        /\ r' = [r EXCEPT !.total_closed_orders = 0]
    BY <1>2 DEF Prove, Goes
  <2>2. /\ r'.state = r.state /\ r'.proven_state = r.proven_state
        /\ r'.new = r.new /\ r'.pending = r.pending
    BY <2>1 DEF Typed, Locals
  <2>3. r \in Locals
    BY DEF Typed
  <2>4. r.proven_state \in States /\ r.pending.blocks \in Seq(Chains)
    BY <2>3 DEF Locals, Inputs, Chains
  <2>5. Len(r.pending.blocks) # 0 /\ Front(r.pending.blocks[1]) = r.proven_state.blocks
    BY <2>1, <2>4, ExecutesSome
  <2>6. r.pending.blocks # <<>>
    BY <2>5, EmptySeq
  <2>7. ~Proven(r)
    <3>1. Head(r.pending.blocks) = r.pending.blocks[1]
      BY <2>4, <2>6
    <3>2. Len(r.proven_state.blocks) \in Nat
      BY <2>4, LenProperties DEF States
    <3> QED
      BY <2>5, <3>1, <3>2 DEF Proven
  <2>8. Unproven(r)
    BY <2>7 DEF PendingInv, ProgressInv
  <2> QED
    BY <2>1, <2>2, <2>6, <2>8, PendingSame
<1> QED
  BY <1>1, <1>2

\* Once a proof is sent, what is pending begins before proven_state.
LEMMA PendingSubmit ==
  ASSUME Typed, PendingInv, Sends
  PROVE  PendingInv'
<1>1. /\ pc = "submit" /\ pc' = "backup" /\ r' = [r EXCEPT !.proven_state = r.state]
  BY DEF Sends, Goes
<1>2. r'.proven_state = r.state /\ r'.pending = r.pending /\ r'.new = r.new
  BY <1>1 DEF Typed, Locals
<1>3. Unproven(r) /\ r.pending.blocks # <<>>
  BY <1>1 DEF PendingInv, ProgressInv
<1>4. /\ Len(r.proven_state.blocks) \in Nat /\ Len(r.pending.blocks) \in Nat \ {0}
  <2>1. r \in Locals
    BY DEF Typed
  <2>2. r.proven_state.blocks \in Chains /\ r.pending.blocks \in Seq(Chains)
    BY <2>1 DEF Locals, States, Inputs, Chains
  <2> QED
    BY <1>3, <2>2, EmptySeq, LenProperties DEF Chains
<1>5. /\ Front(Head(r.pending.blocks)) = r.proven_state.blocks
      /\ Len(r.state.blocks) = Len(r.proven_state.blocks) + Len(r.pending.blocks)
  BY <1>3 DEF Unproven
<1>6. Len(Front(Head(r.pending.blocks))) < Len(r.state.blocks)
  <2> DEFINE a == r.state.blocks
             b == r.proven_state.blocks
             c == r.pending.blocks
  <2>1. Len(b) \in Nat /\ Len(c) \in Nat \ {0} /\ Len(a) = Len(b) + Len(c)
    BY <1>4, <1>5
  <2> HIDE DEF a, b, c
  <2>2. Len(b) < Len(a)
    BY <2>1
  <2> QED
    BY <1>5, <2>2 DEF a, b
<1>7. Proven(r')
  BY <1>2, <1>3, <1>6 DEF Proven
<1>8. RoundInv'
  BY <1>1, <1>2 DEF PendingInv, RoundInv
<1> QED
  BY <1>1, <1>7, <1>8 DEF PendingInv, ProgressInv

\* Nothing is pending at the start.
LEMMA PendingInit == Init => PendingInv
<1> SUFFICES ASSUME Init PROVE PendingInv
  OBVIOUS
<1>1. r = Begun(GenesisState) /\ pc = "new"
  BY DEF Init
<1> QED
  BY <1>1, BegunUnproven, StateTypes DEF PendingInv, RoundInv, ProgressInv

\* The main loop keeps what is pending in line with the state.
LEMMA PendingMain == Typed /\ PendingInv /\ Main => PendingInv'
<1> SUFFICES ASSUME Typed, PendingInv, Main PROVE PendingInv'
  OBVIOUS
<1>1. CASE Panic \/ Fail
  BY <1>1, PendingBegun, StateTypes DEF Panic, Fail, Goes
<1>2. CASE New /\ ~Panic
  <2>1. r' = Begun(backup) /\ pc' = "poll" /\ backup \in States
    BY <1>2 DEF New, Typed
  <2> QED
    BY <2>1, PendingBegun
<1>3. CASE Poll /\ ~Fail
  BY <1>3, PendingSame DEF Poll, Goes, CallFails
<1>4. CASE Fetch /\ ~Panic /\ ~Fail
  BY <1>4, PendingFetch DEF CallFails
<1>5. CASE Drain
  <2>1. CASE Drains
    BY <2>1, PendingDrain
  <2>2. CASE ~Drains
    <3>1. pc = "drain" /\ pc' = "stf" /\ r' = r
      BY <1>5, <2>2 DEF Drain, Drains, Goes
    <3> QED
      BY <3>1 DEF PendingInv, RoundInv, ProgressInv
  <2> QED
    BY <2>1, <2>2
<1>6. CASE Stf /\ ~Panic
  BY <1>6, PendingStf
<1>7. CASE Send /\ ~Fail
  <2>1. pc = "send" /\ pc' = "decide" /\ r' = [r EXCEPT !.closed = {}]
    BY <1>7 DEF Send, Goes, CallFails
  <2>2. /\ r'.state = r.state /\ r'.proven_state = r.proven_state
        /\ r'.new = r.new /\ r'.pending = r.pending
    BY <2>1 DEF Typed, Locals
  <2> QED
    BY <2>1, <2>2, PendingSame
<1>8. CASE Prove /\ ~Panic /\ ~Fail
  BY <1>8, PendingProve DEF CallFails
<1>9. CASE Submit /\ ~Fail
  BY <1>9, PendingSubmit DEF Submit, NotSent, CallFails, Sends
<1>10. CASE Backup /\ ~Fail
  BY <1>10, PendingSame DEF Backup, Goes
<1> QED
  BY <1>1, <1>2, <1>3, <1>4, <1>5, <1>6, <1>7, <1>8, <1>9, <1>10 DEF Main, New, CallFails

\* Every step keeps what is pending in line with the state.
LEMMA PendingNext == Typed /\ PendingInv /\ [Next]_vars => PendingInv'
<1> SUFFICES ASSUME Typed, PendingInv, [Next]_vars PROVE PendingInv'
  OBVIOUS
<1>1. CASE Main
  BY <1>1, PendingMain
<1>2. CASE UNCHANGED <<pc, r>>
  BY <1>2 DEF PendingInv, RoundInv, ProgressInv
<1>3. CASE \/ World \/ Listener \/ \E i \in orphans : OrphanEnds(i)
           \/ \E i \in 1..MaxRuns : Fulfiller(i)
  BY <1>2, <1>3 DEF World, Announce, ProduceBlock, Reorganize, Listener, Subscribe, Hear, Hangup,
     Listens, OrphanEnds, Fulfiller, Recv, Quote, Fulfill, Ends, Moves
<1>4. CASE UNCHANGED vars
  BY <1>2, <1>4 DEF vars
<1> QED
  BY <1>1, <1>3, <1>4 DEF Next

\* Only Submit adds a proof, and it is about what the run went through.
LEMMA SubmittedProof ==
  ASSUME Typed, PendingInv, ProofOfWhatWasRun, Sends
  PROVE  ProofOfWhatWasRun'
<1> DEFINE p == [old |-> r.proven_state, input |-> r.pending, new |-> r.state]
<1>1. proofs' = proofs \cup {p} /\ pc = "submit"
  BY DEF Sends
<1>2. Unproven(r) /\ r.pending.blocks # <<>> /\ r.new = NoInput
  BY <1>1 DEF PendingInv, RoundInv, ProgressInv
<1>3. r \in Locals
  BY DEF Typed
<1>4. r.state.actions = r.proven_state.actions \o r.pending.actions
  <2>1. r.state.actions \in Seq(Actions)
    BY <1>3 DEF Locals, States, Actions
  <2>2. r.state.actions \o r.new.actions = r.state.actions
    BY <1>2, <2>1, ConcatEmptySeq DEF NoInput
  <2> QED
    BY <1>2, <2>2 DEF Unproven
<1>5. Len(r.pending.blocks) = Len(r.state.blocks) - Len(r.proven_state.blocks)
  <2>1. /\ r.proven_state.blocks \in Chains /\ r.state.blocks \in Chains
        /\ r.pending.blocks \in Seq(Chains)
    BY <1>3 DEF Locals, States, Inputs, Chains
  <2>2. /\ Len(r.proven_state.blocks) \in Nat /\ Len(r.state.blocks) \in Nat
        /\ Len(r.pending.blocks) \in Nat
    BY <2>1, LenProperties DEF Chains
  <2> QED
    BY <1>2, <2>2 DEF Unproven
<1>6. p.old = r.proven_state /\ p.input = r.pending /\ p.new = r.state
  OBVIOUS
<1> HIDE DEF p
<1> QED
  BY <1>1, <1>2, <1>4, <1>5, <1>6 DEF ProofOfWhatWasRun, Unproven

\* Every proof that is made is of what was run.
LEMMA ProofsNext == Typed /\ PendingInv /\ ProofOfWhatWasRun /\ [Next]_vars => ProofOfWhatWasRun'
<1> SUFFICES ASSUME Typed, PendingInv, ProofOfWhatWasRun, [Next]_vars PROVE ProofOfWhatWasRun'
  OBVIOUS
<1>1. CASE Sends
  BY <1>1, SubmittedProof
<1>2. CASE proofs' = proofs
  BY <1>2 DEF ProofOfWhatWasRun
<1>3. CASE Starts \/ StaysProven \/ Panic \/ CallFails \/ Backup
  BY <1>2, <1>3 DEF Starts, StaysProven, Panic, CallFails, Fail, Backup, disk
<1>4. CASE \/ World \/ Listener \/ \E i \in orphans : OrphanEnds(i)
           \/ \E i \in 1..MaxRuns : Fulfiller(i)
  BY <1>2, <1>4 DEF World, Announce, ProduceBlock, Reorganize, Listener, Subscribe, Hear, Hangup,
     Listens, OrphanEnds, Fulfiller, Recv, Quote, Fulfill, Ends, Moves, disk
<1>5. CASE UNCHANGED vars
  BY <1>2, <1>5 DEF vars, disk
<1> QED
  BY <1>1, <1>3, <1>4, <1>5, ProofCases DEF Next

\* Though pending_actions and pending_blocks are never emptied, every proof that is
\* sent takes its old state to its new one, by its input and nothing else: a
\* second proof of the same run would begin before its old state, and is never made.
THEOREM ProofsAreOfWhatWasRun == Spec => []ProofOfWhatWasRun
<1>1. Spec => []Typed
  BY TypedInit, TypedNext, PTL DEF Spec
<1>2. Spec => []PendingInv
  BY <1>1, PendingInit, PendingNext, PTL DEF Spec
<1>3. Init => ProofOfWhatWasRun
  BY DEF Init, ProofOfWhatWasRun
<1> QED
  BY <1>1, <1>2, <1>3, ProofsNext, PTL DEF Spec

-----------------------------------------------------------------------------
(* The orders of the fulfillers. *)

\* The elements of two sequences in a row are those of both.
LEMMA ToSetConcat ==
  ASSUME NEW S, NEW s \in Seq(S), NEW t \in Seq(S)
  PROVE  ToSet(s \o t) = ToSet(s) \cup ToSet(t)
<1> DEFINE u == s \o t
<1>1. /\ Len(s) \in Nat /\ Len(t) \in Nat /\ DOMAIN s = 1..Len(s) /\ DOMAIN t = 1..Len(t)
  BY LenProperties
<1>2. /\ u \in Seq(S) /\ Len(u) = Len(s) + Len(t)
      /\ \A i \in 1..Len(s) + Len(t) : u[i] = IF i <= Len(s) THEN s[i] ELSE t[i - Len(s)]
  BY ConcatProperties
<1>3. DOMAIN u = 1..Len(s) + Len(t)
  BY <1>2, LenProperties
<1> HIDE DEF u
<1>4. ASSUME NEW e \in ToSet(u) PROVE e \in ToSet(s) \cup ToSet(t)
  <2>1. PICK i \in 1..Len(s) + Len(t) : e = u[i]
    BY <1>3, <1>4 DEF ToSet
  <2>2. CASE i <= Len(s)
    <3>1. i \in DOMAIN s /\ e = s[i]
      BY <1>1, <1>2, <2>1, <2>2
    <3> QED
      BY <3>1 DEF ToSet
  <2>3. CASE ~(i <= Len(s))
    <3>1. i - Len(s) \in DOMAIN t /\ e = t[i - Len(s)]
      BY <1>1, <1>2, <2>1, <2>3
    <3> QED
      BY <3>1 DEF ToSet
  <2> QED
    BY <2>2, <2>3
<1>5. ASSUME NEW e \in ToSet(s) PROVE e \in ToSet(u)
  <2>1. PICK i \in 1..Len(s) : e = s[i]
    BY <1>1, <1>5 DEF ToSet
  <2>2. i \in DOMAIN u /\ u[i] = e
    BY <1>1, <1>2, <1>3, <2>1
  <2> QED
    BY <2>2 DEF ToSet
<1>6. ASSUME NEW e \in ToSet(t) PROVE e \in ToSet(u)
  <2>1. PICK i \in 1..Len(t) : e = t[i]
    BY <1>1, <1>6 DEF ToSet
  <2>2. i + Len(s) \in DOMAIN u /\ u[i + Len(s)] = e
    <3>1. i + Len(s) \in 1..Len(s) + Len(t) /\ ~(i + Len(s) <= Len(s)) /\ (i + Len(s)) - Len(s) = i
      BY <1>1, <2>1
    <3> QED
      BY <1>2, <1>3, <2>1, <3>1
  <2> QED
    BY <2>2 DEF ToSet
<1> QED
  BY <1>4, <1>5, <1>6 DEF u

\* Two sequences that repeat nothing and share nothing, one after the other.
LEMMA InjectiveConcat ==
  ASSUME NEW S, NEW s \in Seq(S), NEW t \in Seq(S)
  PROVE  IsInjective(s \o t)
           <=> IsInjective(s) /\ IsInjective(t) /\ ToSet(s) \cap ToSet(t) = {}
<1> DEFINE u == s \o t
<1>1. /\ Len(s) \in Nat /\ Len(t) \in Nat /\ DOMAIN s = 1..Len(s) /\ DOMAIN t = 1..Len(t)
  BY LenProperties
<1>2. /\ u \in Seq(S) /\ Len(u) = Len(s) + Len(t)
      /\ \A i \in 1..Len(s) + Len(t) : u[i] = IF i <= Len(s) THEN s[i] ELSE t[i - Len(s)]
  BY ConcatProperties
<1>3. DOMAIN u = 1..Len(s) + Len(t)
  BY <1>2, LenProperties
<1>4. \A i \in 1..Len(s) : i \in DOMAIN u /\ u[i] = s[i]
  BY <1>1, <1>2, <1>3
<1>5. \A i \in 1..Len(t) : i + Len(s) \in DOMAIN u /\ u[i + Len(s)] = t[i]
  BY <1>1, <1>2, <1>3
<1> HIDE DEF u
<1>6. ASSUME IsInjective(u)
      PROVE  IsInjective(s) /\ IsInjective(t) /\ ToSet(s) \cap ToSet(t) = {}
  <2>1. IsInjective(s)
    BY <1>1, <1>4, <1>6 DEF IsInjective
  <2>2. ASSUME NEW i \in 1..Len(t), NEW j \in 1..Len(t), t[i] = t[j] PROVE i = j
    <3>1. i + Len(s) = j + Len(s)
      BY <1>5, <1>6, <2>2 DEF IsInjective
    <3> QED
      BY <1>1, <3>1
  <2>3. ASSUME NEW i \in 1..Len(s), NEW j \in 1..Len(t), s[i] = t[j] PROVE FALSE
    <3>1. i = j + Len(s)
      BY <1>4, <1>5, <1>6, <2>3 DEF IsInjective
    <3> QED
      BY <1>1, <3>1
  <2> QED
    BY <1>1, <2>1, <2>2, <2>3 DEF IsInjective, ToSet
<1>7. ASSUME IsInjective(s), IsInjective(t), ToSet(s) \cap ToSet(t) = {}
      PROVE  IsInjective(u)
  <2> SUFFICES ASSUME NEW i \in DOMAIN u, NEW j \in DOMAIN u, u[i] = u[j] PROVE i = j
    BY DEF IsInjective
  <2>1. i \in 1..Len(s) + Len(t) /\ j \in 1..Len(s) + Len(t)
    BY <1>3
  <2>2. ASSUME NEW k \in 1..Len(s) + Len(t)
        PROVE  IF k <= Len(s) THEN k \in DOMAIN s /\ u[k] = s[k]
                              ELSE k - Len(s) \in DOMAIN t /\ u[k] = t[k - Len(s)]
    BY <1>1, <1>2
  <2>3. \A k \in DOMAIN s, m \in DOMAIN t : s[k] # t[m]
    BY <1>7 DEF ToSet
  <2>4. CASE i <= Len(s) /\ j <= Len(s)
    BY <1>7, <2>1, <2>2, <2>4 DEF IsInjective
  <2>5. CASE ~(i <= Len(s)) /\ ~(j <= Len(s))
    <3>1. i - Len(s) = j - Len(s)
      BY <1>7, <2>1, <2>2, <2>5 DEF IsInjective
    <3> QED
      BY <1>1, <2>1, <3>1
  <2>6. CASE i <= Len(s) /\ ~(j <= Len(s))
    BY <2>1, <2>2, <2>3, <2>6
  <2>7. CASE ~(i <= Len(s)) /\ j <= Len(s)
    BY <2>1, <2>2, <2>3, <2>7
  <2> QED
    BY <2>4, <2>5, <2>6, <2>7
<1> QED
  BY <1>6, <1>7 DEF u

\* A sequence of one element.
LEMMA OneElement == \A e : ToSet(<<e>>) = {e} /\ IsInjective(<<e>>)
BY DEF ToSet, IsInjective

\* A sequence of no element.
LEMMA NoElement == ToSet(<<>>) = {} /\ IsInjective(<<>>)
BY DEF ToSet, IsInjective

\* A sequence that repeats nothing, without its last element.
LEMMA InjectiveFront ==
  ASSUME NEW S, NEW s \in Seq(S), s # <<>>, IsInjective(s)
  PROVE  /\ IsInjective(Front(s)) /\ Last(s) \notin ToSet(Front(s))
         /\ ToSet(s) = ToSet(Front(s)) \cup {Last(s)}
<1> DEFINE n == Len(s)
<1>1. /\ Front(s) \in Seq(S) /\ n \in Nat \ {0} /\ Len(Front(s)) = n - 1
      /\ \A i \in 1..n - 1 : Front(s)[i] = s[i]
  BY FrontAndLast
<1>2. DOMAIN Front(s) = 1..n - 1 /\ DOMAIN s = 1..n
  BY <1>1, LenProperties
<1>3. Last(s) = s[n]
  BY DEF Last
<1> HIDE DEF n
<1>4. IsInjective(Front(s))
  BY <1>1, <1>2 DEF IsInjective
<1>5. Last(s) \notin ToSet(Front(s))
  <2>1. ASSUME NEW i \in 1..n - 1 PROVE s[i] # s[n]
    <3>1. i \in 1..n /\ n \in 1..n /\ i # n
      BY <1>1
    <3> QED
      BY <1>2, <3>1 DEF IsInjective
  <2> QED
    BY <1>1, <1>2, <1>3, <2>1 DEF ToSet
<1>6. ToSet(s) = ToSet(Front(s)) \cup {Last(s)}
  <2>1. \A i \in 1..n : i = n \/ i \in 1..n - 1
    BY <1>1
  <2>2. n \in 1..n /\ \A i \in 1..n - 1 : i \in 1..n
    BY <1>1
  <2> QED
    BY <1>1, <1>2, <1>3, <2>1, <2>2 DEF ToSet
<1> QED
  BY <1>4, <1>5, <1>6

\* Holds, part by part.
LEMMA HeldParts ==
  ASSUME NEW f \in Fulfillers
  PROVE  Holds(f) <=> /\ ToSet(f.buffer) \cup ToSet(f.ngmi) = f.owed
                     /\ IsInjective(f.buffer) /\ IsInjective(f.ngmi)
                     /\ ToSet(f.buffer) \cap ToSet(f.ngmi) = {}
<1>1. f.buffer \in Seq(Actions) /\ f.ngmi \in Seq(Actions)
  BY DEF Fulfillers
<1>2. ToSet(f.buffer \o f.ngmi) = ToSet(f.buffer) \cup ToSet(f.ngmi)
  BY <1>1, ToSetConcat
<1>3. IsInjective(f.buffer \o f.ngmi)
        <=> /\ IsInjective(f.buffer) /\ IsInjective(f.ngmi)
            /\ ToSet(f.buffer) \cap ToSet(f.ngmi) = {}
  BY <1>1, InjectiveConcat
<1> QED
  BY <1>2, <1>3 DEF Holds

\* The order that is left out changes hands within the fulfiller.
LEMMA HeldWithoutLast ==
  ASSUME NEW f \in Fulfillers, Holds(f), f.buffer # <<>>
  PROVE  Holds(WithoutLast(f))
<1> DEFINE g == WithoutLast(f)
           e == Last(f.buffer)
<1>1. f.buffer \in Seq(Actions) /\ f.ngmi \in Seq(Actions)
  BY DEF Fulfillers
<1>2. g \in Fulfillers /\ g.buffer = Front(f.buffer) /\ g.ngmi = Append(f.ngmi, e) /\ g.owed = f.owed
  BY WithoutLastType DEF WithoutLast, Fulfillers
<1>3. e \in Actions /\ <<e>> \in Seq(Actions)
  BY <1>1, FrontAndLast
<1>4. /\ ToSet(f.buffer) \cup ToSet(f.ngmi) = f.owed
      /\ IsInjective(f.buffer) /\ IsInjective(f.ngmi)
      /\ ToSet(f.buffer) \cap ToSet(f.ngmi) = {}
  BY HeldParts
<1>5. /\ IsInjective(Front(f.buffer)) /\ e \notin ToSet(Front(f.buffer))
      /\ ToSet(f.buffer) = ToSet(Front(f.buffer)) \cup {e}
  BY <1>1, <1>4, InjectiveFront
<1> HIDE DEF e
<1> DEFINE t == <<e>>
<1>6. /\ Append(f.ngmi, e) = f.ngmi \o t
      /\ t \in Seq(Actions) /\ ToSet(t) = {e} /\ IsInjective(t)
  BY <1>1, <1>3, AppendIsConcat, OneElement
<1> HIDE DEF t
<1>7. ToSet(f.ngmi \o t) = ToSet(f.ngmi) \cup {e}
  BY <1>1, <1>6, ToSetConcat
<1>8. IsInjective(f.ngmi \o t)
  BY <1>1, <1>4, <1>5, <1>6, InjectiveConcat
<1> HIDE DEF g
<1>9. ToSet(g.ngmi) = ToSet(f.ngmi) \cup {e} /\ IsInjective(g.ngmi)
  BY <1>2, <1>6, <1>7, <1>8
<1>10. /\ ToSet(g.buffer) \cup ToSet(g.ngmi) = g.owed /\ IsInjective(g.buffer)
       /\ ToSet(g.buffer) \cap ToSet(g.ngmi) = {}
  BY <1>2, <1>4, <1>5, <1>9
<1>11. Holds(g)
  BY <1>2, <1>9, <1>10, HeldParts
<1> QED
  BY <1>11 DEF g

\* The orders left out are the next buffer, when the buffer is dealt with.
LEMMA HeldAgain ==
  ASSUME NEW f \in Fulfillers, IsInjective(f.ngmi), ToSet(f.ngmi) = f.owed
  PROVE  Holds(Again(f))
<1> DEFINE g == Again(f)
<1>1. g \in Fulfillers /\ g.buffer = f.ngmi /\ g.ngmi = <<>> /\ g.owed = f.owed
  BY AgainType DEF Again, Fulfillers
<1> HIDE DEF g
<1>2. Holds(g)
  BY <1>1, HeldParts, NoElement
<1> QED
  BY <1>2 DEF g

\* A batch is taken whole, and none of it is owed yet.
LEMMA HeldTaking ==
  ASSUME NEW f \in Fulfillers, Holds(f), Disjoint(f), f.inbox # <<>>
  PROVE  Holds(Taking(f))
<1> DEFINE g == Taking(f)
<1>1. /\ f.buffer \in Seq(Actions) /\ f.inbox \in Seq(SUBSET Actions) /\ Kept(f) \in Seq(Actions)
  BY KeptProperties DEF Fulfillers
<1>2. /\ g \in Fulfillers /\ g.buffer = f.buffer \o Kept(f) /\ g.ngmi = f.ngmi
      /\ g.owed = f.owed \cup ToSet(Kept(f))
  BY TakingType
<1>3. /\ ToSet(f.buffer) \cup ToSet(f.ngmi) = f.owed
      /\ IsInjective(f.buffer) /\ IsInjective(f.ngmi)
      /\ ToSet(f.buffer) \cap ToSet(f.ngmi) = {}
  BY HeldParts
<1>4. ToSet(Kept(f)) \cap f.owed = {} /\ IsInjective(Kept(f))
  <2>1. 1 \in DOMAIN f.inbox /\ Head(f.inbox) = f.inbox[1]
    BY <1>1, EmptySeq, LenProperties
  <2> QED
    BY <2>1, KeptProperties DEF Disjoint
<1>5. ToSet(f.buffer \o Kept(f)) = ToSet(f.buffer) \cup ToSet(Kept(f))
  BY <1>1, ToSetConcat
<1>6. ToSet(f.buffer) \cap ToSet(Kept(f)) = {}
  BY <1>3, <1>4
<1>7. IsInjective(f.buffer \o Kept(f))
  BY <1>1, <1>3, <1>4, <1>6, InjectiveConcat
<1> HIDE DEF g
<1>8. Holds(g)
  BY <1>2, <1>3, <1>4, <1>5, <1>7, HeldParts
<1> QED
  BY <1>8 DEF g

\* The batches that are left are the ones that were there, less the first.
LEMMA TailBatches ==
  ASSUME NEW s \in Seq(SUBSET Actions), s # <<>>
  PROVE  /\ \A j \in DOMAIN Tail(s) : j + 1 \in DOMAIN s /\ Tail(s)[j] = s[j + 1] /\ j + 1 # 1
         /\ 1 \in DOMAIN s /\ Head(s) = s[1]
<1>1. /\ Len(s) \in Nat \ {0} /\ Tail(s) \in Seq(SUBSET Actions) /\ Len(Tail(s)) = Len(s) - 1
      /\ \A j \in 1..Len(Tail(s)) : Tail(s)[j] = s[j + 1]
  BY EmptySeq, HeadTailProperties
<1>2. DOMAIN Tail(s) = 1..Len(s) - 1 /\ DOMAIN s = 1..Len(s)
  BY <1>1, LenProperties
<1> QED
  BY <1>1, <1>2

\* Taking a batch keeps the others apart from it and from each other.
LEMMA DisjointTaking ==
  ASSUME NEW f \in Fulfillers, Disjoint(f), f.inbox # <<>>
  PROVE  /\ Disjoint(Taking(f))
         /\ \A v : Told(f, v) => Told(Taking(f), v)
<1> DEFINE g == Taking(f)
<1>1. f.inbox \in Seq(SUBSET Actions)
  BY DEF Fulfillers
<1>2. g.inbox = Tail(f.inbox) /\ g.owed = f.owed \cup (Head(f.inbox) \cap Exact)
  BY TakingType, KeptProperties
<1>3. /\ \A j \in DOMAIN Tail(f.inbox) :
           j \in Nat /\ j + 1 \in DOMAIN f.inbox /\ Tail(f.inbox)[j] = f.inbox[j + 1] /\ j + 1 # 1
      /\ 1 \in DOMAIN f.inbox /\ Head(f.inbox) = f.inbox[1]
  <2>1. Tail(f.inbox) \in Seq(SUBSET Actions)
    BY <1>1, HeadTailProperties
  <2>2. \A j \in DOMAIN Tail(f.inbox) : j \in Nat
    BY <2>1, LenProperties
  <2> QED
    BY <1>1, <2>2, TailBatches
<1> HIDE DEF g
<1>4. ASSUME NEW j \in DOMAIN g.inbox
      PROVE  g.inbox[j] \cap g.owed = {}
  <2>1. j + 1 \in DOMAIN f.inbox /\ g.inbox[j] = f.inbox[j + 1] /\ j + 1 # 1
    BY <1>2, <1>3
  <2>2. f.inbox[j + 1] \cap f.owed = {} /\ f.inbox[j + 1] \cap f.inbox[1] = {}
    BY <1>3, <2>1 DEF Disjoint
  <2> QED
    BY <1>2, <1>3, <2>1, <2>2
<1>5. ASSUME NEW j \in DOMAIN g.inbox, NEW k \in DOMAIN g.inbox, j # k
      PROVE  g.inbox[j] \cap g.inbox[k] = {}
  <2>1. /\ j + 1 \in DOMAIN f.inbox /\ g.inbox[j] = f.inbox[j + 1]
        /\ k + 1 \in DOMAIN f.inbox /\ g.inbox[k] = f.inbox[k + 1]
    BY <1>2, <1>3
  <2>2. j + 1 # k + 1
    BY <1>2, <1>3, <1>5
  <2> QED
    BY <2>1, <2>2 DEF Disjoint
<1>6. ASSUME NEW v, Told(f, v) PROVE Told(g, v)
  <2>1. \A j \in DOMAIN f.inbox : f.inbox[j] \subseteq v.told /\ f.inbox[j] \cap v.closed = {}
    BY <1>6 DEF Told
  <2>2. ASSUME NEW j \in DOMAIN g.inbox
        PROVE  g.inbox[j] \subseteq v.told /\ g.inbox[j] \cap v.closed = {}
    <3>1. j + 1 \in DOMAIN f.inbox /\ g.inbox[j] = f.inbox[j + 1]
      BY <1>2, <1>3
    <3> QED
      BY <2>1, <3>1
  <2>3. g.owed \subseteq v.told /\ v.closed \subseteq v.told /\ v.closed \cap g.owed = {}
    BY <1>2, <1>3, <1>6, <2>1 DEF Told
  <2> QED
    BY <2>2, <2>3 DEF Told
<1> QED
  BY <1>4, <1>5, <1>6 DEF Disjoint, g

\* A fulfiller that holds nothing.
LEMMA Empty ==
  ASSUME NEW f \in Fulfillers, f.inbox = <<>>, f.buffer = <<>>, f.ngmi = <<>>, f.owed = {}
  PROVE  /\ Held(f) /\ Disjoint(f)
         /\ \A v : v.closed \subseteq v.told => Told(f, v)
<1>1. DOMAIN <<>> = {}
  OBVIOUS
<1> QED
  BY <1>1, HeldParts, NoElement DEF Held, Disjoint, Told

\* What counts for the orders of a fulfiller.
LEMMA SameOrders ==
  ASSUME NEW f, NEW g, g.inbox = f.inbox, g.buffer = f.buffer, g.ngmi = f.ngmi, g.owed = f.owed
  PROVE  /\ Holds(f) => Holds(g)
         /\ Disjoint(f) => Disjoint(g)
         /\ \A v : Told(f, v) => Told(g, v)
BY DEF Holds, Disjoint, Told

\* A fulfiller that owes fewer orders than before.
LEMMA FewerOwed ==
  ASSUME NEW f, NEW g, g.inbox = f.inbox, g.owed \subseteq f.owed
  PROVE  /\ Disjoint(f) => Disjoint(g)
         /\ \A v : Told(f, v) => Told(g, v)
BY DEF Disjoint, Told

\* The orders of a fulfiller through one step of its own.
LEMMA FulfillerOrders ==
  ASSUME Typed, NEW i \in 1..MaxRuns, Fulfiller(i), Held(fulfiller[i]), Disjoint(fulfiller[i])
  PROVE  \E g : /\ Moves(i, g) /\ Held(g) /\ Disjoint(g)
                /\ \A v : Told(fulfiller[i], v) => Told(g, v)
<1> DEFINE f == fulfiller[i]
<1>1. f \in Fulfillers /\ Holds(f)
  BY DEF Typed, Fulfiller, Recv, Quote, Fulfill, Held
<1>2. CASE Ends(i)
  <2> DEFINE g == [NoFulfiller EXCEPT !.at = "ended", !.open = f.open, !.owed = f.owed]
  <2>1. Moves(i, g)
    BY <1>2 DEF Ends
  <2>2. g.at = "ended" /\ g.inbox = <<>> /\ g.owed = f.owed
    BY DEF NoFulfiller
  <2>3. DOMAIN <<>> = {}
    OBVIOUS
  <2> HIDE DEF g
  <2>4. Held(g) /\ Disjoint(g) /\ \A v : Told(f, v) => Told(g, v)
    BY <2>2, <2>3 DEF Held, Disjoint, Told
  <2> QED
    BY <2>1, <2>4
<1>3. CASE Recv(i) /\ ~Ends(i)
  <2>1. f.inbox # <<>> /\ Moves(i, Taking(f))
    BY <1>3 DEF Recv, Taking, Kept
  <2> QED
    BY <1>1, <2>1, HeldTaking, DisjointTaking DEF Held
<1>4. CASE Quote(i) /\ ~Ends(i)
  <2>1. CASE Moves(i, [f EXCEPT !.at = "fulfill"])
    <3> DEFINE g == [f EXCEPT !.at = "fulfill"]
    <3>1. g.inbox = f.inbox /\ g.buffer = f.buffer /\ g.ngmi = f.ngmi /\ g.owed = f.owed
      BY <1>1 DEF Fulfillers
    <3> HIDE DEF g
    <3>2. Held(g) /\ Disjoint(g) /\ \A v : Told(f, v) => Told(g, v)
      BY <1>1, <3>1, SameOrders DEF Held
    <3> QED
      BY <2>1, <3>2 DEF g
  <2>2. CASE f.buffer # <<>> /\ Moves(i, WithoutLast(f))
    <3>1. WithoutLast(f).inbox = f.inbox /\ WithoutLast(f).owed = f.owed
      BY <1>1 DEF WithoutLast, Fulfillers
    <3> QED
      BY <1>1, <2>2, <3>1, HeldWithoutLast, FewerOwed DEF Held
  <2>3. CASE f.buffer = <<>> /\ Moves(i, Again(f))
    <3>1. Again(f).inbox = f.inbox /\ Again(f).owed = f.owed
      BY <1>1 DEF Again, Fulfillers
    <3>2. IsInjective(f.ngmi) /\ ToSet(f.ngmi) = f.owed
      BY <1>1, <2>3, HeldParts, NoElement
    <3> QED
      BY <1>1, <2>3, <3>1, <3>2, HeldAgain, FewerOwed DEF Held
  <2> QED
    BY <1>4, <2>1, <2>2, <2>3 DEF Quote
<1>5. CASE Fulfill(i) /\ ~Ends(i)
  <2> DEFINE h == [f EXCEPT !.owed = @ \ ToSet(f.buffer)]
  <2>1. Moves(i, Again(h))
    BY <1>5 DEF Fulfill
  <2>2. h \in Fulfillers /\ h.inbox = f.inbox /\ h.ngmi = f.ngmi /\ h.owed = f.owed \ ToSet(f.buffer)
    BY <1>1 DEF Fulfillers
  <2> HIDE DEF h
  <2>3. IsInjective(h.ngmi) /\ ToSet(h.ngmi) = h.owed
    BY <1>1, <2>2, HeldParts
  <2>4. Again(h).inbox = f.inbox /\ Again(h).owed \subseteq f.owed
    BY <2>2 DEF Again, Fulfillers
  <2>5. Held(Again(h))
    BY <2>2, <2>3, HeldAgain DEF Held
  <2>6. Disjoint(Again(h)) /\ \A v : Told(f, v) => Told(Again(h), v)
    <3> DEFINE g == Again(h)
    <3>1. g.inbox = f.inbox /\ g.owed \subseteq f.owed
      BY <2>4
    <3> HIDE DEF g
    <3>2. Disjoint(g) /\ \A v : Told(f, v) => Told(g, v)
      BY <3>1, FewerOwed
    <3> QED
      BY <3>2 DEF g
  <2> QED
    BY <2>1, <2>5, <2>6
<1> QED
  BY <1>2, <1>3, <1>4, <1>5 DEF Fulfiller

\* A fulfiller forgets no order of a batch.
LEMMA BatchFulfiller ==
  ASSUME Typed, BatchInv, NEW i \in 1..MaxRuns, Fulfiller(i)
  PROVE  BatchInv'
<1>1. Held(fulfiller[i]) /\ Disjoint(fulfiller[i])
  BY DEF BatchInv
<1>2. PICK g : /\ Moves(i, g) /\ Held(g) /\ Disjoint(g)
               /\ \A v : Told(fulfiller[i], v) => Told(g, v)
  BY <1>1, FulfillerOrders
<1>3. fulfiller' = [fulfiller EXCEPT ![i] = g] /\ UNCHANGED <<pc, run, r>>
  BY <1>2 DEF Moves
<1>4. fulfiller' = [j \in 1..MaxRuns |-> IF j = i THEN g ELSE fulfiller[j]]
  BY <1>3 DEF Typed
<1>5. i <= run
  <2>1. fulfiller[i] # NoFulfiller
    BY DEF Fulfiller, Recv, Quote, Fulfill, NoFulfiller
  <2> QED
    BY <2>1, ParameterTypes DEF BatchInv, Typed
<1>6. ASSUME NEW j \in 1..MaxRuns
      PROVE  Held(fulfiller'[j]) /\ Disjoint(fulfiller'[j])
  BY <1>2, <1>4 DEF BatchInv
<1>7. ASSUME NEW j \in 1..MaxRuns, j > run PROVE fulfiller'[j] = NoFulfiller
  <2>1. j # i
    BY <1>5, <1>7, ParameterTypes DEF Typed
  <2> QED
    BY <1>4, <1>7, <2>1 DEF BatchInv
<1>8. ASSUME Running PROVE Told(fulfiller'[run], r)
  <2>1. run \in 1..MaxRuns /\ Told(fulfiller[run], r)
    BY <1>8, ParameterTypes DEF BatchInv, Typed
  <2>2. CASE run = i
    BY <1>2, <1>4, <2>1, <2>2
  <2>3. CASE run # i
    BY <1>4, <2>1, <2>3
  <2> QED
    BY <2>2, <2>3
<1> QED
  BY <1>3, <1>6, <1>7, <1>8 DEF BatchInv, Running

\* A step of the main loop that tells of no order.
LEMMA BatchSame ==
  ASSUME BatchInv, Running, UNCHANGED <<run, fulfiller>>,
         r'.told = r.told, r'.closed = r.closed
  PROVE  BatchInv'
BY DEF BatchInv, Told

\* A fulfiller that is not there holds nothing.
LEMMA NoFulfillerEmpty ==
  /\ Held(NoFulfiller) /\ Disjoint(NoFulfiller)
  /\ \A v : v.closed \subseteq v.told => Told(NoFulfiller, v)
<1>1. /\ NoFulfiller.inbox = <<>> /\ NoFulfiller.buffer = <<>>
      /\ NoFulfiller.ngmi = <<>> /\ NoFulfiller.owed = {}
  BY DEF NoFulfiller
<1> QED
  BY <1>1, TaskTypes, Empty

\* A panic ends all tasks, so that nobody holds a batch.
LEMMA BatchPanic ==
  ASSUME Typed, Panic
  PROVE  BatchInv'
<1>1. pc' = "halted" /\ fulfiller' = [i \in 1..MaxRuns |-> NoFulfiller]
  BY DEF Panic, Goes
<1>2. \A i \in 1..MaxRuns : fulfiller'[i] = NoFulfiller
  BY <1>1
<1> QED
  BY <1>1, <1>2, NoFulfillerEmpty DEF BatchInv, Running

\* What is in the channel when its sender is dropped stays there.
LEMMA BatchFail ==
  ASSUME Typed, BatchInv, Fail
  PROVE  BatchInv'
<1>1. pc' = "new" /\ run' = run /\ fulfiller' = [fulfiller EXCEPT ![run] = Dropped(fulfiller[run])]
  BY DEF Fail, Goes
<1>2. ASSUME NEW i \in 1..MaxRuns
      PROVE  /\ Held(fulfiller'[i]) /\ Disjoint(fulfiller'[i])
             /\ i > run => fulfiller'[i] = NoFulfiller
  <2>1. fulfiller[i] \in Fulfillers /\ Held(fulfiller[i]) /\ Disjoint(fulfiller[i])
    BY DEF Typed, BatchInv
  <2>2. CASE i = run
    <3> DEFINE f == fulfiller[i]
               g == Dropped(f)
    <3>1. /\ g.at = f.at /\ g.inbox = f.inbox /\ g.buffer = f.buffer /\ g.ngmi = f.ngmi
          /\ g.owed = f.owed
      BY <2>1 DEF Dropped, Fulfillers
    <3>2. fulfiller'[i] = g
      BY <1>1, <2>2 DEF Typed
    <3> HIDE DEF g
    <3>3. Held(g) /\ Disjoint(g)
      BY <2>1, <3>1, SameOrders DEF Held
    <3> QED
      BY <2>2, <3>2, <3>3, ParameterTypes DEF Typed
  <2>3. CASE i # run
    <3>1. fulfiller'[i] = fulfiller[i]
      BY <1>1, <2>3 DEF Typed
    <3> QED
      BY <2>1, <3>1 DEF BatchInv
  <2> QED
    BY <2>2, <2>3
<1> QED
  BY <1>1, <1>2 DEF BatchInv, Running

\* A new run has told no orders, and its fulfiller has none.
LEMMA BatchStarts ==
  ASSUME Typed, BatchInv, Starts
  PROVE  BatchInv'
<1>1. /\ run' = run + 1 /\ pc' = "poll" /\ r' = Begun(backup)
      /\ fulfiller' = [fulfiller EXCEPT ![run'] = Spawned]
      /\ run' \in 1..MaxRuns /\ run \in Nat
  BY ParameterTypes DEF Starts, Typed
<1>2. Spawned.inbox = <<>> /\ Spawned.buffer = <<>> /\ Spawned.ngmi = <<>> /\ Spawned.owed = {}
  BY DEF Spawned, NoFulfiller
<1>3. Spawned \in Fulfillers
  BY TaskTypes DEF Spawned, Fulfillers
<1>4. Held(Spawned) /\ Disjoint(Spawned) /\ Told(Spawned, r')
  <2>1. r'.closed = {} /\ r'.told = {}
    BY <1>1 DEF Begun
  <2> QED
    BY <1>2, <1>3, <2>1, Empty
<1>5. \A i \in 1..MaxRuns : fulfiller'[i] = IF i = run' THEN Spawned ELSE fulfiller[i]
  BY <1>1 DEF Typed
<1>6. ASSUME NEW i \in 1..MaxRuns
      PROVE  /\ Held(fulfiller'[i]) /\ Disjoint(fulfiller'[i])
             /\ i > run' => fulfiller'[i] = NoFulfiller
  BY <1>1, <1>4, <1>5 DEF BatchInv
<1> QED
  BY <1>1, <1>4, <1>5, <1>6 DEF BatchInv

\* What stf closes was not told before: it is in no batch and not owed.
LEMMA BatchStf ==
  ASSUME Typed, BatchInv, Stf, ~Panic
  PROVE  BatchInv'
<1>1. PICK closed \in SUBSET Closable :
        /\ Executes(r.state, r.new.blocks) /\ r' = AfterStf(closed)
        /\ UNCHANGED <<run, fulfiller>>
  BY DEF Stf, AfterStf, Goes, tasks
<1>2. r'.closed = closed /\ r'.told = r.told \cup closed
  BY <1>1, AfterStfFields
<1>3. closed \cap r.told = {}
  BY ClosableType
<1>4. Told(fulfiller[run], r)
  BY DEF BatchInv, Stf, Running
<1>5. Told(fulfiller[run], r')
  BY <1>2, <1>3, <1>4 DEF Told
<1> QED
  BY <1>1, <1>5 DEF BatchInv

\* A batch joins the channel at the end.
LEMMA BatchSend ==
  ASSUME Typed, BatchInv, Send, ~CallFails
  PROVE  BatchInv'
<1> DEFINE f == fulfiller[run]
           s == f.inbox
           g == [f EXCEPT !.inbox = Append(@, r.closed)]
<1>1. /\ r' = [r EXCEPT !.closed = {}] /\ run' = run /\ Running
      /\ fulfiller' = [fulfiller EXCEPT ![run].inbox = Append(@, r.closed)]
  BY DEF Send, Goes, Running
<1>2. run \in 1..MaxRuns /\ f \in Fulfillers /\ r.closed \in SUBSET Actions
  BY <1>1, RunningTypes
<1>3. \A i \in 1..MaxRuns : fulfiller'[i] = IF i = run THEN g ELSE fulfiller[i]
  BY <1>1, <1>2 DEF Typed
<1>4. Held(f) /\ Disjoint(f) /\ Told(f, r)
  BY <1>1, <1>2 DEF BatchInv
<1>5. /\ g.inbox = Append(s, r.closed) /\ g.buffer = f.buffer /\ g.ngmi = f.ngmi
      /\ g.owed = f.owed /\ g.at = f.at
  BY <1>2 DEF Fulfillers
<1>6. /\ \A j \in DOMAIN g.inbox : (j \in DOMAIN s /\ g.inbox[j] = s[j]) \/ g.inbox[j] = r.closed
      /\ \A j, k \in DOMAIN g.inbox : j # k => j \in DOMAIN s \/ k \in DOMAIN s
      /\ \A j \in DOMAIN g.inbox : j \in DOMAIN s => g.inbox[j] = s[j]
  <2>1. s \in Seq(SUBSET Actions)
    BY <1>2 DEF Fulfillers
  <2>2. /\ g.inbox \in Seq(SUBSET Actions) /\ Len(g.inbox) = Len(s) + 1 /\ Len(s) \in Nat
        /\ (\A j \in 1..Len(s) : g.inbox[j] = s[j]) /\ g.inbox[Len(s) + 1] = r.closed
    BY <1>2, <1>5, <2>1, AppendProperties, LenProperties
  <2>3. DOMAIN s = 1..Len(s) /\ DOMAIN g.inbox = 1..Len(s) + 1
    BY <2>1, <2>2, LenProperties
  <2> QED
    BY <2>2, <2>3
<1> HIDE DEF f, g, s
<1>7. Held(g)
  BY <1>4, <1>5 DEF Held, Holds
<1>8. /\ \A j \in DOMAIN s : s[j] \cap f.owed = {} /\ s[j] \subseteq r.told /\ s[j] \cap r.closed = {}
      /\ \A j, k \in DOMAIN s : j # k => s[j] \cap s[k] = {}
      /\ f.owed \subseteq r.told /\ r.closed \subseteq r.told /\ r.closed \cap f.owed = {}
  BY <1>4 DEF Disjoint, Told, s
<1>9. Disjoint(g)
  <2>1. ASSUME NEW j \in DOMAIN g.inbox PROVE g.inbox[j] \cap g.owed = {}
    BY <1>5, <1>6, <1>8
  <2>2. ASSUME NEW j \in DOMAIN g.inbox, NEW k \in DOMAIN g.inbox, j # k
        PROVE  g.inbox[j] \cap g.inbox[k] = {}
    BY <1>6, <1>8, <2>2
  <2> QED
    BY <2>1, <2>2 DEF Disjoint
<1>10. Told(g, r')
  <2>1. r'.told = r.told /\ r'.closed = {}
    BY <1>1 DEF Typed, Locals
  <2>2. \A j \in DOMAIN g.inbox : g.inbox[j] \subseteq r.told
    BY <1>6, <1>8
  <2> QED
    BY <1>5, <1>8, <2>1, <2>2 DEF Told
<1>11. ASSUME NEW i \in 1..MaxRuns
       PROVE  /\ Held(fulfiller'[i]) /\ Disjoint(fulfiller'[i])
              /\ i > run => fulfiller'[i] = NoFulfiller
  <2>1. CASE i = run
    BY <1>2, <1>3, <1>7, <1>9, <2>1
  <2>2. CASE i # run
    BY <1>3, <2>2 DEF BatchInv
  <2> QED
    BY <2>1, <2>2
<1> QED
  BY <1>1, <1>2, <1>3, <1>10, <1>11 DEF BatchInv

\* The main loop forgets no order of a batch.
LEMMA BatchMain == Typed /\ BatchInv /\ Main => BatchInv'
<1> SUFFICES ASSUME Typed, BatchInv, Main PROVE BatchInv'
  OBVIOUS
<1>1. CASE Panic
  BY <1>1, BatchPanic
<1>2. CASE Fail
  BY <1>2, BatchFail
<1>3. CASE Starts
  BY <1>3, BatchStarts
<1>4. CASE Stf /\ ~Panic
  BY <1>4, BatchStf
<1>5. CASE Send /\ ~CallFails
  BY <1>5, BatchSend
<1>6. CASE New /\ ~Panic
  BY <1>3, <1>6 DEF New, Starts
<1> USE DEF Goes, tasks
<1>7. CASE Poll /\ ~CallFails
  BY <1>7, BatchSame DEF Poll, Running
<1>8. CASE Fetch /\ ~Panic /\ ~CallFails
  <2> DEFINE number == r.latest_known_block_number + 1
             answer == get_block_by_number(number)
  <2>1. r' = [r EXCEPT !.latest_known_block_number = number, !.new.blocks = answer]
    BY <1>8 DEF Fetch
  <2> HIDE DEF number, answer
  <2>2. r'.told = r.told /\ r'.closed = r.closed
    BY <2>1 DEF Typed, Locals
  <2> QED
    BY <1>8, <2>2, BatchSame DEF Fetch, Running
<1>9. CASE Drain
  <2>1. r' = r \/ r' = Noted(r, Head(pendingActions))
    BY <1>9 DEF Drain
  <2>2. r'.told = r.told /\ r'.closed = r.closed
    BY <2>1, NotedFields
  <2> QED
    BY <1>9, <2>2, BatchSame DEF Drain, Running
<1>10. CASE Prove /\ ~Panic /\ ~CallFails
  <2>1. r' = r \/ r' = [r EXCEPT !.total_closed_orders = 0]
    BY <1>10 DEF Prove
  <2>2. r'.told = r.told /\ r'.closed = r.closed
    BY <2>1 DEF Typed, Locals
  <2> QED
    BY <1>10, <2>2, BatchSame DEF Prove, Running
<1>11. CASE Submit /\ ~CallFails
  <2>1. r' = [r EXCEPT !.proven_state = r.state]
    BY <1>11 DEF Submit, NotSent
  <2>2. r'.told = r.told /\ r'.closed = r.closed
    BY <2>1 DEF Typed, Locals
  <2> QED
    BY <1>11, <2>2, BatchSame DEF Submit, NotSent, Running
<1>12. CASE Backup /\ ~Fail
  BY <1>12, BatchSame DEF Backup, Running
<1> QED
  BY <1>1, <1>2, <1>4, <1>5, <1>6, <1>7, <1>8, <1>9, <1>10, <1>11, <1>12 DEF Main, CallFails

\* There is no batch at the start.
LEMMA BatchInit == Init => BatchInv
<1> SUFFICES ASSUME Init PROVE BatchInv
  OBVIOUS
<1>1. pc = "new" /\ \A i \in 1..MaxRuns : fulfiller[i] = NoFulfiller
  BY DEF Init
<1> QED
  BY <1>1, NoFulfillerEmpty DEF BatchInv, Running

\* No step forgets an order of a batch.
LEMMA BatchNext == Typed /\ BatchInv /\ [Next]_vars => BatchInv'
<1> SUFFICES ASSUME Typed, BatchInv, [Next]_vars PROVE BatchInv'
  OBVIOUS
<1>1. CASE Main
  BY <1>1, BatchMain
<1>2. ASSUME NEW i \in 1..MaxRuns, Fulfiller(i) PROVE BatchInv'
  BY <1>2, BatchFulfiller
<1>3. CASE UNCHANGED <<pc, run, r, fulfiller>>
  BY <1>3 DEF BatchInv, Running
<1>4. CASE World \/ Listener \/ \E i \in orphans : OrphanEnds(i)
  BY <1>3, <1>4 DEF World, Announce, ProduceBlock, Reorganize, tasks, Listener, Subscribe, Hear,
     Hangup, Listens, OrphanEnds
<1>5. CASE UNCHANGED vars
  BY <1>3, <1>5 DEF vars, tasks
<1> QED
  BY <1>1, <1>2, <1>4, <1>5 DEF Next

\* Whatever is left out for want of funds, and however the runs and their
\* fulfillers overlap, a fulfiller that has not ended holds each order it took and
\* has sent no transaction for, and holds it once.
THEOREM OrdersAreHeld == Spec => []OrdersHeld
<1>1. Spec => []Typed
  BY TypedInit, TypedNext, PTL DEF Spec
<1>2. Init => BatchInv
  BY BatchInit
<1>3. Typed /\ BatchInv /\ [Next]_vars => BatchInv'
  BY BatchNext
<1>4. BatchInv => OrdersHeld
  BY DEF BatchInv, Held, Holds, OrdersHeld
<1> QED
  BY <1>1, <1>2, <1>3, <1>4, PTL DEF Spec
=============================================================================
